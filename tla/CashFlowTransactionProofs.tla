--------------------- MODULE CashFlowTransactionProofs ---------------------
(* What holds of CashFlowTransaction for every set of transfers and every  *)
(* bound on the time.                                                      *)
EXTENDS CashFlowTransaction, FiniteSetTheorems, TLAPS

-----------------------------------------------------------------------------
(* Counting.                                                               *)

LEMMA Finite ==
  ASSUME NEW ids \in SUBSET Transfers
  PROVE  IsFiniteSet(ids) /\ Cardinality(ids) \in Nat
<1>1. IsFiniteSet(ids)
  BY TransfersFinite, FS_Subset
<1> QED
  BY <1>1, FS_CardinalityType

(* New identifiers are counted on top of the known ones.                   *)
LEMMA CountsUnion ==
  ASSUME NEW ids \in SUBSET Transfers, NEW new \in SUBSET Transfers,
         new \cap ids = {}
  PROVE  Cardinality(ids \cup new) = Cardinality(ids) + Cardinality(new)
<1>1. /\ IsFiniteSet(ids) /\ Cardinality(ids) \in Nat
      /\ IsFiniteSet(new) /\ Cardinality(new) \in Nat
  BY Finite
<1>2. Cardinality(ids \cap new) = 0
  <2>1. ids \cap new = {}
    OBVIOUS
  <2>2. Cardinality({}) = 0
    BY FS_EmptySet
  <2> QED
    BY <2>1, <2>2
<1>3. Cardinality(ids \cup new) =
        Cardinality(ids) + Cardinality(new) - Cardinality(ids \cap new)
  BY <1>1, FS_Union
<1> QED
  BY <1>1, <1>2, <1>3

(* Two checkpoints of which one extends the other and that have the same   *)
(* revision have processed the same.                                       *)
LEMMA SameRevision ==
  ASSUME NEW p \in PointType, NEW q \in PointType,
         Counts(p), Counts(q), p.ids \subseteq q.ids
  PROVE  /\ p.rev = q.rev => p.ids = q.ids
         /\ p.ids = q.ids \/ q.rev > p.rev
<1>1. /\ p.ids \in SUBSET Transfers /\ q.ids \in SUBSET Transfers
      /\ p.rev = Cardinality(p.ids) /\ q.rev = Cardinality(q.ids)
  BY DEF PointType, Counts
<1>2. /\ IsFiniteSet(q.ids)
      /\ Cardinality(p.ids) \in Nat /\ Cardinality(q.ids) \in Nat
  BY <1>1, Finite
<1>3. /\ Cardinality(p.ids) <= Cardinality(q.ids)
      /\ Cardinality(q.ids) = Cardinality(p.ids) => q.ids = p.ids
  BY <1>1, <1>2, FS_Subset
<1> QED
  BY <1>1, <1>2, <1>3

-----------------------------------------------------------------------------
(* Type correctness.                                                       *)

LEMMA NullsTyped ==
  /\ State(NoFlows, 0) \in StateType /\ Processed({}, 0, 0) \in PointType
  /\ Unread \in [now: 0..MaxClock, state: StateType, seen: PointType,
                 events: SUBSET Transfers, again: BOOLEAN]
<1>1. State(NoFlows, 0) \in StateType /\ Processed({}, 0, 0) \in PointType
  BY ClockBound DEF State, NoFlows, StateType, Processed, PointType
<1> QED
  BY <1>1, ClockBound DEF Unread

LEMMA InitTyped == Init => TypeOK
<1> SUFFICES ASSUME Init PROVE TypeOK
  OBVIOUS
<1>1. /\ clock \in 1..MaxClock /\ happened \in [Transfers -> 0..MaxClock]
      /\ pc \in [Writers -> Stages] /\ app \in {"down", "composing", "up"}
  BY ClockBound DEF Init, Stages
<1>2. /\ loss \in StateType /\ runtime \in StateType
      /\ checkpoint \in PointType
      /\ sync \in [now: 0..MaxClock, state: StateType, seen: PointType,
                   events: SUBSET Transfers, again: BOOLEAN]
  BY NullsTyped DEF Init
<1>3. /\ lossTemp = {} /\ journal = {} /\ intent = {} /\ dropped = {}
      /\ checkpointTemp \in BOOLEAN /\ journalTemp \in BOOLEAN
  BY DEF Init
<1> QED
  BY <1>1, <1>2, <1>3 DEF TypeOK

LEMMA BuiltTyped ==
  ASSUME TypeOK
  PROVE  /\ Built \in StateType /\ Built.at = sync.now
         /\ \A e \in Transfers :
              Built.flows[e] = sync.state.flows[e]
                                 + IF e \in sync.events THEN 1 ELSE 0
         /\ Advanced \in PointType
         /\ Advanced.ids = sync.seen.ids \cup sync.events
         /\ Advanced.rev = sync.seen.rev + Cardinality(sync.events)
<1>1. /\ sync.state.flows \in [Transfers -> Nat] /\ sync.now \in 0..MaxClock
      /\ sync.seen.ids \in SUBSET Transfers /\ sync.seen.rev \in Nat
      /\ sync.events \in SUBSET Transfers
  BY DEF TypeOK, StateType, PointType
<1>2. Cardinality(sync.events) \in Nat
  BY <1>1, Finite
<1> QED
  BY <1>1, <1>2
     DEF Built, Advanced, State, Processed, StateType, PointType

LEMMA AbandonTyped ==
  ASSUME TypeOK, Abandon
  PROVE  /\ pc' \in [Writers -> Stages]
         /\ app' \in {"down", "composing", "up"}
         /\ sync' \in [now: 0..MaxClock, state: StateType, seen: PointType,
                       events: SUBSET Transfers, again: BOOLEAN]
         /\ intent' = {}
BY NullsTyped DEF Abandon, TypeOK, Sync, Writers, Stages

LEMMA ReplacesTyped ==
  ASSUME TypeOK, Replaces
  PROVE  /\ loss' \in StateType /\ lossTemp' = {}
         /\ dropped' \in SUBSET Transfers
BY DEF Replaces, Lost, TypeOK

LEMMA NextTyped == TypeOK /\ [Next]_vars => TypeOK'
<1> SUFFICES ASSUME TypeOK, [Next]_vars PROVE TypeOK'
  OBVIOUS
<1> USE DEF TypeOK, Go, At, files, Writers, Stages, Sync, Runtime
<1>1. ASSUME Synchronize PROVE TypeOK'
  <2>1. CASE StartSync
    <3>1. sync' \in [now: 0..MaxClock, state: StateType, seen: PointType,
                     events: SUBSET Transfers, again: BOOLEAN]
      <4>1. sync' = [now |-> clock, state |-> loss, seen |-> checkpoint,
                     events |-> {}, again |-> FALSE]
        BY <2>1 DEF StartSync, Unread
      <4>2. clock \in 0..MaxClock
        BY ClockBound
      <4> QED
        BY <4>1, <4>2
    <3> QED
      BY <2>1, <3>1 DEF StartSync
  <2>2. CASE ReadLedger
    BY <2>2 DEF ReadLedger, Eligible
  <2>3. CASE ReadFails
    BY <2>3, AbandonTyped DEF ReadFails
  <2> QED
    BY <1>1, <2>1, <2>2, <2>3 DEF Synchronize
<1>2. ASSUME Commit PROVE TypeOK'
  <2>1. CASE Prepare
    BY <2>1, BuiltTyped DEF Prepare, IntentType
  <2>2. CASE PrepareRefused
    BY <2>2, AbandonTyped DEF PrepareRefused
  <2>3. ASSUME NEW failed \in BOOLEAN, WriteJournal(failed) PROVE TypeOK'
    <3>1. CASE failed
      BY <2>3, <3>1, AbandonTyped DEF WriteJournal
    <3>2. CASE ~failed
      BY <2>3, <3>2 DEF WriteJournal
    <3> QED
      BY <3>1, <3>2
  <2>4. CASE JournalFails
    BY <2>4, AbandonTyped DEF JournalFails
  <2>5. CASE Check
    BY <2>5 DEF Check
  <2>6. CASE CheckFails
    BY <2>6, AbandonTyped DEF CheckFails
  <2>7. CASE SaveState
    BY <2>7 DEF SaveState, Temp, IntentType
  <2>8. CASE SaveStateRefused
    BY <2>8 DEF SaveStateRefused
  <2>9. CASE ReplaceState
    BY <2>9, ReplacesTyped DEF ReplaceState
  <2>10. CASE ReplaceStateFails
    BY <2>10, ReplacesTyped DEF ReplaceStateFails
  <2>11. CASE SaveStateFailed
    BY <2>11, AbandonTyped DEF SaveStateFailed
  <2>12. CASE SavePoint
    BY <2>12 DEF SavePoint
  <2>13. CASE SavePointRefused
    BY <2>13, AbandonTyped DEF SavePointRefused
  <2>14. ASSUME NEW failed \in BOOLEAN, ReplacePoint(failed) PROVE TypeOK'
    <3>1. CASE failed
      BY <2>14, <3>1, AbandonTyped DEF ReplacePoint, IntentType
    <3>2. CASE ~failed
      BY <2>14, <3>2 DEF ReplacePoint, IntentType
    <3> QED
      BY <3>1, <3>2
  <2>15. CASE ReplaceFresh
    BY <2>15, AbandonTyped DEF ReplaceFresh, Processed, PointType
  <2>16. CASE ReplacePointFails
    BY <2>16, AbandonTyped DEF ReplacePointFails
  <2>17. CASE Verify
    BY <2>17 DEF Verify
  <2>18. CASE VerifyFails
    BY <2>18, AbandonTyped DEF VerifyFails
  <2>19. ASSUME NEW failed \in BOOLEAN, Unlink(failed) PROVE TypeOK'
    <3>1. journal' = {} \/ journal' = journal
      BY <2>19 DEF Unlink
    <3>2. CASE failed
      BY <2>19, <3>1, <3>2, AbandonTyped DEF Unlink
    <3>3. CASE ~failed /\ sync.again
      BY <2>19, <3>1, <3>3 DEF Unlink
    <3>4. CASE ~failed /\ ~sync.again
      <4>1. /\ pc' \in [Writers -> Stages]
            /\ sync' = Unread /\ intent' = {} /\ app' = app
        BY <2>19, <3>4 DEF Unlink
      <4>2. UNCHANGED <<clock, happened, loss, lossTemp, checkpoint,
                        checkpointTemp, journalTemp, runtime, dropped>>
        BY <2>19 DEF Unlink
      <4> QED
        BY <3>1, <4>1, <4>2, NullsTyped
    <3> QED
      BY <3>2, <3>3, <3>4
  <2> QED
    BY <1>2, <2>1, <2>2, <2>3, <2>4, <2>5, <2>6, <2>7, <2>8, <2>9, <2>10,
       <2>11, <2>12, <2>13, <2>14, <2>15, <2>16, <2>17, <2>18, <2>19
       DEF Commit
<1>3. ASSUME Save PROVE TypeOK'
  <2>1. ASSUME NEW at \in 1..MaxClock, SaveRuntime(at) PROVE TypeOK'
    <3>1. runtime' \in StateType
      BY <2>1 DEF SaveRuntime, State, StateType
    <3>2. CASE lossTemp = {}
      BY <2>1, <3>1, <3>2 DEF SaveRuntime, Temp
    <3>3. CASE lossTemp # {}
      BY <2>1, <3>1, <3>3 DEF SaveRuntime
    <3> QED
      BY <3>2, <3>3
  <2>2. CASE ReplaceRuntime
    BY <2>2, ReplacesTyped DEF ReplaceRuntime
  <2>3. CASE CleanupRuntime
    BY <2>3 DEF CleanupRuntime
  <2> QED
    BY <1>3, <2>1, <2>2, <2>3 DEF Save
<1>4. CASE Compose
  BY <1>4 DEF Compose
<1>5. CASE Load
  BY <1>5 DEF Load
<1>6. CASE Crash
  BY <1>6, NullsTyped DEF Crash
<1>7. ASSUME NEW e \in Transfers, NEW at \in 1..clock, Transfer(e, at)
      PROVE  TypeOK'
  BY <1>7, ClockBound DEF Transfer
<1>8. CASE Tick
  BY <1>8, ClockBound DEF Tick
<1>9. CASE UNCHANGED vars
  BY <1>9 DEF vars
<1> QED
  BY <1>1, <1>2, <1>3, <1>4, <1>5, <1>6, <1>7, <1>8, <1>9 DEF Next

(* Every variable keeps its type, and there is never more than one         *)
(* transaction or one temporary file.                                      *)
THEOREM TypeCorrect == Spec => []TypeOK
BY InitTyped, NextTyped, PTL DEF Spec

-----------------------------------------------------------------------------
(* The transaction.  First, what no step undoes.                           *)

LEMMA HasCount ==
  ASSUME NEW state \in StateType, NEW e \in Transfers
  PROVE  /\ state.flows[e] \in Nat
         /\ ~Has(state, e) <=> state.flows[e] = 0
BY DEF StateType, Has

(* What is processed stays processed, and what the files know stays known. *)
Grows ==
  /\ checkpoint.ids \subseteq checkpoint'.ids
  /\ \A p \in journal : p \in journal' \/ p.newPoint.ids \subseteq checkpoint'.ids

LEMMA CommitGrows ==
  ASSUME TypeOK, CommitInv, Commit
  PROVE  Grows
<1> USE DEF Grows
<1>1. CASE Prepare
  BY <1>1 DEF Prepare
<1>2. CASE PrepareRefused
  BY <1>2 DEF PrepareRefused, files
<1>3. ASSUME NEW failed \in BOOLEAN, WriteJournal(failed) PROVE Grows
  BY <1>3 DEF WriteJournal, CommitInv, At
<1>4. CASE JournalFails
  BY <1>4 DEF JournalFails
<1>5. CASE Check \/ CheckFails
  BY <1>5 DEF Check, CheckFails, files
<1>6. CASE SaveState \/ SaveStateRefused
  BY <1>6 DEF SaveState, SaveStateRefused, files
<1>7. CASE ReplaceState \/ ReplaceStateFails
  BY <1>7 DEF ReplaceState, ReplaceStateFails
<1>8. CASE SaveStateFailed
  BY <1>8 DEF SaveStateFailed
<1>9. CASE SavePoint \/ SavePointRefused
  BY <1>9 DEF SavePoint, SavePointRefused, files
<1>10. ASSUME NEW failed \in BOOLEAN, ReplacePoint(failed) PROVE Grows
  BY <1>10 DEF ReplacePoint, CommitInv, Forward
<1>11. CASE ReplaceFresh
  BY <1>11 DEF ReplaceFresh, CommitInv, At, Processed
<1>12. CASE ReplacePointFails
  BY <1>12 DEF ReplacePointFails, files
<1>13. CASE Verify \/ VerifyFails
  BY <1>13 DEF Verify, VerifyFails, files
<1>14. ASSUME NEW failed \in BOOLEAN, Unlink(failed) PROVE Grows
  BY <1>14 DEF Unlink, CommitInv, At
<1> QED
  BY <1>1, <1>2, <1>3, <1>4, <1>5, <1>6, <1>7, <1>8, <1>9, <1>10, <1>11,
     <1>12, <1>13, <1>14 DEF Commit

LEMMA NextGrows ==
  ASSUME TypeOK, CommitInv, Next
  PROVE  Grows
<1> USE DEF Grows
<1>1. CASE Synchronize
  BY <1>1 DEF Synchronize, StartSync, ReadLedger, ReadFails, files
<1>2. CASE Commit
  BY <1>2, CommitGrows
<1>3. CASE Save
  BY <1>3 DEF Save, SaveRuntime, ReplaceRuntime, CleanupRuntime
<1>4. CASE Compose \/ Load \/ Crash
  BY <1>4 DEF Compose, Load, Crash, files
<1>5. ASSUME NEW e \in Transfers, NEW at \in 1..clock, Transfer(e, at)
      PROVE  Grows
  BY <1>5 DEF Transfer, files
<1>6. CASE Tick
  BY <1>6 DEF Tick, files
<1> QED
  BY <1>1, <1>2, <1>3, <1>4, <1>5, <1>6 DEF Next

LEMMA KnownStays ==
  ASSUME Grows, NEW e \in Transfers, Known(e)
  PROVE  Known(e)'
BY DEF Grows, Known

(* A state that is covered stays covered.                                  *)
LEMMA CoveredStays ==
  ASSUME Grows, NEW state, Covered(state),
         NEW next, next = state
  PROVE  \A e \in Transfers : Has(next, e) => Known(e)'
BY KnownStays DEF Covered

-----------------------------------------------------------------------------
(* The new transaction: it separates each of its events, which nothing had *)
(* separated, once.                                                        *)

LEMMA PreparedForward ==
  ASSUME TypeOK, CommitInv, Validates(checkpoint), journal = {},
         NEW p, p.new = Built, p.newPoint = Advanced
  PROVE  /\ checkpoint.ids \subseteq p.newPoint.ids
         /\ Counts(p.newPoint) /\ Once(p.new)
         /\ \A e \in Transfers : Has(p.new, e) => e \in p.newPoint.ids
<1>1. /\ sync.seen \in PointType /\ checkpoint \in PointType
      /\ sync.state \in StateType /\ sync.events \in SUBSET Transfers
  BY DEF TypeOK
<1>2. sync.seen.ids = checkpoint.ids
  BY <1>1, SameRevision DEF CommitInv, Validates
<1>3. /\ Advanced.ids = checkpoint.ids \cup sync.events
      /\ Advanced.rev = checkpoint.rev + Cardinality(sync.events)
  BY <1>2, BuiltTyped DEF Validates
<1>4. Counts(Advanced)
  <2>1. Cardinality(checkpoint.ids \cup sync.events)
          = Cardinality(checkpoint.ids) + Cardinality(sync.events)
    BY <1>1, CountsUnion DEF PointType, Validates
  <2> QED
    BY <1>3, <2>1 DEF Counts, CommitInv
<1>5. ASSUME NEW e \in Transfers
      PROVE  /\ Built.flows[e] <= 1
             /\ Has(Built, e) => e \in Advanced.ids
  <2>1. /\ sync.state.flows[e] \in Nat /\ sync.state.flows[e] <= 1
        /\ ~Has(sync.state, e) <=> sync.state.flows[e] = 0
        /\ Has(sync.state, e) => e \in checkpoint.ids
    BY <1>1, HasCount DEF CommitInv, Once, Covered, Known
  <2>2. CASE e \in sync.events
    <3>1. e \notin checkpoint.ids
      BY <2>2 DEF Validates
    <3>2. Built.flows[e] = sync.state.flows[e] + 1
      BY <2>2, BuiltTyped
    <3>3. e \in Advanced.ids
      BY <1>3, <2>2
    <3> QED
      BY <2>1, <3>1, <3>2, <3>3
  <2>3. CASE e \notin sync.events
    <3>1. Built.flows[e] = sync.state.flows[e] + 0
      BY <2>3, BuiltTyped
    <3> QED
      BY <1>3, <2>1, <3>1 DEF Has
  <2> QED
    BY <2>2, <2>3
<1> QED
  BY <1>3, <1>4, <1>5 DEF Once

-----------------------------------------------------------------------------
(* What a step does to the checkpoint and to what the synchronization has  *)
(* read of it.                                                             *)

PointsInv ==
  /\ Counts(checkpoint) /\ Counts(sync.seen)
  /\ sync.seen.ids \subseteq checkpoint.ids
  /\ At({"loaded", "fresh", "freshTemp"}) => sync.seen.ids = checkpoint.ids

LEMMA UnreadCounts == Counts(Unread.seen) /\ Unread.seen.ids = {}
<1>1. Unread.seen = Processed({}, 0, 0)
  BY DEF Unread
<1>2. Cardinality({}) = 0
  BY FS_EmptySet
<1> QED
  BY <1>1, <1>2 DEF Processed, Counts

(* A failure forgets what was read.                                        *)
LEMMA AbandonPoints ==
  ASSUME TypeOK, Abandon, Counts(checkpoint')
  PROVE  PointsInv'
<1>1. sync' = Unread /\ pc'[Sync] = "idle"
  BY DEF Abandon, TypeOK, Sync, Writers
<1> QED
  BY <1>1, UnreadCounts DEF PointsInv, Counts, At

(* The checkpoint and what was read of it stay, and no synchronization     *)
(* begins to use it.                                                       *)
LEMMA PointsStay ==
  ASSUME PointsInv, checkpoint' = checkpoint, sync'.seen = sync.seen,
         At({"loaded", "fresh", "freshTemp"})'
           => At({"loaded", "fresh", "freshTemp"})
  PROVE  PointsInv'
BY DEF PointsInv, Counts, At

LEMMA CommitPoints ==
  ASSUME TypeOK, CommitInv, Commit
  PROVE  PointsInv'
<1> USE DEF files, Go, At
<1>0. PointsInv /\ Counts(checkpoint)
  BY DEF CommitInv, PointsInv
<1>1. CASE Prepare
  BY <1>0, <1>1, PointsStay DEF Prepare, TypeOK, Sync, Writers
<1>2. CASE PrepareRefused
  BY <1>0, <1>2, AbandonPoints DEF PrepareRefused
<1>3. ASSUME NEW failed \in BOOLEAN, WriteJournal(failed) PROVE PointsInv'
  <2>1. CASE failed
    BY <1>0, <1>3, <2>1, AbandonPoints DEF WriteJournal
  <2>2. CASE ~failed
    BY <1>0, <1>3, <2>2, PointsStay DEF WriteJournal, TypeOK, Sync, Writers
  <2> QED
    BY <2>1, <2>2
<1>4. CASE JournalFails
  BY <1>0, <1>4, AbandonPoints DEF JournalFails
<1>5. CASE Check
  BY <1>0, <1>5, PointsStay DEF Check, TypeOK, Sync, Writers
<1>6. CASE CheckFails
  BY <1>0, <1>6, AbandonPoints DEF CheckFails
<1>7. CASE SaveState \/ SaveStateRefused \/ ReplaceState \/ ReplaceStateFails
  BY <1>0, <1>7, PointsStay
     DEF SaveState, SaveStateRefused, ReplaceState, ReplaceStateFails,
         TypeOK, Sync, Writers
<1>8. CASE SaveStateFailed
  BY <1>0, <1>8, AbandonPoints DEF SaveStateFailed
<1>9. CASE SavePoint
  BY <1>0, <1>9, PointsStay DEF SavePoint, TypeOK, Sync, Writers
<1>10. CASE SavePointRefused
  BY <1>0, <1>10, AbandonPoints DEF SavePointRefused
<1>11. ASSUME NEW failed \in BOOLEAN, ReplacePoint(failed) PROVE PointsInv'
  <2>1. /\ Counts(checkpoint') /\ checkpoint.ids \subseteq checkpoint'.ids
    BY <1>11 DEF ReplacePoint, CommitInv, Forward
  <2>2. CASE failed
    BY <1>11, <2>1, <2>2, AbandonPoints DEF ReplacePoint
  <2>3. CASE ~failed
    <3>1. sync' = sync /\ pc'[Sync] = "verify"
      BY <1>11, <2>3 DEF ReplacePoint, TypeOK, Sync, Writers
    <3> QED
      BY <1>0, <2>1, <3>1 DEF PointsInv, Counts
  <2> QED
    BY <2>2, <2>3
<1>12. CASE ReplaceFresh
  <2>1. Counts(checkpoint')
    BY <1>12 DEF ReplaceFresh, Processed, Counts, CommitInv
  <2> QED
    BY <1>12, <2>1, AbandonPoints DEF ReplaceFresh
<1>13. CASE ReplacePointFails
  BY <1>0, <1>13, AbandonPoints DEF ReplacePointFails
<1>14. CASE Verify
  BY <1>0, <1>14, PointsStay DEF Verify, TypeOK, Sync, Writers
<1>15. CASE VerifyFails
  BY <1>0, <1>15, AbandonPoints DEF VerifyFails
<1>16. ASSUME NEW failed \in BOOLEAN, Unlink(failed) PROVE PointsInv'
  <2>1. checkpoint' = checkpoint
    BY <1>16 DEF Unlink
  <2>2. CASE failed
    BY <1>0, <1>16, <2>1, <2>2, AbandonPoints DEF Unlink
  <2>3. CASE ~failed /\ sync.again
    <3>1. sync'.seen = sync.seen /\ pc'[Sync] = "prepare"
      BY <1>16, <2>3 DEF Unlink, TypeOK, Sync, Writers
    <3> QED
      BY <1>0, <2>1, <3>1, PointsStay
  <2>4. CASE ~failed /\ ~sync.again
    <3>1. sync' = Unread /\ pc'[Sync] = "idle"
      BY <1>16, <2>4 DEF Unlink, TypeOK, Sync, Writers
    <3> QED
      BY <1>0, <2>1, <3>1, UnreadCounts DEF PointsInv, Counts
  <2> QED
    BY <2>2, <2>3, <2>4
<1> QED
  BY <1>1, <1>2, <1>3, <1>4, <1>5, <1>6, <1>7, <1>8, <1>9, <1>10, <1>11,
     <1>12, <1>13, <1>14, <1>15, <1>16 DEF Commit

LEMMA NextPoints ==
  ASSUME TypeOK, CommitInv, [Next]_vars
  PROVE  PointsInv'
<1> USE DEF files, Go, At
<1>0. PointsInv /\ Counts(checkpoint)
  BY DEF CommitInv, PointsInv
<1>1. CASE StartSync
  <2>1. sync'.seen = checkpoint /\ checkpoint' = checkpoint
    BY <1>1 DEF StartSync, Unread
  <2> QED
    BY <1>0, <2>1 DEF PointsInv, Counts
<1>2. CASE ReadLedger
  <2>1. sync'.seen = sync.seen /\ checkpoint' = checkpoint
    BY <1>2 DEF ReadLedger, TypeOK
  <2> QED
    BY <1>0, <1>2, <2>1, PointsStay DEF ReadLedger
<1>3. CASE ReadFails
  BY <1>0, <1>3, AbandonPoints DEF ReadFails
<1>4. CASE Commit
  BY <1>4, CommitPoints
<1>5. CASE Save
  BY <1>0, <1>5, PointsStay
     DEF Save, SaveRuntime, ReplaceRuntime, CleanupRuntime, TypeOK, Sync,
         Runtime, Writers
<1>6. CASE Compose \/ Load
  BY <1>0, <1>6, PointsStay DEF Compose, Load, TypeOK, Sync, Writers
<1>7. CASE Crash
  <2>1. sync' = Unread /\ pc'[Sync] = "idle" /\ checkpoint' = checkpoint
    BY <1>7 DEF Crash, Sync, Writers
  <2> QED
    BY <1>0, <2>1, UnreadCounts DEF PointsInv, Counts
<1>8. ASSUME NEW e \in Transfers, NEW at \in 1..clock, Transfer(e, at)
      PROVE  PointsInv'
  BY <1>0, <1>8, PointsStay DEF Transfer
<1>9. CASE Tick
  BY <1>0, <1>9, PointsStay DEF Tick
<1>10. CASE UNCHANGED vars
  BY <1>0, <1>10, PointsStay DEF vars
<1> QED
  BY <1>1, <1>2, <1>3, <1>4, <1>5, <1>6, <1>7, <1>8, <1>9, <1>10
     DEF Next, Synchronize

-----------------------------------------------------------------------------
(* What a step does to the transaction.                                    *)

JournalInv ==
  /\ At({"journal"}) => journal = {}
  /\ At({"journal"}) => \A p \in intent : Forward(p)
  /\ \A p \in journal : Forward(p)
  /\ At({"unlink"}) => \A p \in journal : p.newPoint = checkpoint

(* The transaction stays as it is, or goes, and what is processed stays.   *)
LEMMA JournalStays ==
  ASSUME JournalInv, journal' \in {journal, {}},
         checkpoint'.ids = checkpoint.ids,
         At({"journal"})' => At({"journal"}) /\ intent' = intent,
         At({"unlink"})' => At({"unlink"}) /\ checkpoint' = checkpoint
  PROVE  JournalInv'
<1>1. \A p : Forward(p) => Forward(p)'
  BY DEF Forward
<1> QED
  BY <1>1 DEF JournalInv

LEMMA CommitJournal ==
  ASSUME TypeOK, CommitInv, Commit
  PROVE  JournalInv'
<1> USE DEF files, Go, At
<1>0. JournalInv /\ pc \in [Writers -> Stages]
  BY DEF CommitInv, JournalInv, TypeOK
<1>a. ASSUME Abandon, checkpoint' = checkpoint, journal' \in {journal, {}}
      PROVE  JournalInv'
  <2>1. pc'[Sync] = "idle"
    BY <1>0, <1>a DEF Abandon, Sync, Writers
  <2> QED
    BY <1>0, <1>a, <2>1, JournalStays
<1>1. CASE Prepare
  <2>1. ASSUME NEW p \in intent' PROVE Forward(p)'
    <3>1. p.new = Built /\ p.newPoint = Advanced
      BY <1>1, <2>1 DEF Prepare
    <3> QED
      BY <1>1, <3>1, PreparedForward DEF Prepare, Forward
  <2>2. journal' = {} /\ pc'[Sync] = "journal"
    BY <1>0, <1>1 DEF Prepare, Sync, Writers
  <2> QED
    BY <2>1, <2>2 DEF JournalInv
<1>2. CASE PrepareRefused
  BY <1>a, <1>2 DEF PrepareRefused
<1>3. ASSUME NEW failed \in BOOLEAN, WriteJournal(failed) PROVE JournalInv'
  <2>1. /\ journal' = intent /\ checkpoint' = checkpoint
        /\ pc'[Sync] \in {"idle", "check"}
    <3>1. CASE failed
      BY <1>0, <1>3, <3>1 DEF WriteJournal, Abandon, Sync, Writers
    <3>2. CASE ~failed
      BY <1>0, <1>3, <3>2 DEF WriteJournal, Sync, Writers
    <3> QED
      BY <3>1, <3>2
  <2>2. \A p \in intent : Forward(p)'
    BY <1>0, <1>3, <2>1 DEF JournalInv, WriteJournal, Forward
  <2> QED
    BY <2>1, <2>2 DEF JournalInv
<1>4. CASE JournalFails
  BY <1>a, <1>4 DEF JournalFails
<1>5. CASE Check
  BY <1>0, <1>5, JournalStays DEF Check, Sync, Writers
<1>6. CASE CheckFails
  BY <1>a, <1>6 DEF CheckFails
<1>7. CASE SaveState \/ SaveStateRefused \/ ReplaceState \/ ReplaceStateFails
  BY <1>0, <1>7, JournalStays
     DEF SaveState, SaveStateRefused, ReplaceState, ReplaceStateFails,
         Sync, Writers
<1>8. CASE SaveStateFailed
  BY <1>a, <1>8 DEF SaveStateFailed
<1>9. CASE SavePoint
  BY <1>0, <1>9, JournalStays DEF SavePoint, Sync, Writers
<1>10. CASE SavePointRefused
  BY <1>a, <1>10 DEF SavePointRefused
<1>11. ASSUME NEW failed \in BOOLEAN, ReplacePoint(failed) PROVE JournalInv'
  <2>1. PICK p \in journal : checkpoint' = p.newPoint
    BY <1>11 DEF ReplacePoint
  <2>2. journal = {p} /\ journal' = journal
    BY <1>11, <2>1 DEF ReplacePoint, TypeOK
  <2>3. Forward(p)'
    BY <1>0, <2>1 DEF JournalInv, Forward
  <2>4. pc'[Sync] \in {"idle", "verify"}
    <3>1. CASE failed
      BY <1>0, <1>11, <3>1 DEF ReplacePoint, Abandon, Sync, Writers
    <3>2. CASE ~failed
      BY <1>0, <1>11, <3>2 DEF ReplacePoint, Sync, Writers
    <3> QED
      BY <3>1, <3>2
  <2> QED
    BY <2>2, <2>3, <2>4 DEF JournalInv
<1>12. CASE ReplaceFresh
  <2>1. checkpoint'.ids = checkpoint.ids
    BY <1>12 DEF ReplaceFresh, CommitInv, Processed
  <2>2. journal' = journal /\ pc'[Sync] = "idle"
    BY <1>0, <1>12 DEF ReplaceFresh, Abandon, Sync, Writers
  <2> QED
    BY <1>0, <2>1, <2>2, JournalStays
<1>13. CASE ReplacePointFails
  BY <1>a, <1>13 DEF ReplacePointFails
<1>14. CASE Verify
  <2>1. \A p \in journal : p.newPoint = checkpoint
    BY <1>14 DEF Verify, Complete, TypeOK
  <2>2. /\ journal' = journal /\ checkpoint' = checkpoint
        /\ pc'[Sync] = "unlink"
    BY <1>0, <1>14 DEF Verify, Sync, Writers
  <2> QED
    BY <1>0, <2>1, <2>2 DEF JournalInv, Forward
<1>15. CASE VerifyFails
  BY <1>a, <1>15 DEF VerifyFails
<1>16. ASSUME NEW failed \in BOOLEAN, Unlink(failed) PROVE JournalInv'
  <2>1. journal' \in {journal, {}} /\ checkpoint' = checkpoint
    BY <1>16 DEF Unlink
  <2>2. CASE failed
    BY <1>a, <1>16, <2>1, <2>2 DEF Unlink
  <2>3. CASE ~failed
    <3>1. pc'[Sync] \in {"prepare", "idle"}
      BY <1>0, <1>16, <2>3 DEF Unlink, Sync, Writers
    <3> QED
      BY <1>0, <2>1, <3>1, JournalStays
  <2> QED
    BY <2>2, <2>3
<1> QED
  BY <1>1, <1>2, <1>3, <1>4, <1>5, <1>6, <1>7, <1>8, <1>9, <1>10, <1>11,
     <1>12, <1>13, <1>14, <1>15, <1>16 DEF Commit

LEMMA NextJournal ==
  ASSUME TypeOK, CommitInv, [Next]_vars
  PROVE  JournalInv'
<1> USE DEF files, Go, At
<1>0. JournalInv /\ pc \in [Writers -> Stages]
  BY DEF CommitInv, JournalInv, TypeOK
<1>1. CASE StartSync \/ ReadLedger
  BY <1>0, <1>1, JournalStays DEF StartSync, ReadLedger, Sync, Writers
<1>2. CASE ReadFails
  BY <1>0, <1>2, JournalStays DEF ReadFails, Abandon, Sync, Writers
<1>3. CASE Commit
  BY <1>3, CommitJournal
<1>4. CASE Save
  BY <1>0, <1>4, JournalStays
     DEF Save, SaveRuntime, ReplaceRuntime, CleanupRuntime, Sync, Runtime,
         Writers
<1>5. CASE Compose \/ Load \/ Crash
  BY <1>0, <1>5, JournalStays DEF Compose, Load, Crash, Sync, Writers
<1>6. ASSUME NEW e \in Transfers, NEW at \in 1..clock, Transfer(e, at)
      PROVE  JournalInv'
  BY <1>0, <1>6, JournalStays DEF Transfer
<1>7. CASE Tick
  BY <1>0, <1>7, JournalStays DEF Tick
<1>8. CASE UNCHANGED vars
  BY <1>0, <1>8, JournalStays DEF vars
<1> QED
  BY <1>1, <1>2, <1>3, <1>4, <1>5, <1>6, <1>7, <1>8 DEF Next, Synchronize

-----------------------------------------------------------------------------
(* What a step does to the loss states anyone holds: each is one that      *)
(* somebody held, or the transaction's.                                    *)

StatesInv ==
  /\ Once(loss) /\ Once(runtime) /\ Once(sync.state)
  /\ \A temp \in lossTemp : Once(temp.state)
  /\ Covered(loss) /\ Covered(sync.state)
  /\ \A temp \in lossTemp : Covered(temp.state)
  /\ \A e \in Transfers : Has(runtime, e) => e \in checkpoint.ids

(* Where the next states come from.                                        *)
Follows ==
  /\ loss' = loss \/ \E temp \in lossTemp : loss' = temp.state
  /\ sync'.state = sync.state \/ sync'.state = loss \/ sync'.state = Unread.state
  /\ runtime'.flows = runtime.flows \/ (runtime' = loss /\ journal = {})
  /\ \A temp \in lossTemp' :
       \/ temp \in lossTemp
       \/ \E p \in journal : temp.state = p.new
       \/ temp.state.flows = runtime.flows

LEMMA StatesFollow ==
  ASSUME TypeOK, CommitInv, Grows, Follows
  PROVE  StatesInv'
<1>1. /\ StatesInv /\ \A p \in journal : Forward(p)
      /\ checkpoint.ids \subseteq checkpoint'.ids
  BY DEF CommitInv, StatesInv, Grows
<1>2. \A e \in Transfers : Known(e) => Known(e)'
  BY KnownStays
<1>3. \A e \in Transfers : ~Has(Unread.state, e)
  BY DEF Unread, State, NoFlows, Has
<1>4. \A e \in Transfers : Unread.state.flows[e] <= 1
  BY DEF Unread, State, NoFlows
<1>5. Once(loss') /\ Covered(loss)'
  BY <1>1, <1>2 DEF Follows, StatesInv, Covered
<1>6. Once(sync'.state) /\ Covered(sync.state)'
  <2>1. CASE sync'.state = Unread.state
    BY <1>3, <1>4, <2>1 DEF Once, Covered
  <2>2. CASE sync'.state \in {sync.state, loss}
    BY <1>1, <1>2, <2>2 DEF StatesInv, Covered
  <2> QED
    BY <2>1, <2>2 DEF Follows
<1>7. /\ Once(runtime')
      /\ \A e \in Transfers : Has(runtime', e) => e \in checkpoint'.ids
  <2>1. CASE runtime'.flows = runtime.flows
    BY <1>1, <2>1 DEF StatesInv, Once, Has
  <2>2. CASE runtime' = loss /\ journal = {}
    BY <1>1, <2>2 DEF StatesInv, Covered, Known
  <2> QED
    BY <2>1, <2>2 DEF Follows
<1>8. ASSUME NEW temp \in lossTemp'
      PROVE  Once(temp.state) /\ \A e \in Transfers :
                                    Has(temp.state, e) => Known(e)'
  <2>1. CASE temp \in lossTemp
    BY <1>1, <1>2, <2>1 DEF StatesInv, Covered
  <2>2. ASSUME NEW p \in journal, temp.state = p.new
        PROVE  /\ Once(temp.state)
               /\ \A e \in Transfers : Has(temp.state, e) => Known(e)'
    <3>1. \A e \in Transfers : Has(p.new, e) => Known(e)
      BY <1>1 DEF Forward, Known
    <3> QED
      BY <1>1, <1>2, <2>2, <3>1 DEF Forward
  <2>3. CASE temp.state.flows = runtime.flows
    BY <1>1, <2>3 DEF StatesInv, Once, Has, Known
  <2> QED
    BY <2>1, <2>2, <2>3 DEF Follows
<1> QED
  BY <1>5, <1>6, <1>7, <1>8 DEF StatesInv, Once, Covered

LEMMA NextFollows ==
  ASSUME TypeOK, [Next]_vars
  PROVE  Follows
<1> USE DEF files
<1>a. ASSUME Replaces, sync' = sync, runtime' = runtime PROVE Follows
  BY <1>a DEF Replaces, Follows
<1>b. ASSUME UNCHANGED <<loss, runtime>>, lossTemp' \in {lossTemp, {}},
             sync' \in {sync, Unread} \/ sync'.state \in {sync.state, loss}
      PROVE  Follows
  BY <1>b DEF Follows
<1>1. CASE StartSync \/ ReadLedger \/ ReadFails
  <2>1. CASE StartSync
    BY <1>b, <2>1 DEF StartSync, Unread
  <2>2. CASE ReadLedger
    BY <1>b, <2>2 DEF ReadLedger, TypeOK
  <2>3. CASE ReadFails
    BY <1>b, <2>3 DEF ReadFails, Abandon
  <2> QED
    BY <1>1, <2>1, <2>2, <2>3
<1>2. CASE Commit
  <2>1. CASE Prepare \/ PrepareRefused \/ JournalFails \/ Check \/ CheckFails
    BY <1>b, <2>1
       DEF Prepare, PrepareRefused, JournalFails, Check, CheckFails, Abandon
  <2>2. ASSUME NEW failed \in BOOLEAN, WriteJournal(failed) PROVE Follows
    BY <1>b, <2>2 DEF WriteJournal, Abandon
  <2>3. CASE SaveState
    BY <2>3 DEF SaveState, Temp, Follows
  <2>4. CASE SaveStateRefused \/ SaveStateFailed
    BY <1>b, <2>4 DEF SaveStateRefused, SaveStateFailed, Abandon
  <2>5. CASE ReplaceState \/ ReplaceStateFails
    BY <1>a, <1>b, <2>5 DEF ReplaceState, ReplaceStateFails
  <2>6. CASE SavePoint \/ SavePointRefused \/ ReplaceFresh
               \/ ReplacePointFails \/ Verify \/ VerifyFails
    BY <1>b, <2>6
       DEF SavePoint, SavePointRefused, ReplaceFresh, ReplacePointFails,
           Verify, VerifyFails, Abandon
  <2>7. ASSUME NEW failed \in BOOLEAN, ReplacePoint(failed) PROVE Follows
    BY <1>b, <2>7 DEF ReplacePoint, Abandon
  <2>8. ASSUME NEW failed \in BOOLEAN, Unlink(failed) PROVE Follows
    <3>1. sync' = Unread \/ sync'.state = sync.state
      BY <2>8 DEF Unlink, Abandon, TypeOK
    <3> QED
      BY <1>b, <2>8, <3>1 DEF Unlink
  <2> QED
    BY <1>2, <2>1, <2>2, <2>3, <2>4, <2>5, <2>6, <2>7, <2>8 DEF Commit
<1>3. CASE Save
  <2>1. ASSUME NEW at \in 1..MaxClock, SaveRuntime(at) PROVE Follows
    <3>1. /\ runtime'.flows = runtime.flows
          /\ Temp(Runtime, runtime').state = runtime'
      BY <2>1 DEF SaveRuntime, State, Temp
    <3>2. lossTemp' \in {lossTemp, {Temp(Runtime, runtime')}}
      BY <2>1 DEF SaveRuntime
    <3> QED
      BY <2>1, <3>1, <3>2 DEF SaveRuntime, Follows
  <2>2. CASE ReplaceRuntime
    BY <1>a, <1>b, <2>2 DEF ReplaceRuntime
  <2>3. CASE CleanupRuntime
    BY <1>b, <2>3 DEF CleanupRuntime
  <2> QED
    BY <1>3, <2>1, <2>2, <2>3 DEF Save
<1>4. CASE Compose \/ Crash
  BY <1>b, <1>4 DEF Compose, Crash
<1>5. CASE Load
  BY <1>5 DEF Load, Loadable, Follows
<1>6. ASSUME NEW e \in Transfers, NEW at \in 1..clock, Transfer(e, at)
      PROVE  Follows
  BY <1>b, <1>6 DEF Transfer
<1>7. CASE Tick
  BY <1>b, <1>7 DEF Tick
<1>8. CASE UNCHANGED vars
  BY <1>b, <1>8 DEF vars
<1> QED
  BY <1>1, <1>2, <1>3, <1>4, <1>5, <1>6, <1>7, <1>8 DEF Next, Synchronize

-----------------------------------------------------------------------------
LEMMA InitCommits == Init => CommitInv
<1> SUFFICES ASSUME Init PROVE CommitInv
  OBVIOUS
<1>1. /\ loss = Unread.state /\ runtime = Unread.state
      /\ sync = Unread /\ checkpoint = Unread.seen
      /\ lossTemp = {} /\ journal = {} /\ pc[Sync] = "idle"
  BY DEF Init, Unread, Sync, Writers
<1>2. \A e \in Transfers : Unread.state.flows[e] = 0
  BY DEF Unread, State, NoFlows
<1>3. \A e \in Transfers : ~Has(Unread.state, e) /\ Unread.state.flows[e] <= 1
  BY <1>2 DEF Has
<1> QED
  BY <1>1, <1>3, UnreadCounts DEF CommitInv, At, Once, Covered

LEMMA NextCommits == TypeOK /\ CommitInv /\ [Next]_vars => CommitInv'
<1> SUFFICES ASSUME TypeOK, CommitInv, [Next]_vars PROVE CommitInv'
  OBVIOUS
<1>1. Grows
  <2>1. CASE UNCHANGED vars
    BY <2>1 DEF vars, files, Grows
  <2> QED
    BY <2>1, NextGrows
<1>2. StatesInv'
  BY <1>1, NextFollows, StatesFollow
<1> QED
  BY <1>2, NextPoints, NextJournal
     DEF CommitInv, PointsInv, JournalInv, StatesInv

(* The inductive invariant of the two-file transaction: whatever fails and *)
(* whenever the process dies, every state anyone holds separates a flow    *)
(* once, and only flows the files know of.                                 *)
THEOREM CommitInvariant == Spec => [](TypeOK /\ CommitInv)
<1>1. Init => TypeOK /\ CommitInv
  BY InitTyped, InitCommits
<1>2. TypeOK /\ CommitInv /\ [Next]_vars => (TypeOK /\ CommitInv)'
  BY NextTyped, NextCommits
<1> QED
  BY <1>1, <1>2, PTL DEF Spec

(* No transfer is separated from the trading result twice.                 *)
THEOREM NeverTwice == Spec => []FlowOnce
<1>1. TypeOK /\ CommitInv => FlowOnce
  BY DEF CommitInv, Once, FlowOnce
<1> QED
  BY <1>1, CommitInvariant, PTL

(* The two files are never apart without the journal that completes them.  *)
THEOREM ApartOnlyByJournal == Spec => []JournalCovers
<1>1. TypeOK /\ CommitInv => JournalCovers
  BY DEF CommitInv, Covered, Known, JournalCovers
<1> QED
  BY <1>1, CommitInvariant, PTL

(* The runtime works on flows that were committed.                         *)
THEOREM RuntimeOnCommitted == Spec => []RuntimeCommitted
<1>1. TypeOK /\ CommitInv => RuntimeCommitted
  BY DEF CommitInv, RuntimeCommitted
<1> QED
  BY <1>1, CommitInvariant, PTL

-----------------------------------------------------------------------------
(* What is processed is accounted for.                                     *)

(* A save can replace the loss state by the temporary file it finds.       *)
Replaceable == pc[Runtime] = "stateTemp" \/ pc[Sync] = "stateTemp"
RuntimeTemp == \E temp \in lossTemp : temp.by = Runtime

(* What the runtime is still to save is not this state: where it has the   *)
(* same flows it is of a later time.                                       *)
Earlier(state) ==
  state.flows = runtime.flows =>
    /\ state.at <= runtime.at
    /\ Replaceable /\ RuntimeTemp => state.at < runtime.at

(* A transaction separates a flow that neither the runtime nor the loss    *)
(* state before it has.                                                    *)
Novel(p) ==
  \E e \in p.newPoint.ids :
    Has(p.new, e) /\ ~Has(runtime, e) /\ ~Has(p.old, e)
Pending == journal \cup IF At({"journal"}) THEN intent ELSE {}

ProcessInv ==
  /\ app # "up" => pc[Runtime] = "idle"
  /\ app = "down" => sync = Unread /\ pc[Sync] = "idle"
  /\ sync.again \/ At({"prepare"}) => sync.events # {}

(* A temporary file that can become the loss state is the runtime's last   *)
(* save or the transaction's state.                                        *)
LiveTemp(temp) ==
  IF temp.by = Runtime
  THEN temp.state = runtime /\ pc[Runtime] # "idle"
  ELSE At({"stateTemp", "failed"}) /\ \E p \in journal : temp.state = p.new
SavesInv ==
  /\ Earlier(loss)
  /\ \A p \in Pending : Earlier(p.old) /\ Novel(p)
  /\ Replaceable => \A temp \in lossTemp : LiveTemp(temp)

(* Once the checkpoint is or will be the transaction's, the loss state is  *)
(* never again the one before it.                                          *)
PointsLate ==
  /\ \A p \in journal :
       p.newPoint.ids \subseteq checkpoint.ids \/ At({"point", "pointTemp"})
         => loss # p.old
  /\ At({"journal"}) =>
       \A p \in intent : ~(p.newPoint.ids \subseteq checkpoint.ids)

(* Each processed flow is in the state, or a save of the runtime took it   *)
(* away: of the loss state when no transaction is pending, of a            *)
(* transaction's state, and of the state a synchronization goes by when    *)
(* the checkpoint it read is still the current one.                        *)
Held(state, e) == Has(state, e) \/ e \in dropped
Sound == \A e \in sync.seen.ids : Held(sync.state, e)
LateStages == {"state", "stateTemp", "point", "pointTemp", "verify", "unlink"}
AccountInv ==
  /\ \A p \in Pending : \A e \in p.newPoint.ids : Held(p.new, e)
  /\ At({"loaded"}) /\ journal = {} => Sound
  /\ At({"prepare"}) /\ sync.seen.ids = checkpoint.ids => Sound
  /\ \A p \in journal : sync.seen.ids = p.newPoint.ids =>
       /\ At({"loaded", "check"}) /\ loss = p.new => sync.state = p.new
       /\ At(LateStages) => Sound
  /\ At({"unlink"}) \/ journal = {} =>
       \A e \in checkpoint.ids : Held(loss, e)
  /\ At({"unlink"}) => journal # {}

USE DEF Sync, Runtime, Writers, Go, At, files

(* What each invariant asks of a step that does not touch the files it is  *)
(* about.                                                                  *)
LEMMA SavesStay ==
  ASSUME TypeOK, SavesInv, UNCHANGED <<loss, runtime>>,
         lossTemp' \subseteq lossTemp, Pending' \subseteq Pending,
         Replaceable' => Replaceable,
         lossTemp' = {} \/ pc'[Runtime] # "idle" \/ pc[Runtime] = "idle",
         \/ lossTemp' = {}
         \/ pc[Sync] \notin {"stateTemp", "failed"}
         \/ pc'[Sync] \in {"stateTemp", "failed"} /\ journal' = journal
         \/ ~Replaceable'
  PROVE  SavesInv'
<1>1. RuntimeTemp' => RuntimeTemp
  BY DEF RuntimeTemp
<1>2. \A state : Earlier(state) => Earlier(state)'
  BY <1>1 DEF Earlier
<1>3. \A p : Novel(p) => Novel(p)'
  BY DEF Novel, Has
<1>4. Earlier(loss)'
  BY <1>1 DEF SavesInv, Earlier
<1>5. Replaceable' => \A temp \in lossTemp' : LiveTemp(temp)'
  BY DEF SavesInv, LiveTemp
<1> QED BY <1>2, <1>3, <1>4, <1>5 DEF SavesInv

(* Either kind of temporary file leaves a loss state earlier than the      *)
(* runtime's next save.                                                    *)
LEMMA SavesReplace ==
  ASSUME TypeOK, SavesInv, Replaceable, Replaces, UNCHANGED runtime,
         Pending' \subseteq Pending
  PROVE  SavesInv'
<1>1. PICK temp \in lossTemp : loss' = temp.state /\ lossTemp' = {}
  BY DEF Replaces
<1>2. ~RuntimeTemp'
  BY <1>1 DEF RuntimeTemp
<1>3. \A p \in Pending' : Earlier(p.old)' /\ Novel(p)'
  BY <1>2 DEF SavesInv, Earlier, Novel, Has
<1>4. Earlier(loss)'
  <2>1. CASE temp.by = Runtime
    <3>1. temp.state = runtime /\ runtime.at \in 0..MaxClock
      BY <2>1 DEF SavesInv, LiveTemp, TypeOK, StateType
    <3> QED BY <1>1, <1>2, <3>1 DEF Earlier
  <2>2. CASE temp.by # Runtime
    <3>1. PICK p \in journal : temp.state = p.new
      BY <2>2 DEF SavesInv, LiveTemp
    <3>2. Novel(p)
      BY DEF SavesInv, Pending
    <3>3. p.new.flows # runtime.flows
      BY <3>2 DEF Novel, Has
    <3> QED BY <1>1, <3>1, <3>3 DEF Earlier
  <2> QED BY <2>1, <2>2
<1> QED BY <1>1, <1>3, <1>4 DEF SavesInv

LEMMA PointsLateStay ==
  ASSUME PointsLate, UNCHANGED loss, journal' \subseteq journal,
         checkpoint'.ids = checkpoint.ids,
         At({"point", "pointTemp"})' => At({"point", "pointTemp"}),
         At({"journal"})' => At({"journal"}) /\ intent' = intent
  PROVE  PointsLate'
BY DEF PointsLate

(* A state that replaces the loss state is not one a transaction began on. *)
LEMMA PointsLateReplace ==
  ASSUME TypeOK, SavesInv, PointsLate, Replaceable, Replaces,
         UNCHANGED <<journal, intent>>, checkpoint' = checkpoint,
         At({"journal"})' => At({"journal"})
  PROVE  /\ PointsLate'
         /\ \A p \in journal : loss' # p.old
<1>1. PICK temp \in lossTemp : loss' = temp.state
  BY DEF Replaces
<1>2. ASSUME NEW p \in journal PROVE loss' # p.old
  <2>1. Earlier(p.old) /\ Novel(p)
    BY DEF SavesInv, Pending
  <2>2. CASE temp.by = Runtime
    <3>1. temp.state = runtime /\ RuntimeTemp /\ runtime.at \in 0..MaxClock
      BY <2>2 DEF SavesInv, LiveTemp, RuntimeTemp, TypeOK, StateType
    <3> QED BY <1>1, <2>1, <3>1 DEF Earlier
  <2>3. CASE temp.by # Runtime
    <3>1. temp.state = p.new
      BY <2>3 DEF SavesInv, LiveTemp, TypeOK
    <3> QED BY <1>1, <2>1, <3>1 DEF Novel
  <2> QED BY <2>2, <2>3
<1> QED BY <1>2 DEF PointsLate

(* The synchronization stays in its part of the transaction, or is idle.   *)
StaysIn(stages) == At(stages)' => At(stages)
LEMMA AccountStay ==
  ASSUME AccountInv, UNCHANGED <<loss, dropped, journal>>,
         Pending' \subseteq Pending, checkpoint'.ids = checkpoint.ids,
         \/ pc'[Sync] = "idle"
         \/ /\ sync'.seen = sync.seen /\ sync'.state = sync.state
            /\ StaysIn({"loaded"}) /\ StaysIn({"prepare"})
            /\ StaysIn({"loaded", "check"}) /\ StaysIn(LateStages)
            /\ StaysIn({"unlink"})
  PROVE  AccountInv'
<1>1. \A state, e : Held(state, e) <=> Held(state, e)'
  BY DEF Held, Has
<1>2. sync'.seen = sync.seen /\ sync'.state = sync.state => (Sound => Sound')
  BY DEF Sound, Held, Has
<1>3. \A e \in checkpoint.ids : Held(loss, e) => Held(loss, e)'
  BY DEF Held, Has
<1> HIDE DEF Held, Sound
<1>4. CASE pc'[Sync] = "idle"
  BY <1>1, <1>3, <1>4 DEF AccountInv, LateStages
<1>5. CASE /\ sync'.seen = sync.seen /\ sync'.state = sync.state
           /\ StaysIn({"loaded"}) /\ StaysIn({"prepare"})
           /\ StaysIn({"loaded", "check"}) /\ StaysIn(LateStages)
           /\ StaysIn({"unlink"})
  BY <1>1, <1>2, <1>3, <1>5 DEF AccountInv, LateStages, StaysIn
<1> QED BY <1>4, <1>5

(* A replaced loss state loses only what counts as dropped.                *)
LEMMA AccountReplace ==
  ASSUME TypeOK, SavesInv, AccountInv, Replaceable, Replaces,
         UNCHANGED <<journal, intent, sync, checkpoint>>,
         \/ pc'[Sync] = pc[Sync]
         \/ /\ pc[Sync] = "stateTemp"
            /\ pc'[Sync] \in {"point", "verify", "failed"}
  PROVE  AccountInv'
<1>1. PICK temp \in lossTemp : /\ loss' = temp.state
                               /\ dropped' = dropped \cup Lost(temp)
  BY DEF Replaces
<1>2. \A state, e : Held(state, e) => Held(state, e)'
  BY <1>1 DEF Held, Has
<1>3. Sound => Sound'
  BY <1>1 DEF Sound, Held, Has
<1>4. Pending' \subseteq Pending
  BY DEF Pending
<1>5. CASE temp.by = Runtime
  <2>1. temp.state = runtime
    BY <1>5 DEF SavesInv, LiveTemp
  <2>2. \A p \in journal : loss' # p.new
    BY <1>1, <2>1 DEF SavesInv, Pending, Novel, Has
  <2>3. \A e \in checkpoint.ids : Held(loss, e) => Held(loss, e)'
    BY <1>1, <1>5 DEF Held, Has, Lost, TypeOK, PointType
  <2> QED BY <1>2, <1>3, <1>4, <2>2, <2>3 DEF AccountInv, LateStages
<1>6. CASE temp.by # Runtime
  <2>1. pc[Sync] \in {"stateTemp", "failed"} /\ journal # {}
    BY <1>6 DEF SavesInv, LiveTemp
  <2> QED BY <1>2, <1>3, <1>4, <2>1 DEF AccountInv, LateStages
<1> QED BY <1>5, <1>6

-----------------------------------------------------------------------------
(* The steps, each keeping all four.                                       *)

AccInv == ProcessInv /\ SavesInv /\ PointsLate /\ AccountInv

(* A synchronization that fails forgets what it read. *)
LEMMA AbandonAccounts ==
  ASSUME TypeOK, AccInv, Abandon, UNCHANGED <<loss, runtime, dropped, journal>>,
         checkpoint'.ids = checkpoint.ids,
         \/ lossTemp' = {}
         \/ lossTemp' = lossTemp /\ pc[Sync] \notin {"stateTemp", "failed"}
  PROVE  AccInv'
<1>1. /\ pc'[Sync] = "idle" /\ pc'[Runtime] = pc[Runtime]
      /\ sync' = Unread /\ app' \in {app, "down"}
      /\ app' # app => app = "composing"
  BY DEF TypeOK, Abandon
<1>2. ProcessInv'
  BY <1>1 DEF AccInv, ProcessInv, Unread
<1>3. Pending' \subseteq Pending
  BY <1>1 DEF Pending
<1>4. SavesInv'
  BY <1>1, <1>3, SavesStay DEF AccInv, Replaceable
<1>5. PointsLate'
  BY <1>1, PointsLateStay DEF AccInv
<1>6. AccountInv'
  BY <1>1, <1>3, AccountStay DEF AccInv
<1> QED BY <1>2, <1>4, <1>5, <1>6 DEF AccInv

(* A step that changes at most where the writers are.                      *)
LEMMA MoveAccounts ==
  ASSUME TypeOK, AccInv,
         UNCHANGED <<loss, lossTemp, runtime, dropped, journal, checkpoint,
                     intent, app, sync>>,
         pc'[Runtime] = pc[Runtime],
         pc'[Sync] = pc[Sync]
           \/ pc'[Sync] \notin {"journal", "stateTemp", "loaded", "prepare",
                               "point", "check", "unlink"},
         At({"pointTemp"})' => At({"point", "pointTemp"}),
         StaysIn(LateStages),
         pc'[Sync] = pc[Sync] \/ pc[Sync] \notin {"idle", "stateTemp", "failed"}
  PROVE  AccInv'
<1>1. ProcessInv'
  BY DEF AccInv, ProcessInv
<1>2. Pending' \subseteq Pending
  BY DEF Pending
<1>3. SavesInv'
  BY <1>2, SavesStay DEF AccInv, Replaceable
<1>4. PointsLate'
  BY PointsLateStay DEF AccInv
<1>5. AccountInv'
  BY <1>2, AccountStay DEF AccInv, StaysIn
<1> QED BY <1>1, <1>3, <1>4, <1>5 DEF AccInv

(* What a synchronization reads is accounted for, or will be. *)
LEMMA SynchronizeAccounts ==
  ASSUME TypeOK, CommitInv, AccInv, Synchronize
  PROVE  AccInv'
<1>1. CASE StartSync
  <2>1. /\ app = "up" /\ app' = app /\ pc[Sync] = "idle"
        /\ pc'[Sync] = "loaded" /\ pc'[Runtime] = pc[Runtime]
        /\ UNCHANGED <<loss, lossTemp, runtime, dropped, journal, checkpoint,
                       intent>>
        /\ sync'.state = loss /\ sync'.seen = checkpoint
        /\ sync'.again = FALSE
    BY <1>1 DEF TypeOK, StartSync, Unread
  <2>2. ProcessInv'
    BY <2>1 DEF AccInv, ProcessInv
  <2>3. Pending' \subseteq Pending
    BY <2>1 DEF Pending
  <2>4. SavesInv' /\ PointsLate'
    BY <2>1, <2>3, SavesStay, PointsLateStay DEF AccInv, Replaceable
  <2>5. AccountInv'
    <3>1. \A state, e : Held(state, e) => Held(state, e)'
      BY <2>1 DEF Held, Has
    <3>2. \A e : Held(loss, e) => Held(sync.state, e)'
      BY <2>1 DEF Held, Has
    <3>3. journal = {} => Sound'
      BY <2>1, <3>2 DEF AccInv, AccountInv, Sound
    <3> QED BY <2>1, <2>3, <3>1, <3>3 DEF AccInv, AccountInv, LateStages
  <2> QED BY <2>2, <2>4, <2>5 DEF AccInv
<1>2. CASE ReadLedger
  <2>1. /\ UNCHANGED <<loss, lossTemp, runtime, dropped, journal, checkpoint,
                       intent, app>>
        /\ sync'.state = sync.state /\ sync'.seen = sync.seen
        /\ sync' = [sync EXCEPT !.events = sync'.events, !.again = sync'.again]
        /\ sync'.again => sync'.events # {}
        /\ pc[Sync] = "loaded" /\ pc'[Runtime] = pc[Runtime]
        /\ \/ pc'[Sync] = "fresh" \/ pc'[Sync] = "check"
           \/ pc'[Sync] = "prepare" /\ sync'.events # {} /\ journal = {}
    BY <1>2 DEF TypeOK, ReadLedger
  <2>2. ProcessInv'
    <3>1. app # "down"
      BY <2>1 DEF AccInv, ProcessInv
    <3> QED BY <2>1, <3>1 DEF AccInv, ProcessInv
  <2>3. Pending' \subseteq Pending
    BY <2>1 DEF Pending
  <2>4. SavesInv' /\ PointsLate'
    BY <2>1, <2>3, SavesStay, PointsLateStay DEF AccInv, Replaceable
  <2>5. AccountInv'
    <3>1. \A state, e : Held(state, e) <=> Held(state, e)'
      BY <2>1 DEF Held, Has
    <3>2. \A e : Held(loss, e) => Held(loss, e)'
      BY <2>1 DEF Held, Has
    <3>3. Sound => Sound'
      BY <2>1 DEF Sound, Held, Has
    <3> HIDE DEF Held, Sound
    <3> QED BY <2>1, <2>3, <3>1, <3>2, <3>3 DEF AccInv, AccountInv, LateStages
  <2> QED BY <2>2, <2>4, <2>5 DEF AccInv
<1>3. CASE ReadFails
  BY <1>3, AbandonAccounts DEF ReadFails
<1> QED BY <1>1, <1>2, <1>3 DEF Synchronize

(* The transaction's own steps. *)
LEMMA PrepareAccounts ==
  ASSUME TypeOK, CommitInv, AccInv, Prepare PROVE AccInv'
<1>1. /\ UNCHANGED <<loss, lossTemp, runtime, dropped, journal, checkpoint,
                     app, sync>>
      /\ journal = {} /\ pc[Sync] = "prepare" /\ pc'[Sync] = "journal"
      /\ pc'[Runtime] = pc[Runtime] /\ Validates(checkpoint)
      /\ intent' = {[old |-> loss, new |-> Built,
                     oldPoint |-> checkpoint, newPoint |-> Advanced]}
  BY DEF TypeOK, Prepare
<1>2. sync.seen.ids = checkpoint.ids
  BY <1>1, SameRevision DEF TypeOK, CommitInv, Validates
<1>3. /\ Advanced.ids = checkpoint.ids \cup sync.events
      /\ sync.events # {} /\ sync.events \cap checkpoint.ids = {}
      /\ sync.events \subseteq Transfers
  BY <1>1, <1>2, BuiltTyped DEF AccInv, ProcessInv, Validates, TypeOK
<1>4. \A e \in Transfers :
        /\ e \in sync.events => Has(Built, e)
        /\ Has(sync.state, e) => Has(Built, e)
  <2> SUFFICES ASSUME NEW e \in Transfers
               PROVE  /\ e \in sync.events => Has(Built, e)
                      /\ Has(sync.state, e) => Has(Built, e)
    OBVIOUS
  <2>1. sync.state.flows[e] \in Nat
    BY HasCount DEF TypeOK
  <2>2. Built.flows[e] =
          sync.state.flows[e] + IF e \in sync.events THEN 1 ELSE 0
    BY BuiltTyped
  <2> QED BY <2>1, <2>2 DEF Has
<1>5. ProcessInv'
  BY <1>1 DEF AccInv, ProcessInv
<1>6. SavesInv'
  <2>1. ASSUME NEW p \in Pending' PROVE Earlier(p.old)' /\ Novel(p)'
    <3>1. p.old = loss /\ p.new = Built /\ p.newPoint = Advanced
      BY <1>1, <2>1 DEF Pending
    <3>2. Earlier(p.old)'
      BY <1>1, <3>1 DEF AccInv, SavesInv, Earlier, Replaceable, RuntimeTemp
    <3>3. PICK e \in sync.events : e \notin checkpoint.ids
      BY <1>3
    <3>4. ~Has(runtime, e) /\ ~Has(loss, e)
      BY <1>1, <1>3, <3>3 DEF CommitInv, Covered, Known
    <3>5. Novel(p)'
      BY <1>1, <1>3, <1>4, <3>1, <3>3, <3>4 DEF Novel, Has
    <3> QED BY <3>2, <3>5
  <2>2. Earlier(loss)'
    BY <1>1 DEF AccInv, SavesInv, Earlier, Replaceable, RuntimeTemp
  <2>3. Replaceable' => \A temp \in lossTemp' : LiveTemp(temp)'
    BY <1>1 DEF AccInv, SavesInv, Replaceable, LiveTemp
  <2> QED BY <2>1, <2>2, <2>3 DEF SavesInv
<1>7. PointsLate'
  BY <1>1, <1>3 DEF PointsLate
<1>8. AccountInv'
  <2>1. Sound
    BY <1>1, <1>2 DEF AccInv, AccountInv
  <2>2. \A p \in Pending' : \A e \in p.newPoint.ids : Held(p.new, e)'
    <3> SUFFICES ASSUME NEW p \in Pending', NEW e \in p.newPoint.ids
                 PROVE  Held(p.new, e)'
      OBVIOUS
    <3>1. p.new = Built /\ p.newPoint = Advanced
      BY <1>1 DEF Pending
    <3>2. e \in Transfers
      BY <1>3, <3>1 DEF TypeOK, PointType
    <3>3. Has(Built, e) \/ e \in dropped
      BY <1>2, <1>3, <1>4, <2>1, <3>1, <3>2 DEF Sound, Held
    <3>4. Has(p.new, e) \/ e \in dropped'
      BY <1>1, <3>1, <3>3
    <3> QED BY <3>4 DEF Held, Has
  <2>3. \A e : Held(loss, e) => Held(loss, e)'
    BY <1>1 DEF Held, Has
  <2> QED BY <1>1, <2>2, <2>3 DEF AccInv, AccountInv, LateStages
<1> QED BY <1>5, <1>6, <1>7, <1>8 DEF AccInv

(* The transaction is pending from here on. *)
LEMMA WriteJournalAccounts ==
  ASSUME TypeOK, CommitInv, AccInv, NEW failed \in BOOLEAN,
         WriteJournal(failed)
  PROVE  AccInv'
<1>1. /\ UNCHANGED <<loss, lossTemp, runtime, dropped, checkpoint>>
      /\ journal' = intent /\ pc[Sync] = "journal"
      /\ pc'[Sync] \in {"check", "idle"} /\ pc'[Runtime] = pc[Runtime]
      /\ \/ sync' = Unread /\ pc'[Sync] = "idle"
            /\ app' = IF app = "composing" THEN "down" ELSE app
         \/ sync' = sync /\ app' = app /\ pc'[Sync] = "check"
  BY DEF TypeOK, WriteJournal, Abandon
<1>2. Pending' = intent /\ intent \subseteq Pending /\ journal = {}
  BY <1>1 DEF Pending, CommitInv
<1>3. ProcessInv'
  BY <1>1 DEF AccInv, ProcessInv, Unread
<1>4. SavesInv'
  BY <1>1, <1>2, SavesStay DEF AccInv, Replaceable
<1>5. \A p \in intent : ~(p.newPoint.ids \subseteq checkpoint.ids)
  BY <1>1 DEF AccInv, PointsLate
<1>6. PointsLate'
  BY <1>1, <1>5 DEF PointsLate
<1>7. AccountInv'
  <2>1. \A p \in journal' : sync.seen.ids # p.newPoint.ids
    BY <1>1, <1>5 DEF CommitInv
  <2>2. \A e, state : Held(state, e) => Held(state, e)'
    BY <1>1 DEF Held, Has
  <2>3. \A e \in checkpoint.ids : Held(loss, e)'
    BY <1>1, <1>2 DEF AccInv, AccountInv, Held, Has
  <2> QED BY <1>1, <1>2, <2>1, <2>2, <2>3 DEF AccInv, AccountInv, LateStages
<1> QED BY <1>3, <1>4, <1>6, <1>7 DEF AccInv

(* A resumed transaction whose checkpoint is written is complete but for   *)
(* its journal.                                                            *)
LEMMA CheckAccounts ==
  ASSUME TypeOK, CommitInv, AccInv, Check PROVE AccInv'
<1>1. PICK p \in journal :
        /\ Resumable(p)
        /\ pc' = [pc EXCEPT ![Sync] = IF loss # p.new THEN "state"
                                      ELSE IF checkpoint # p.newPoint
                                      THEN "point" ELSE "verify"]
  BY DEF Check
<1>2. /\ UNCHANGED <<loss, lossTemp, runtime, dropped, journal, checkpoint,
                     app, sync, intent>>
      /\ journal = {p} /\ pc[Sync] = "check"
      /\ pc'[Sync] \in {"state", "point", "verify"}
      /\ pc'[Runtime] = pc[Runtime]
  BY <1>1 DEF TypeOK, Check
<1>3. Forward(p) /\ Novel(p)
  BY DEF CommitInv, AccInv, SavesInv, Pending
<1>4. p.new # p.old
  BY <1>3 DEF Novel
<1>5. ProcessInv'
  BY <1>2 DEF AccInv, ProcessInv
<1>6. Pending' \subseteq Pending
  BY <1>2 DEF Pending
<1>7. SavesInv'
  BY <1>2, <1>6, SavesStay DEF AccInv, Replaceable
<1>8. PointsLate'
  BY <1>1, <1>2, <1>4 DEF TypeOK, AccInv, PointsLate
<1>9. AccountInv'
  <2>1. ASSUME sync.seen.ids = p.newPoint.ids PROVE Sound
    <3>1. p.newPoint.ids \subseteq checkpoint.ids
      BY <2>1 DEF CommitInv
    <3>2. loss = p.new
      BY <1>1, <3>1 DEF AccInv, PointsLate, Resumable
    <3>3. sync.state = p.new
      BY <1>2, <2>1, <3>2 DEF AccInv, AccountInv
    <3> QED BY <2>1, <3>3 DEF AccInv, AccountInv, Pending, Sound
  <2>2. \A e, state : Held(state, e) => Held(state, e)'
    BY <1>2 DEF Held, Has
  <2>3. Sound => Sound'
    BY <1>2 DEF Sound, Held, Has
  <2> QED BY <1>2, <1>6, <2>1, <2>2, <2>3 DEF AccInv, AccountInv
<1> QED BY <1>5, <1>7, <1>8, <1>9 DEF AccInv

(* The transaction's state goes to the temporary file. *)
LEMMA SaveStateAccounts ==
  ASSUME TypeOK, AccInv, SaveState PROVE AccInv'
<1>1. /\ UNCHANGED <<loss, runtime, dropped, journal, checkpoint, app, sync,
                     intent>>
      /\ pc[Sync] = "state" /\ pc'[Sync] = "stateTemp"
      /\ pc'[Runtime] = pc[Runtime]
  BY DEF TypeOK, SaveState
<1>2. PICK p \in journal : lossTemp' = {Temp(Sync, p.new)}
  BY DEF SaveState
<1>3. ProcessInv'
  BY <1>1 DEF AccInv, ProcessInv
<1>4. Pending' \subseteq Pending
  BY <1>1 DEF Pending
<1>5. SavesInv'
  <2>1. ~RuntimeTemp' /\ \A temp \in lossTemp' : LiveTemp(temp)'
    BY <1>1, <1>2 DEF RuntimeTemp, LiveTemp, Temp
  <2> QED BY <1>1, <1>4, <2>1 DEF AccInv, SavesInv, Earlier, Novel, Has
<1>6. PointsLate'
  BY <1>1, PointsLateStay DEF AccInv
<1>7. AccountInv'
  BY <1>1, <1>4, AccountStay DEF AccInv, StaysIn, LateStages
<1> QED BY <1>3, <1>5, <1>6, <1>7 DEF AccInv

(* A save that replaces the loss state, of either writer. *)
LEMMA ReplaceAccounts ==
  ASSUME TypeOK, AccInv, Replaces,
         UNCHANGED <<runtime, journal, checkpoint, app, sync, intent>>,
         \/ /\ pc[Runtime] = "stateTemp" /\ pc'[Runtime] = "cleanup"
            /\ pc'[Sync] = pc[Sync]
         \/ /\ pc[Sync] = "stateTemp"
            /\ pc'[Sync] \in {"point", "verify", "failed"}
            /\ pc'[Runtime] = pc[Runtime]
  PROVE  AccInv'
<1>1. Replaceable
  BY DEF Replaceable
<1>2. ProcessInv'
  BY DEF AccInv, ProcessInv
<1>3. Pending' \subseteq Pending
  BY DEF Pending
<1>4. SavesInv'
  BY <1>1, <1>3, SavesReplace DEF AccInv
<1>5. PointsLate'
  BY <1>1, PointsLateReplace DEF AccInv
<1>6. AccountInv'
  BY <1>1, AccountReplace DEF AccInv
<1> QED BY <1>2, <1>4, <1>5, <1>6 DEF AccInv

(* The checkpoint becomes the transaction's. *)
LEMMA ReplacePointAccounts ==
  ASSUME TypeOK, CommitInv, AccInv, NEW failed \in BOOLEAN,
         ReplacePoint(failed)
  PROVE  AccInv'
<1>1. PICK p \in journal : checkpoint' = p.newPoint
  BY DEF ReplacePoint
<1>2. /\ UNCHANGED <<loss, lossTemp, runtime, dropped, journal>>
      /\ pc[Sync] = "pointTemp" /\ pc'[Sync] \in {"verify", "idle"}
      /\ pc'[Runtime] = pc[Runtime] /\ journal = {p}
      /\ \/ /\ sync' = Unread /\ pc'[Sync] = "idle"
            /\ app' = IF app = "composing" THEN "down" ELSE app
         \/ sync' = sync /\ app' = app /\ pc'[Sync] = "verify"
  BY <1>1 DEF TypeOK, ReplacePoint, Abandon
<1>3. ProcessInv'
  BY <1>2 DEF AccInv, ProcessInv, Unread
<1>4. Pending' \subseteq Pending
  BY <1>2 DEF Pending
<1>5. SavesInv'
  BY <1>2, <1>4, SavesStay DEF AccInv, Replaceable
<1>6. PointsLate'
  BY <1>2 DEF AccInv, PointsLate
<1>7. AccountInv'
  <2>1. \A e, state : Held(state, e) => Held(state, e)'
    BY <1>2 DEF Held, Has
  <2>2. sync' = sync => (Sound => Sound')
    BY <1>2 DEF Sound, Held, Has
  <2> QED BY <1>2, <1>4, <2>1, <2>2 DEF AccInv, AccountInv, LateStages
<1> QED BY <1>3, <1>5, <1>6, <1>7 DEF AccInv

(* Both files are the transaction's: all it processes is accounted for. *)
LEMMA VerifyAccounts ==
  ASSUME TypeOK, AccInv, Verify PROVE AccInv'
<1>1. /\ UNCHANGED <<loss, lossTemp, runtime, dropped, journal, checkpoint,
                     app, sync, intent>>
      /\ pc[Sync] = "verify" /\ pc'[Sync] = "unlink"
      /\ pc'[Runtime] = pc[Runtime]
      /\ \E p \in journal : Complete(p)
  BY DEF TypeOK, Verify
<1>2. ProcessInv'
  BY <1>1 DEF AccInv, ProcessInv
<1>3. Pending' \subseteq Pending
  BY <1>1 DEF Pending
<1>4. SavesInv' /\ PointsLate'
  BY <1>1, <1>3, SavesStay, PointsLateStay DEF AccInv, Replaceable
<1>5. AccountInv'
  <2>1. \A e \in checkpoint.ids : Held(loss, e)
    BY <1>1 DEF Complete, AccInv, AccountInv, Pending
  <2>2. \A e \in checkpoint.ids : Held(loss, e)'
    BY <1>1, <2>1 DEF Held, Has
  <2>3. \A e, state : Held(state, e) => Held(state, e)'
    BY <1>1 DEF Held, Has
  <2>4. Sound => Sound'
    BY <1>1 DEF Sound, Held, Has
  <2> QED BY <1>1, <1>3, <2>2, <2>3, <2>4 DEF AccInv, AccountInv, LateStages
<1> QED BY <1>2, <1>4, <1>5 DEF AccInv

(* What goes on after a recovery is sound, or its revision check fails. *)
LEMMA UnlinkAccounts ==
  ASSUME TypeOK, CommitInv, AccInv, NEW failed \in BOOLEAN, Unlink(failed)
  PROVE  AccInv'
<1>1. /\ UNCHANGED <<loss, lossTemp, runtime, dropped, checkpoint>>
      /\ journal' \in {{}, journal}
      /\ pc[Sync] = "unlink" /\ pc'[Runtime] = pc[Runtime]
      /\ \/ /\ sync' = Unread /\ pc'[Sync] = "idle"
            /\ app' \in {app, IF app = "composing" THEN "down" ELSE app}
         \/ /\ sync.again /\ pc'[Sync] = "prepare" /\ app' = app
            /\ sync'.events = sync.events /\ sync'.again = FALSE
            /\ sync'.seen = sync.seen /\ sync'.state = sync.state
            /\ journal' = {}
  BY DEF TypeOK, Unlink, Abandon
<1>2. ProcessInv'
  BY <1>1 DEF AccInv, ProcessInv, Unread
<1>3. Pending' \subseteq Pending
  BY <1>1 DEF Pending
<1>4. SavesInv' /\ PointsLate'
  BY <1>1, <1>3, SavesStay, PointsLateStay DEF AccInv, Replaceable
<1>5. AccountInv'
  <2>1. \A e \in checkpoint.ids : Held(loss, e)
    BY <1>1 DEF AccInv, AccountInv
  <2>2. \A e \in checkpoint.ids : Held(loss, e)'
    BY <1>1, <2>1 DEF Held, Has
  <2>3. \A e, state : Held(state, e) => Held(state, e)'
    BY <1>1 DEF Held, Has
  <2>4. ASSUME sync.seen.ids = checkpoint.ids PROVE Sound
    BY <1>1, <2>4 DEF CommitInv, AccInv, AccountInv, LateStages
  <2>5. sync'.seen = sync.seen /\ sync'.state = sync.state
          => (Sound => Sound')
    BY <1>1 DEF Sound, Held, Has
  <2>6. pc'[Sync] = "prepare" /\ sync'.seen.ids = checkpoint'.ids => Sound'
    BY <1>1, <2>4, <2>5
  <2> QED BY <1>1, <1>3, <2>2, <2>3, <2>6 DEF AccInv, AccountInv, LateStages
<1> QED BY <1>2, <1>4, <1>5 DEF AccInv

(* The whole transaction. *)
LEMMA CommitAccounts ==
  ASSUME TypeOK, CommitInv, AccInv, Commit PROVE AccInv'
<1>1. CASE Prepare
  BY <1>1, PrepareAccounts
<1>2. CASE PrepareRefused \/ CheckFails \/ VerifyFails \/ SavePointRefused
           \/ ReplacePointFails
  BY <1>2, AbandonAccounts
     DEF PrepareRefused, CheckFails, VerifyFails, SavePointRefused,
         ReplacePointFails
<1>3. CASE JournalFails
  BY <1>3, AbandonAccounts DEF JournalFails
<1>4. ASSUME NEW failed \in BOOLEAN, WriteJournal(failed) PROVE AccInv'
  BY <1>4, WriteJournalAccounts
<1>5. CASE Check
  BY <1>5, CheckAccounts
<1>6. CASE SaveState
  BY <1>6, SaveStateAccounts
<1>7. CASE SaveStateRefused \/ SavePoint
  <2>1. /\ UNCHANGED <<loss, lossTemp, runtime, dropped, journal, checkpoint,
                       intent, app, sync>>
        /\ pc'[Runtime] = pc[Runtime]
        /\ \/ pc[Sync] = "state" /\ pc'[Sync] = "failed"
           \/ pc[Sync] = "point" /\ pc'[Sync] = "pointTemp"
           \/ pc[Sync] = "fresh" /\ pc'[Sync] = "freshTemp"
    BY <1>7 DEF TypeOK, SaveStateRefused, SavePoint
  <2> QED BY <2>1, MoveAccounts DEF StaysIn, LateStages
<1>8. CASE ReplaceState
  <2>1. pc'[Runtime] = pc[Runtime] /\ pc'[Sync] \in {"point", "verify"}
    BY <1>8 DEF TypeOK, ReplaceState
  <2> QED BY <1>8, <2>1, ReplaceAccounts DEF ReplaceState
<1>9. CASE ReplaceStateFails
  <2>1. /\ pc[Sync] = "stateTemp" /\ pc'[Sync] = "failed"
        /\ pc'[Runtime] = pc[Runtime]
        /\ UNCHANGED <<runtime, journal, checkpoint, app, sync, intent>>
    BY <1>9 DEF TypeOK, ReplaceStateFails
  <2>2. CASE Replaces
    BY <2>1, <2>2, ReplaceAccounts
  <2>3. CASE UNCHANGED <<loss, lossTemp, dropped>>
    <3>1. ProcessInv'
      BY <2>1 DEF AccInv, ProcessInv
    <3>2. Pending' \subseteq Pending
      BY <2>1 DEF Pending
    <3>3. SavesInv' /\ PointsLate' /\ AccountInv'
      BY <2>1, <2>3, <3>2, SavesStay, PointsLateStay, AccountStay
         DEF AccInv, Replaceable, StaysIn, LateStages
    <3> QED BY <3>1, <3>3 DEF AccInv
  <2> QED BY <1>9, <2>2, <2>3 DEF ReplaceStateFails
<1>10. CASE SaveStateFailed
  BY <1>10, AbandonAccounts DEF SaveStateFailed
<1>11. ASSUME NEW failed \in BOOLEAN, ReplacePoint(failed) PROVE AccInv'
  BY <1>11, ReplacePointAccounts
<1>12. CASE ReplaceFresh
  <2>1. checkpoint'.ids = checkpoint.ids
    BY <1>12 DEF ReplaceFresh, CommitInv, Processed
  <2> QED BY <1>12, <2>1, AbandonAccounts DEF ReplaceFresh
<1>13. CASE Verify
  BY <1>13, VerifyAccounts
<1>14. ASSUME NEW failed \in BOOLEAN, Unlink(failed) PROVE AccInv'
  BY <1>14, UnlinkAccounts
<1> QED
  BY <1>1, <1>2, <1>3, <1>4, <1>5, <1>6, <1>7, <1>8, <1>9, <1>10, <1>11,
     <1>12, <1>13, <1>14 DEF Commit

(* The runtime's saves are of ever later times. *)
LEMMA SaveAccounts ==
  ASSUME TypeOK, AccInv, Save PROVE AccInv'
<1>1. ASSUME NEW at \in 1..MaxClock, SaveRuntime(at) PROVE AccInv'
  <2>1. /\ UNCHANGED <<loss, dropped, journal, checkpoint, app, sync, intent>>
        /\ app = "up" /\ pc[Runtime] = "idle" /\ pc'[Sync] = pc[Sync]
        /\ runtime'.flows = runtime.flows /\ runtime'.at = at
        /\ at \in Nat /\ runtime.at \in Nat /\ runtime.at < at
        /\ \/ /\ lossTemp = {} /\ lossTemp' = {Temp(Runtime, runtime')}
              /\ pc'[Runtime] = "stateTemp"
           \/ lossTemp # {} /\ lossTemp' = lossTemp /\ pc'[Runtime] = "cleanup"
    BY <1>1 DEF TypeOK, StateType, SaveRuntime, State
  <2>2. ProcessInv'
    BY <2>1 DEF AccInv, ProcessInv
  <2>3. Pending' \subseteq Pending
    BY <2>1 DEF Pending
  <2>4. ASSUME NEW state, Earlier(state), state.at \in Nat
        PROVE  state.flows = runtime'.flows => state.at < runtime'.at
    BY <2>1, <2>4 DEF Earlier
  <2>5. ASSUME NEW temp \in lossTemp', Replaceable' PROVE LiveTemp(temp)'
    <3>1. CASE lossTemp = {}
      BY <2>1, <2>5, <3>1 DEF LiveTemp, Temp
    <3>2. CASE lossTemp # {}
      BY <2>1, <2>5, <3>2 DEF AccInv, SavesInv, Replaceable, LiveTemp
    <3> QED BY <3>1, <3>2
  <2>6. ASSUME NEW p \in Pending' PROVE Earlier(p.old)' /\ Novel(p)'
    <3>1. p.old.at \in Nat
      BY <2>3 DEF TypeOK, Pending, IntentType, StateType
    <3>2. Earlier(p.old) /\ Novel(p)
      BY <2>3 DEF AccInv, SavesInv
    <3>3. p.old.flows = runtime'.flows => p.old.at < runtime'.at
      BY <2>4, <3>1, <3>2
    <3> QED BY <2>1, <3>1, <3>2, <3>3 DEF Earlier, Novel, Has
  <2>7. Earlier(loss)'
    <3>1. loss.flows = runtime'.flows => loss.at < runtime'.at
      BY <2>4 DEF AccInv, SavesInv, TypeOK, StateType
    <3> QED BY <2>1, <3>1 DEF Earlier, TypeOK, StateType
  <2>8. PointsLate' /\ AccountInv'
    BY <2>1, <2>3, PointsLateStay, AccountStay DEF AccInv, StaysIn
  <2> QED BY <2>2, <2>5, <2>6, <2>7, <2>8 DEF AccInv, SavesInv
<1>2. CASE ReplaceRuntime
  <2>1. /\ pc[Runtime] = "stateTemp" /\ pc'[Runtime] = "cleanup"
        /\ pc'[Sync] = pc[Sync]
        /\ UNCHANGED <<runtime, journal, checkpoint, app, sync, intent>>
    BY <1>2 DEF TypeOK, ReplaceRuntime
  <2>2. CASE Replaces
    BY <2>1, <2>2, ReplaceAccounts
  <2>3. CASE UNCHANGED <<loss, lossTemp, dropped>>
    <3>1. ProcessInv'
      BY <2>1 DEF AccInv, ProcessInv
    <3>2. Pending' \subseteq Pending
      BY <2>1 DEF Pending
    <3>3. SavesInv' /\ PointsLate' /\ AccountInv'
      BY <2>1, <2>3, <3>2, SavesStay, PointsLateStay, AccountStay
         DEF AccInv, Replaceable, StaysIn
    <3> QED BY <3>1, <3>3 DEF AccInv
  <2> QED BY <1>2, <2>2, <2>3 DEF ReplaceRuntime
<1>3. CASE CleanupRuntime
  <2>1. /\ pc[Runtime] = "cleanup" /\ pc'[Runtime] = "idle"
        /\ pc'[Sync] = pc[Sync] /\ lossTemp' = {}
        /\ UNCHANGED <<loss, dropped, runtime, journal, checkpoint, app, sync,
                       intent>>
    BY <1>3 DEF TypeOK, CleanupRuntime
  <2>2. ProcessInv'
    BY <2>1 DEF AccInv, ProcessInv
  <2>3. Pending' \subseteq Pending
    BY <2>1 DEF Pending
  <2>4. SavesInv' /\ PointsLate' /\ AccountInv'
    BY <2>1, <2>3, SavesStay, PointsLateStay, AccountStay
       DEF AccInv, Replaceable, StaysIn
  <2> QED BY <2>2, <2>4 DEF AccInv
<1> QED BY <1>1, <1>2, <1>3 DEF Save

(* Every step, a crash and a restart among them. *)
LEMMA NextAccounts ==
  TypeOK /\ CommitInv /\ AccInv /\ [Next]_vars => AccInv'
<1> SUFFICES ASSUME TypeOK, CommitInv, AccInv, [Next]_vars PROVE AccInv'
  OBVIOUS
<1>1. CASE Synchronize \/ Commit \/ Save
  BY <1>1, SynchronizeAccounts, CommitAccounts, SaveAccounts
<1>2. CASE Compose
  <2>1. /\ UNCHANGED <<loss, lossTemp, runtime, dropped, journal, checkpoint,
                       intent, sync>>
        /\ pc'[Runtime] = pc[Runtime] /\ app' = "composing" /\ app = "down"
        /\ \/ pc'[Sync] = "idle"
           \/ pc'[Sync] = "check"
    BY <1>2 DEF TypeOK, Compose
  <2>2. sync = Unread /\ pc[Sync] = "idle" /\ pc[Runtime] = "idle"
    BY <2>1 DEF AccInv, ProcessInv
  <2>3. ProcessInv'
    BY <2>1, <2>2 DEF AccInv, ProcessInv, Unread
  <2>4. Pending' \subseteq Pending
    BY <2>1 DEF Pending
  <2>5. SavesInv' /\ PointsLate'
    BY <2>1, <2>2, <2>4, SavesStay, PointsLateStay DEF AccInv, Replaceable
  <2>6. \A p \in journal : sync.seen.ids # p.newPoint.ids
    BY <2>2, UnreadCounts DEF AccInv, SavesInv, Pending, Novel
  <2>7. \A e, state : Held(state, e) => Held(state, e)'
    BY <2>1 DEF Held, Has
  <2>8. \A e : Held(loss, e) => Held(loss, e)'
    BY <2>1 DEF Held, Has
  <2>9. AccountInv'
    BY <2>1, <2>4, <2>6, <2>7, <2>8 DEF AccInv, AccountInv, LateStages
  <2> QED BY <2>3, <2>5, <2>9 DEF AccInv
<1>3. CASE Load
  <2>1. /\ UNCHANGED <<loss, lossTemp, dropped, journal, checkpoint, intent,
                       sync>>
        /\ runtime' = loss /\ journal = {}
        /\ pc'[Sync] = "idle" /\ pc[Sync] = "idle"
        /\ pc'[Runtime] = pc[Runtime] /\ app = "composing" /\ app' = "up"
    BY <1>3 DEF TypeOK, Load, Loadable
  <2>2. pc[Runtime] = "idle"
    BY <2>1 DEF AccInv, ProcessInv
  <2>3. ProcessInv'
    BY <2>1 DEF AccInv, ProcessInv
  <2>4. Pending' = {} /\ ~Replaceable'
    BY <2>1, <2>2 DEF Pending, Replaceable
  <2>5. SavesInv'
    BY <2>1, <2>4 DEF SavesInv, Earlier, TypeOK, StateType
  <2>6. PointsLate' /\ AccountInv'
    BY <2>1, <2>4, PointsLateStay, AccountStay DEF AccInv
  <2> QED BY <2>3, <2>5, <2>6 DEF AccInv
<1>4. CASE Crash
  <2>1. /\ UNCHANGED <<loss, lossTemp, runtime, dropped, journal, checkpoint>>
        /\ pc'[Sync] = "idle" /\ pc'[Runtime] = "idle"
        /\ sync' = Unread /\ app' = "down"
    BY <1>4 DEF Crash
  <2>2. ProcessInv'
    BY <2>1 DEF ProcessInv, Unread
  <2>3. Pending' \subseteq Pending /\ ~Replaceable'
    BY <2>1 DEF Pending, Replaceable
  <2>4. SavesInv'
    BY <2>1, <2>3 DEF AccInv, SavesInv, Earlier, Novel, Has
  <2>5. PointsLate' /\ AccountInv'
    BY <2>1, <2>3, PointsLateStay, AccountStay DEF AccInv
  <2> QED BY <2>2, <2>4, <2>5 DEF AccInv
<1>5. CASE \/ Tick \/ UNCHANGED vars
           \/ \E e \in Transfers, at \in 1..clock : Transfer(e, at)
  <2>1. UNCHANGED <<loss, lossTemp, runtime, dropped, journal, checkpoint,
                    intent, app, sync, pc>>
    BY <1>5 DEF Tick, vars, Transfer
  <2>2. ProcessInv'
    BY <2>1 DEF AccInv, ProcessInv
  <2>3. Pending' \subseteq Pending
    BY <2>1 DEF Pending
  <2>4. SavesInv' /\ PointsLate' /\ AccountInv'
    BY <2>1, <2>3, SavesStay, PointsLateStay, AccountStay
       DEF AccInv, Replaceable, StaysIn
  <2> QED BY <2>2, <2>4 DEF AccInv
<1> QED BY <1>1, <1>2, <1>3, <1>4, <1>5 DEF Next

LEMMA InitAccounts == Init => AccInv
<1> SUFFICES ASSUME Init PROVE AccInv
  OBVIOUS
<1>1. /\ sync = Unread /\ pc[Sync] = "idle" /\ pc[Runtime] = "idle"
      /\ runtime = loss /\ journal = {} /\ lossTemp = {}
      /\ checkpoint.ids = {} /\ loss.at = 0
  BY DEF Init, State, Processed
<1>2. Unread.again = FALSE
  BY DEF Unread
<1> QED BY <1>1, <1>2
    DEF AccInv, ProcessInv, SavesInv, PointsLate, AccountInv, Pending,
        Earlier, Replaceable, LateStages

THEOREM AccountsInvariant == Spec => [](TypeOK /\ CommitInv /\ AccInv)
BY InitAccounts, NextAccounts, CommitInvariant, PTL DEF Spec

(* A processed transfer is in the loss state, or taken away by a save of   *)
(* the runtime, or of the transaction that is still pending.               *)
THEOREM ProcessedHeld == Spec => []ProcessedAccounted
<1>1. TypeOK /\ CommitInv /\ AccInv => ProcessedAccounted
  <2> SUFFICES ASSUME CommitInv, AccInv, NEW e \in checkpoint.ids
               PROVE  \/ Has(loss, e) \/ e \in dropped
                      \/ \E p \in journal : e \in p.newPoint.ids
    BY DEF ProcessedAccounted
  <2> QED BY DEF CommitInv, Forward, AccInv, AccountInv, Held
<1> QED BY <1>1, AccountsInvariant, PTL

-----------------------------------------------------------------------------
(* The refinement of FlowAccount.                                          *)

(* What a transaction began on is processed, and it processes more.        *)
Adds(p) == ~(p.newPoint.ids \subseteq p.oldPoint.ids)
BeganInv ==
  /\ \A p \in journal : p.oldPoint.ids \subseteq checkpoint.ids /\ Adds(p)
  /\ At({"journal"}) =>
       \A p \in intent : p.oldPoint = checkpoint /\ Adds(p)

(* What a step does to the files and to the two states that the abstract   *)
(* account sees: nothing, or one of the four steps that matter there.      *)
Still ==
  /\ UNCHANGED <<journal, dropped>>
  /\ loss' = loss /\ runtime'.flows = runtime.flows
  /\ journal = {} => checkpoint'.ids = checkpoint.ids
Puts ==
  /\ Replaceable /\ Replaces
  /\ UNCHANGED <<journal, runtime, checkpoint>>
Loads ==
  /\ journal = {} /\ runtime' = loss
  /\ UNCHANGED <<journal, loss, dropped, checkpoint>>
Commences ==
  /\ pc[Sync] = "journal" /\ journal' = intent
  /\ UNCHANGED <<loss, runtime, dropped, checkpoint>>
Ends ==
  /\ pc[Sync] = "unlink" /\ journal' = {}
  /\ UNCHANGED <<loss, runtime, dropped, checkpoint>>

LEMMA CommitEffects ==
  ASSUME TypeOK, CommitInv, Commit
  PROVE  Still \/ Puts \/ Commences \/ Ends
<1> USE DEF Still
<1>1. CASE Prepare \/ PrepareRefused
  BY <1>1 DEF Prepare, PrepareRefused
<1>2. ASSUME NEW failed \in BOOLEAN, WriteJournal(failed) PROVE Commences
  BY <1>2 DEF WriteJournal, Commences
<1>3. CASE JournalFails \/ Check \/ CheckFails \/ SaveState \/ SaveStateRefused
  BY <1>3 DEF JournalFails, Check, CheckFails, SaveState, SaveStateRefused
<1>4. CASE ReplaceState
  BY <1>4 DEF ReplaceState, Puts, Replaceable
<1>5. CASE ReplaceStateFails
  BY <1>5 DEF ReplaceStateFails, Puts, Replaceable
<1>6. CASE SaveStateFailed \/ SavePoint \/ SavePointRefused
  BY <1>6 DEF SaveStateFailed, SavePoint, SavePointRefused
<1>7. ASSUME NEW failed \in BOOLEAN, ReplacePoint(failed) PROVE Still
  BY <1>7 DEF ReplacePoint
<1>8. CASE ReplaceFresh
  BY <1>8 DEF ReplaceFresh, CommitInv, Processed
<1>9. CASE ReplacePointFails \/ Verify \/ VerifyFails
  BY <1>9 DEF ReplacePointFails, Verify, VerifyFails
<1>10. ASSUME NEW failed \in BOOLEAN, Unlink(failed) PROVE Still \/ Ends
  BY <1>10 DEF Unlink, Ends
<1> QED
  BY <1>1, <1>2, <1>3, <1>4, <1>5, <1>6, <1>7, <1>8, <1>9, <1>10 DEF Commit

LEMMA NextEffects ==
  ASSUME TypeOK, CommitInv, [Next]_vars
  PROVE  Still \/ Puts \/ Loads \/ Commences \/ Ends
<1>1. CASE Synchronize
  BY <1>1 DEF Still, Synchronize, StartSync, ReadLedger, ReadFails
<1>2. CASE Commit
  BY <1>2, CommitEffects
<1>3. CASE \E at \in 1..MaxClock : SaveRuntime(at)
  BY <1>3 DEF Still, SaveRuntime, State
<1>4. CASE ReplaceRuntime
  BY <1>4 DEF Still, Puts, ReplaceRuntime, Replaceable
<1>5. CASE CleanupRuntime \/ Compose \/ Crash \/ Tick \/ UNCHANGED vars
  BY <1>5 DEF Still, CleanupRuntime, Compose, Crash, Tick, vars
<1>6. CASE Load
  BY <1>6 DEF Loads, Load, Loadable
<1>7. CASE \E e \in Transfers, at \in 1..clock : Transfer(e, at)
  BY <1>7 DEF Still, Transfer
<1> QED BY <1>1, <1>2, <1>3, <1>4, <1>5, <1>6, <1>7 DEF Next, Save

(* A synchronization is before its journal when it has just prepared it,   *)
(* or nothing happened to it.                                              *)
LEMMA JournalAhead ==
  ASSUME TypeOK, [Next]_vars, At({"journal"})'
  PROVE  \/ Prepare
         \/ At({"journal"}) /\ intent' = intent /\ checkpoint' = checkpoint
<1> USE DEF TypeOK
<1>1. CASE Synchronize
  BY <1>1 DEF Synchronize, StartSync, ReadLedger, ReadFails, Abandon
<1>2. CASE PrepareRefused \/ JournalFails \/ CheckFails \/ SaveStateFailed
           \/ SavePointRefused \/ ReplaceFresh \/ ReplacePointFails
           \/ VerifyFails
  BY <1>2 DEF PrepareRefused, JournalFails, CheckFails, SaveStateFailed,
     SavePointRefused, ReplaceFresh, ReplacePointFails, VerifyFails, Abandon
<1>3. CASE Check \/ SaveState \/ SaveStateRefused \/ ReplaceState
           \/ ReplaceStateFails \/ SavePoint \/ Verify
  BY <1>3 DEF Check, SaveState, SaveStateRefused, ReplaceState,
     ReplaceStateFails, SavePoint, Verify
<1>4. ASSUME NEW failed \in BOOLEAN,
             WriteJournal(failed) \/ ReplacePoint(failed) \/ Unlink(failed)
      PROVE  FALSE
  BY <1>4 DEF WriteJournal, ReplacePoint, Unlink, Abandon
<1>5. CASE Save
  BY <1>5 DEF Save, SaveRuntime, ReplaceRuntime, CleanupRuntime
<1>6. CASE Compose \/ Load \/ Crash
  BY <1>6 DEF Compose, Load, Crash
<1>7. CASE \/ Tick \/ UNCHANGED vars
           \/ \E e \in Transfers, at \in 1..clock : Transfer(e, at)
  BY <1>7 DEF Tick, vars, Transfer
<1> QED BY <1>1, <1>2, <1>3, <1>4, <1>5, <1>6, <1>7 DEF Next, Commit

LEMMA BeganStep ==
  TypeOK /\ CommitInv /\ AccInv /\ BeganInv /\ [Next]_vars => BeganInv'
<1> SUFFICES ASSUME TypeOK, CommitInv, AccInv, BeganInv, [Next]_vars
             PROVE  BeganInv'
  OBVIOUS
<1>1. checkpoint.ids \subseteq checkpoint'.ids
  BY NextGrows DEF Grows, vars
<1>2. ASSUME NEW p \in journal' PROVE p.oldPoint.ids \subseteq checkpoint.ids /\ Adds(p)
  BY <1>2, NextEffects
     DEF BeganInv, Still, Puts, Loads, Commences, Ends
<1>3. CASE Prepare
  <2>1. \A p \in intent' : p.oldPoint = checkpoint /\ p.newPoint = Advanced
    BY <1>3 DEF Prepare
  <2>2. PICK e \in sync.events : e \notin checkpoint.ids
    <3>1. sync.events # {} /\ sync.events \cap checkpoint.ids = {}
      BY <1>3 DEF Prepare, AccInv, ProcessInv, Validates
    <3> QED BY <3>1
  <2>3. e \in Advanced.ids
    BY <2>2 DEF Advanced, Processed
  <2>4. checkpoint' = checkpoint
    BY <1>3 DEF Prepare
  <2> QED BY <1>1, <1>2, <2>1, <2>2, <2>3, <2>4 DEF BeganInv, Adds
<1>4. CASE ~Prepare
  BY <1>1, <1>2, <1>4, JournalAhead DEF BeganInv, Adds
<1> QED BY <1>3, <1>4

-----------------------------------------------------------------------------
(* The stages of the transfers.                                            *)

StageMap == [e \in Transfers |-> Stage(e)]
StageIn(p, e) ==
  IF e \in p.oldPoint.ids THEN "processed"
  ELSE IF e \in p.newPoint.ids THEN "pending" ELSE "open"

(* Without a journal the checkpoint decides, with one its transaction.     *)
LEMMA StagesSettled ==
  ASSUME journal = {}
  PROVE  StageMap = [e \in Transfers |-> IF e \in checkpoint.ids
                                        THEN "processed" ELSE "open"]
BY DEF StageMap, Stage

LEMMA StagesPending ==
  ASSUME TypeOK, CommitInv, BeganInv, NEW p \in journal
  PROVE  StageMap = [e \in Transfers |-> StageIn(p, e)]
<1>1. \A q \in journal : q = p
  BY DEF TypeOK
<1>2. /\ checkpoint.ids \subseteq p.newPoint.ids
      /\ p.oldPoint.ids \subseteq checkpoint.ids
  BY DEF CommitInv, Forward, BeganInv
<1>3. ASSUME NEW e \in Transfers PROVE Stage(e) = StageIn(p, e)
  BY <1>1, <1>2 DEF Stage, StageIn
<1> QED BY <1>3 DEF StageMap

LEMMA PendingTaken ==
  ASSUME TypeOK, CommitInv, BeganInv, NEW p \in journal
  PROVE  /\ Flows!Of("pending") = p.newPoint.ids \ p.oldPoint.ids
         /\ Flows!Of("pending") # {}
         /\ Flows!Taken = p.newPoint.ids
<1>1. \A e \in Transfers : Stage(e) = StageIn(p, e)
  BY StagesPending DEF StageMap
<1>2. p.newPoint.ids \subseteq Transfers
  BY DEF TypeOK, IntentType, PointType
<1>3. /\ p.oldPoint.ids \subseteq p.newPoint.ids
      /\ Adds(p)
  BY DEF CommitInv, Forward, BeganInv
<1> QED
  BY <1>1, <1>2, <1>3 DEF Flows!Of, Flows!Taken, StageIn, Adds

LEMMA NonePending ==
  ASSUME journal = {}
  PROVE  Flows!Of("pending") = {}
BY DEF Flows!Of, Stage

(* The steps.                                                              *)

LEMMA FlowsTyped ==
  TypeOK => /\ loss \in StateType /\ runtime \in StateType
            /\ Flows!In(loss.flows) = {e \in Transfers : Has(loss, e)}
            /\ Flows!In(runtime.flows) = {e \in Transfers : Has(runtime, e)}
BY DEF TypeOK, Flows!In, Has

LEMMA StillFlows ==
  ASSUME TypeOK, TypeOK', CommitInv, CommitInv', BeganInv, BeganInv', Still
  PROVE  UNCHANGED Flows!vars
<1>1. StageMap' = StageMap
  <2>1. CASE journal = {}
    BY <2>1, StagesSettled DEF Still, StageMap, Stage
  <2>2. ASSUME NEW p \in journal PROVE StageMap' = StageMap
    <3>1. StageMap = [e \in Transfers |-> StageIn(p, e)]
      BY <2>2, StagesPending
    <3>2. \A q \in journal' : q = p
      BY <2>2 DEF TypeOK, Still
    <3>3. /\ checkpoint'.ids \subseteq p.newPoint.ids
          /\ p.oldPoint.ids \subseteq checkpoint'.ids
      BY <2>2 DEF CommitInv, Forward, BeganInv, Still
    <3>4. ASSUME NEW e \in Transfers PROVE Stage(e)' = StageIn(p, e)
      BY <2>2, <3>2, <3>3 DEF Stage, StageIn, Still
    <3> QED BY <3>1, <3>4 DEF StageMap
  <2> QED BY <2>1, <2>2
<1> QED BY <1>1 DEF Flows!vars, Still, StageMap

LEMMA PutsFlows ==
  ASSUME TypeOK, TypeOK', CommitInv, AccInv, BeganInv, Puts
  PROVE  Flows!Next
<1>1. StageMap' = StageMap
  BY DEF StageMap, Stage, Puts
<1>2. PICK temp \in lossTemp : /\ loss' = temp.state /\ LiveTemp(temp)
                               /\ dropped' = dropped \cup Lost(temp)
  BY DEF Puts, Replaces, AccInv, SavesInv
<1>3. CASE temp.by = Runtime
  <2>1. temp.state = runtime
    BY <1>2, <1>3 DEF LiveTemp
  <2>2. Lost(temp) = Flows!In(loss.flows) \ Flows!In(runtime.flows)
    BY <1>3, <2>1, FlowsTyped DEF Lost
  <2>3. Flows!Overwrite
    BY <1>1, <1>2, <2>1, <2>2 DEF Flows!Overwrite, Puts, StageMap
  <2> QED BY <2>3 DEF Flows!Next
<1>4. CASE temp.by # Runtime
  <2>1. PICK p \in journal : loss' = p.new
    BY <1>2, <1>4 DEF LiveTemp
  <2>2. dropped' = dropped
    BY <1>2, <1>4 DEF Lost
  <2>3. Once(p.new) /\ \A e \in Transfers : Has(p.new, e) => e \in p.newPoint.ids
    BY DEF CommitInv, Forward
  <2>4. p.new \in StateType /\ p.newPoint.ids \subseteq Transfers
    BY DEF TypeOK, IntentType, PointType
  <2>5. loss'.flows \in [Transfers -> {0, 1}]
    <3>1. loss'.flows \in [Transfers -> Nat]
      BY <2>1, <2>4 DEF StateType
    <3>2. \A e \in Transfers : loss'.flows[e] \in {0, 1}
      BY <2>1, <2>3, <3>1 DEF Once
    <3> QED BY <3>1, <3>2
  <2>6. Flows!In(loss'.flows) = {e \in Transfers : Has(p.new, e)}
    BY <2>1 DEF Flows!In, Has
  <2>7. /\ Flows!Taken = p.newPoint.ids
        /\ Flows!Of("pending") # {}
    BY PendingTaken
  <2>8. Flows!In(loss'.flows) \subseteq Flows!Taken
    BY <2>3, <2>6, <2>7
  <2>9. Flows!Taken \ dropped \subseteq Flows!In(loss'.flows)
    BY <2>4, <2>6, <2>7 DEF AccInv, AccountInv, Pending, Held
  <2>10. Flows!Separate
    BY <1>1, <2>2, <2>5, <2>7, <2>8, <2>9
       DEF Flows!Separate, Puts, StageMap
  <2> QED BY <2>10 DEF Flows!Next
<1> QED BY <1>3, <1>4

LEMMA LoadsFlows ==
  ASSUME Loads PROVE Flows!Next
<1>1. StageMap' = StageMap
  BY DEF StageMap, Stage, Loads
<1>2. Flows!Load
  BY <1>1, NonePending DEF Flows!Load, Loads, StageMap
<1> QED BY <1>2 DEF Flows!Next

LEMMA CommencesFlows ==
  ASSUME TypeOK, TypeOK', CommitInv, CommitInv', BeganInv, BeganInv', Commences
  PROVE  Flows!Next \/ UNCHANGED Flows!vars
<1>1. /\ journal = {} /\ journal' = intent /\ checkpoint' = checkpoint
      /\ UNCHANGED <<loss, runtime, dropped>>
  BY DEF Commences, CommitInv
<1>2. CASE intent = {}
  <2>1. StageMap' = StageMap
    BY <1>1, <1>2 DEF StageMap, Stage
  <2> QED BY <1>1, <2>1 DEF Flows!vars, StageMap
<1>3. ASSUME NEW p \in intent PROVE Flows!Begin
  <2> DEFINE new == p.newPoint.ids \ p.oldPoint.ids
  <2>1. p.oldPoint = checkpoint /\ Adds(p)
    BY <1>3 DEF BeganInv, Commences
  <2>2. \A q \in journal' : q = p
    BY <1>1, <1>3 DEF TypeOK
  <2>3. p.newPoint.ids \subseteq Transfers
    BY DEF TypeOK, IntentType, PointType
  <2>4. new \in (SUBSET Flows!Of("open")) \ {{}}
    <3>1. \A e \in new : e \in Transfers /\ Stage(e) = "open"
      BY <1>1, <2>1, <2>3 DEF Stage
    <3>2. new # {}
      BY <2>1 DEF Adds
    <3>3. \A e \in new : e \in Flows!Of("open")
      BY <3>1 DEF Flows!Of
    <3> HIDE DEF new
    <3> QED BY <3>2, <3>3
  <2>5. StageMap' = [e \in Transfers |-> IF e \in new THEN "pending"
                                         ELSE StageMap[e]]
    <3>1. ASSUME NEW e \in Transfers
          PROVE  Stage(e)' = IF e \in new THEN "pending" ELSE Stage(e)
      BY <1>1, <1>3, <2>1, <2>2 DEF Stage
    <3> QED BY <3>1 DEF StageMap
  <2>6. Flows!Of("pending") = {}
    BY <1>1, NonePending
  <2> QED BY <1>1, <2>4, <2>5, <2>6 DEF Flows!Begin, StageMap
<1> QED BY <1>2, <1>3 DEF Flows!Next

LEMMA EndsFlows ==
  ASSUME TypeOK, CommitInv, AccInv, BeganInv, Ends
  PROVE  Flows!Next
<1>1. PICK p \in journal : p.newPoint = checkpoint
  BY DEF Ends, CommitInv, AccInv, AccountInv
<1>2. StageMap = [e \in Transfers |-> StageIn(p, e)]
  BY StagesPending
<1>3. StageMap' = [e \in Transfers |-> IF e \in p.newPoint.ids
                                       THEN "processed" ELSE "open"]
  BY <1>1 DEF Ends, StageMap, Stage
<1>4. p.oldPoint.ids \subseteq p.newPoint.ids
  BY <1>1 DEF BeganInv
<1>5. StageMap' = [e \in Transfers |-> IF StageMap[e] = "pending"
                                       THEN "processed" ELSE StageMap[e]]
  BY <1>2, <1>3, <1>4 DEF StageIn
<1>6. /\ Flows!Of("pending") # {}
      /\ Flows!Taken = checkpoint.ids
  BY <1>1, PendingTaken
<1>7. checkpoint.ids \subseteq Flows!In(loss.flows) \cup dropped
  <2>1. checkpoint.ids \subseteq Transfers
    BY DEF TypeOK, PointType
  <2>2. \A e \in checkpoint.ids : Held(loss, e)
    BY DEF Ends, AccInv, AccountInv
  <2> QED BY <2>1, <2>2, FlowsTyped DEF Held
<1>8. Flows!Finish
  BY <1>5, <1>6, <1>7 DEF Flows!Finish, Ends, StageMap
<1> QED BY <1>8 DEF Flows!Next

(* Whatever fails or dies between the two files, and whatever the runtime  *)
(* saves meanwhile, the commit of transfers is one transaction of          *)
(* FlowAccount.                                                            *)
THEOREM CommitRefinesFlows == Spec => ImplementsFlows
<1>1. Init => BeganInv /\ Flows!Init
  <2> SUFFICES ASSUME Init PROVE BeganInv /\ Flows!Init
    OBVIOUS
  <2>1. /\ journal = {} /\ checkpoint.ids = {} /\ pc[Sync] # "journal"
        /\ loss.flows = [e \in Transfers |-> 0] /\ runtime = loss
        /\ dropped = {}
    BY DEF Init, State, Processed, NoFlows
  <2>2. StageMap = [e \in Transfers |-> "open"]
    BY <2>1 DEF StageMap, Stage
  <2> QED BY <2>1, <2>2 DEF BeganInv, Flows!Init, StageMap
<1>2. TypeOK /\ TypeOK' /\ CommitInv /\ CommitInv' /\ AccInv
        /\ BeganInv /\ BeganInv' /\ [Next]_vars
        => [Flows!Next]_(Flows!vars)
  BY NextEffects, StillFlows, PutsFlows, LoadsFlows, CommencesFlows,
     EndsFlows
<1> QED
  BY <1>1, <1>2, BeganStep, AccountsInvariant, PTL
     DEF Spec, ImplementsFlows, Flows!Spec
=============================================================================
