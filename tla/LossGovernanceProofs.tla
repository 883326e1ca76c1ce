------------------------ MODULE LossGovernanceProofs ------------------------
(* What holds of LossGovernance for every choice of its bounds.            *)
EXTENDS LossGovernance, TLAPS

(* What the bridge may come to: authority records are only added, and a    *)
(* relaxation adds one.                                                    *)
LEMMA EvaluationAdds ==
  ASSUME snap \in SnapType, NEW kind, NEW e \in Evaluations(kind)
  PROVE  /\ e.rank \in Ranks /\ e.rebases \in 0..MaxRebases
         /\ e.relax \in BOOLEAN /\ e.quiet \in BOOLEAN
         /\ e.rebases >= snap.rebases
         /\ e.relax => e.rebases > snap.rebases
<1>1. CASE \E rank \in Ranks :
             e = [rank |-> rank, rebases |-> snap.rebases, relax |-> FALSE,
                  quiet |-> FALSE]
  BY <1>1, BoundsNatural DEF SnapType
<1>2. CASE \E rank \in {r \in Ranks : snap.rebases < MaxRebases} :
             e = [rank |-> rank, rebases |-> snap.rebases + 1,
                  relax |-> rank < snap.rank, quiet |-> FALSE]
  BY <1>2, BoundsNatural DEF SnapType
<1>3. CASE \E rank \in {r \in Ranks \ {Locked} :
                          r = snap.rank /\ kind = "config"} :
             e = [rank |-> rank, rebases |-> snap.rebases, relax |-> FALSE,
                  quiet |-> TRUE]
  BY <1>3, BoundsNatural DEF SnapType
<1> QED
  BY <1>1, <1>2, <1>3 DEF Evaluations

-----------------------------------------------------------------------------
(* Type correctness.                                                       *)

LEMMA NullsTyped ==
  /\ NoView \in ViewType
  /\ NoEvent \in [at: Nat, kind: Kinds \cup {"none"}, seq: Nat, rank: Ranks]
  /\ NoRequest \in [rev: Nat, at: Nat, rank: Ranks, rebases: 0..MaxRebases,
                    relax: BOOLEAN, quiet: BOOLEAN]
  /\ NoCall \in [kind: {"none", "rebase", "peak", "recover", "config"},
                 now: Nat, rev: Nat, rank: Ranks, rebases: 0..MaxRebases]
BY RanksOrdered, BoundsNatural
   DEF NoView, NoEvent, NoRequest, NoCall, ViewType, Normal

LEMMA SnapTyped ==
  ASSUME NEW rev \in Nat, NEW rank \in Ranks, NEW rebases \in 0..MaxRebases,
         NEW updated \in Nat
  PROVE  /\ Snapshot(rev, rank, rebases, updated) \in SnapType
         /\ Snapshot(rev, rank, rebases, updated).rev = rev
         /\ Durable(Snapshot(rev, rank, rebases, updated))
              \in [rank: Ranks, rebases: 0..MaxRebases]
BY DEF Snapshot, SnapType, Durable

(* The steps of a commit of cash flows. *)
FlowStep == FlowReads \/ FlowGivesUp \/ FlowPrepares \/ FlowReplaces \/ FlowEnds

(* What is on disk, and what a commit of cash flows has read of it. *)
StorageTyped ==
  /\ file \in [rank: Ranks, rebases: 0..MaxRebases]
  /\ flow \in [stage: {"none", "read", "pending", "stuck"},
               state: [rank: Ranks, rebases: 0..MaxRebases]]
  /\ overwritten \in BOOLEAN

LEMMA NoFlowTyped ==
  /\ NoFlow \in [stage: {"none", "read", "pending", "stuck"},
                 state: [rank: Ranks, rebases: 0..MaxRebases]]
  /\ [NoFlow EXCEPT !.stage = "stuck"]
        \in [stage: {"none", "read", "pending", "stuck"},
            state: [rank: Ranks, rebases: 0..MaxRebases]]
BY RanksOrdered, BoundsNatural DEF NoFlow, Normal

LEMMA InitTyped == Init => TypeOK
<1> SUFFICES ASSUME Init PROVE TypeOK
  OBVIOUS
<1>1. StorageTyped
  <2>1. 0 \in Ranks /\ 0 \in 0..MaxRebases
    BY RanksOrdered, BoundsNatural DEF Normal
  <2>2. Durable(snap) = [rank |-> 0, rebases |-> 0]
    BY DEF Init, Snapshot, Durable
  <2>3. file \in [rank: Ranks, rebases: 0..MaxRebases]
    BY <2>1, <2>2 DEF Init
  <2>4. flow = NoFlow /\ overwritten \in BOOLEAN
    BY DEF Init
  <2> QED
    BY <2>3, <2>4, NoFlowTyped DEF StorageTyped
<1>2. /\ snap \in SnapType /\ last \in 1..snap.rev
      /\ metrics \in 0..MaxClock /\ clock \in 0..MaxClock
      /\ since \in Nat /\ heard \in Ranks /\ accepted \in 0..MaxRebases
  BY RanksOrdered, BoundsNatural DEF Init, Snapshot, SnapType, Normal
<1>3. pc \in [Threads -> Stages] /\ view \in [Threads -> ViewType]
  BY NullsTyped DEF Init, Stages
<1> QED
  BY <1>1, <1>2, <1>3, NullsTyped DEF Init, TypeOK, StorageTyped

(* The checkpoint saves the snapshot it is given, or nothing.              *)
LEMMA CheckpointTyped ==
  ASSUME NEW next \in SnapType, NEW required, NEW saved,
         last \in Nat, last >= 1, last <= next.rev,
         StorageTyped, Checkpoint(next, required, saved)
  PROVE  /\ last' \in Nat /\ last' >= 1 /\ last' <= next.rev
         /\ StorageTyped'
         /\ Saves(next) \/ UNCHANGED storage
         /\ saved => Saves(next)
<1>1. \/ Saves(next) /\ last' \in {last, next.rev}
      \/ UNCHANGED <<storage, last>> /\ ~saved
  BY DEF Checkpoint
<1>2. Durable(next) \in [rank: Ranks, rebases: 0..MaxRebases]
  BY DEF Durable, SnapType
<1>3. ASSUME Saves(next) PROVE StorageTyped'
  <2>1. flow' \in [stage: {"none", "read", "pending", "stuck"},
                  state: [rank: Ranks, rebases: 0..MaxRebases]]
    BY <1>3, NoFlowTyped DEF Saves, StorageTyped
  <2> QED
    BY <1>2, <1>3, <2>1 DEF Saves, StorageTyped
<1>4. UNCHANGED storage => StorageTyped'
  BY DEF storage, StorageTyped
<1> QED
  BY <1>1, <1>3, <1>4 DEF SnapType

LEMMA RecordedTyped ==
  ASSUME TypeOK, NEW t \in Threads, NEW status \in {"ok", "bad"},
         Recorded(t, status)
  PROVE  /\ pc' \in [Threads -> Stages]
         /\ hookStatus' \in {"none", "ok", "bad"} /\ published' \in ViewType
BY NullsTyped DEF TypeOK, Recorded, Stages, InHook

LEMMA ProjectionTyped ==
  ASSUME TypeOK, NEW status
  PROVE  Projection(status) \in ViewType /\ Torn \in ViewType
BY DEF TypeOK, Projection, Torn, ViewType, SnapType

(* The dispatches that change nothing. *)
LEMMA QuietTyped ==
  ASSUME TypeOK, NEW t \in Threads, NEW kind \in Kinds, NEW at \in 0..MaxClock,
         DispatchRepeats(t, kind, at) \/ Baseline(t, kind, at)
           \/ DispatchFails(t, kind, at)
  PROVE  TypeOK'
<1>1. PICK status \in {"ok", "bad"} : Recorded(t, status)
  BY DEF DispatchRepeats, Baseline, DispatchFails
<1>2. since' \in Nat /\ heard' \in Ranks /\ accepted' = accepted
  BY RanksOrdered DEF DispatchRepeats, Baseline, DispatchFails, Asked, TypeOK,
     SnapType, history
<1>3. UNCHANGED <<runtime, dispatching, metrics, clock, view, web>>
  BY DEF DispatchRepeats, Baseline, DispatchFails
<1> QED
  BY <1>1, <1>2, <1>3, RecordedTyped DEF TypeOK, runtime, storage, dispatching

LEMMA DispatchTyped ==
  ASSUME TypeOK, NEW t \in Threads, NEW kind \in Kinds, NEW at \in 0..MaxClock,
         Dispatch(t, kind, at)
  PROVE  TypeOK'
<1>1. PICK e \in Evaluations(kind) :
        request' = [rev |-> snap.rev, at |-> at, rank |-> e.rank,
                    rebases |-> e.rebases, relax |-> e.relax,
                    quiet |-> e.quiet]
  BY DEF Dispatch
<1>2. /\ e.rank \in Ranks /\ e.rebases \in 0..MaxRebases
      /\ e.relax \in BOOLEAN /\ e.quiet \in BOOLEAN
  BY EvaluationAdds DEF TypeOK
<1>3. at \in Nat
  BY BoundsNatural
<1>4. request' \in [rev: Nat, at: Nat, rank: Ranks, rebases: 0..MaxRebases,
                    relax: BOOLEAN, quiet: BOOLEAN]
  BY <1>1, <1>2, <1>3 DEF TypeOK, SnapType
<1>5. event' \in [at: Nat, kind: Kinds \cup {"none"}, seq: Nat, rank: Ranks]
  BY <1>3, RanksOrdered DEF Dispatch, TypeOK, SnapType, Normal
<1>6. since' \in Nat /\ heard' \in Ranks
  BY RanksOrdered DEF Dispatch, Asked, TypeOK, SnapType
<1>7. pc' \in [Threads -> Stages]
  BY DEF Dispatch, TypeOK, Stages, InHook
<1> QED
  BY <1>4, <1>5, <1>6, <1>7 DEF Dispatch, TypeOK, runtime, storage

LEMMA UpdatedTyped ==
  ASSUME TypeOK, NEW r, r.rank \in Ranks, r.rebases \in 0..MaxRebases,
         r.at \in Nat
  PROVE  /\ Updated(r) \in SnapType /\ Updated(r).rev = snap.rev + 1
         /\ last <= Updated(r).rev
         /\ Updated(r).rank = r.rank /\ Updated(r).rebases = r.rebases
BY DEF Updated, Snapshot, SnapType, TypeOK

LEMMA ApplyTyped ==
  ASSUME TypeOK, NEW t \in Threads, Apply(t)
  PROVE  TypeOK'
<1>1. /\ request.rank \in Ranks /\ request.rebases \in 0..MaxRebases
      /\ request.at \in Nat
  BY DEF TypeOK
<1>2. snap' \in SnapType /\ last <= snap'.rev
  BY <1>1, UpdatedTyped DEF Apply
<1>3. last' \in 1..snap'.rev /\ StorageTyped'
  BY <1>2, CheckpointTyped DEF Apply, TypeOK, StorageTyped, SnapType
<1>4. event' \in [at: Nat, kind: Kinds \cup {"none"}, seq: Nat, rank: Ranks]
  BY <1>1 DEF Apply, TypeOK
<1>5. heard' \in Ranks
  BY <1>1, RanksOrdered DEF Apply, Supersedes, TypeOK
<1>6. pc' \in [Threads -> Stages]
  BY DEF Apply, Stage, TypeOK, Stages, InHook
<1>7. request' \in [rev: Nat, at: Nat, rank: Ranks, rebases: 0..MaxRebases,
                    relax: BOOLEAN, quiet: BOOLEAN]
  BY NullsTyped DEF Apply
<1> QED
  BY <1>2, <1>3, <1>4, <1>5, <1>6, <1>7 DEF Apply, TypeOK, StorageTyped

LEMMA ApplyRefusedTyped ==
  ASSUME TypeOK, NEW t \in Threads, ApplyRefused(t)
  PROVE  TypeOK'
<1>1. /\ pc' \in [Threads -> Stages]
      /\ hookStatus' \in {"none", "ok", "bad"} /\ published' \in ViewType
  BY RecordedTyped DEF ApplyRefused
<1>2. since' \in Nat /\ heard' \in Ranks
  BY RanksOrdered DEF ApplyRefused, TypeOK, Normal
<1> QED
  BY <1>1, <1>2, NullsTyped DEF ApplyRefused, TypeOK, runtime, storage

LEMMA PublishingTyped ==
  ASSUME TypeOK, NEW t \in Threads,
         RecordApplied(t) \/ WriteApplied(t) \/ VerifyApplied(t)
           \/ View(t) \/ Publish(t)
  PROVE  TypeOK'
<1>1. pc' \in [Threads -> Stages]
  BY DEF RecordApplied, WriteApplied, VerifyApplied, View, Publish, Stage,
     TypeOK, Stages, InHook
<1>2. view' \in [Threads -> ViewType]
  BY NullsTyped, ProjectionTyped
  DEF RecordApplied, WriteApplied, VerifyApplied, View, Publish, TypeOK
<1>3. /\ published' \in ViewType /\ hookStatus' \in {"none", "ok", "bad"}
      /\ web' \in [kind: {"none", "rebase", "peak", "recover", "config"},
                   now: Nat, rev: Nat, rank: Ranks, rebases: 0..MaxRebases]
  BY NullsTyped
  DEF RecordApplied, WriteApplied, VerifyApplied, View, Publish, TypeOK
<1>4. UNCHANGED <<runtime, dispatching, metrics, clock, history>>
  BY DEF RecordApplied, WriteApplied, VerifyApplied, View, Publish
<1> QED
  BY <1>1, <1>2, <1>3, <1>4 DEF TypeOK, runtime, storage, dispatching, history

LEMMA GateTyped ==
  ASSUME TypeOK,
         RecordHttp \/ GateUnavailable \/ Refreshed \/ GuardAllows
           \/ GateRefuses \/ Invalidate
  PROVE  TypeOK'
<1>1. pc' \in [Threads -> Stages]
  BY DEF RecordHttp, GateUnavailable, Refreshed, GuardAllows, GateRefuses,
     Invalidate, Stage, TypeOK, Stages, InHook
<1>2. view' \in [Threads -> ViewType]
  BY NullsTyped
  DEF RecordHttp, GateUnavailable, Refreshed, GuardAllows, GateRefuses,
      Invalidate, TypeOK
<1>3. /\ published' \in ViewType /\ hookStatus' \in {"none", "ok", "bad"}
      /\ since' \in Nat /\ heard' \in Ranks
  BY NullsTyped, RanksOrdered
  DEF RecordHttp, GateUnavailable, Refreshed, GuardAllows, GateRefuses,
      Invalidate, TypeOK, history, Normal
<1>4. UNCHANGED <<runtime, dispatching, metrics, clock, web, accepted>>
  BY DEF RecordHttp, GateUnavailable, Refreshed, GuardAllows, GateRefuses,
     Invalidate, history
<1> QED
  BY <1>1, <1>2, <1>3, <1>4 DEF TypeOK, runtime, storage, dispatching

LEMMA WebRequestTyped ==
  ASSUME TypeOK
  PROVE  /\ WebRequest.rank = web.rank /\ WebRequest.rebases = web.rebases
         /\ WebRequest.at = web.now /\ WebRequest.rev = web.rev
         /\ WebRequest.relax => web.kind = "peak"
         /\ web.rank \in Ranks /\ web.rebases \in 0..MaxRebases
         /\ web.now \in Nat /\ web.rev \in Nat
BY DEF WebRequest, TypeOK

LEMMA HttpTyped ==
  ASSUME TypeOK
  PROVE  /\ \A kind \in {"rebase", "peak", "recover", "config"} :
              HttpCall(kind) => TypeOK'
         /\ \A saved \in BOOLEAN : HttpUpdate(saved) => TypeOK'
         /\ HttpRefused => TypeOK'
<1>1. ASSUME NEW kind \in {"rebase", "peak", "recover", "config"},
             HttpCall(kind)
      PROVE  TypeOK'
  <2>1. clock' \in 0..MaxClock
    BY <1>1, BoundsNatural DEF HttpCall, TypeOK
  <2>2. web' \in [kind: {"none", "rebase", "peak", "recover", "config"},
                  now: Nat, rev: Nat, rank: Ranks, rebases: 0..MaxRebases]
    <3>1. CASE kind \in {"rebase", "peak"}
      <4>1. /\ snap.rebases + 1 \in 0..MaxRebases /\ clock \in Nat
            /\ snap.rev \in Nat /\ snap.rank \in Ranks
        BY <1>1, <3>1, BoundsNatural DEF HttpCall, TypeOK, SnapType
      <4>2. (IF kind = "peak" THEN 0 ELSE snap.rank) \in Ranks
        BY <4>1, RanksOrdered DEF Normal
      <4>3. web' = [kind |-> kind, now |-> clock, rev |-> snap.rev,
                    rank |-> IF kind = "peak" THEN 0 ELSE snap.rank,
                    rebases |-> snap.rebases + 1]
        BY <1>1, <3>1 DEF HttpCall
      <4> QED
        BY <3>1, <4>1, <4>2, <4>3
    <3>2. CASE kind \notin {"rebase", "peak"}
      <4>1. clock' \in Nat
        BY <2>1, BoundsNatural
      <4>2. web' = [NoCall EXCEPT !.kind = kind, !.now = clock']
        BY <1>1, <3>2 DEF HttpCall
      <4> QED
        BY <4>1, <4>2, NullsTyped, <1>1
    <3> QED
      BY <3>1, <3>2
  <2>3. pc' \in [Threads -> Stages]
    BY <1>1 DEF HttpCall, Stage, TypeOK, Stages, InHook
  <2> QED
    BY <1>1, <2>1, <2>2, <2>3
    DEF HttpCall, TypeOK, runtime, storage, dispatching, history
<1>2. ASSUME NEW saved \in BOOLEAN, HttpUpdate(saved) PROVE  TypeOK'
  <2>1. snap' \in SnapType /\ last <= snap'.rev
    BY <1>2, WebRequestTyped, UpdatedTyped DEF HttpUpdate
  <2>2. last' \in 1..snap'.rev /\ StorageTyped'
    <3>1. Checkpoint(snap', TRUE, saved)
      BY <1>2 DEF HttpUpdate
    <3>2. last \in Nat /\ last >= 1 /\ StorageTyped
      BY DEF TypeOK, StorageTyped, SnapType
    <3>3. /\ last' \in Nat /\ last' >= 1 /\ last' <= snap'.rev
          /\ StorageTyped'
      BY <2>1, <3>1, <3>2, CheckpointTyped
    <3> QED
      BY <2>1, <3>3 DEF SnapType
  <2>3. /\ pc' \in [Threads -> Stages] /\ accepted' \in 0..MaxRebases
        /\ heard' \in Ranks
    BY <1>2, RanksOrdered, WebRequestTyped
    DEF HttpUpdate, Confirms, TypeOK, Stages, InHook, Normal
  <2>4. /\ event' \in [at: Nat, kind: Kinds \cup {"none"}, seq: Nat,
                       rank: Ranks]
        /\ web' \in [kind: {"none", "rebase", "peak", "recover", "config"},
                     now: Nat, rev: Nat, rank: Ranks, rebases: 0..MaxRebases]
    BY <1>2, RanksOrdered, NullsTyped DEF HttpUpdate, TypeOK, Normal
  <2> QED
    BY <1>2, <2>1, <2>2, <2>3, <2>4 DEF HttpUpdate, TypeOK, StorageTyped
<1>3. HttpRefused => TypeOK'
  BY NullsTyped
  DEF HttpRefused, Stage, TypeOK, Stages, InHook, runtime, storage, dispatching, history
<1> QED
  BY <1>1, <1>2, <1>3

LEMMA LoadedTyped ==
  ASSUME TypeOK
  PROVE  /\ Snapshot(1, file.rank, file.rebases, clock) \in SnapType
         /\ Snapshot(1, file.rank, file.rebases, clock).rev = 1
         /\ Snapshot(1, file.rank, file.rebases, clock).rank = file.rank
         /\ Snapshot(1, file.rank, file.rebases, clock).rebases = file.rebases
BY BoundsNatural DEF TypeOK, Snapshot, SnapType

LEMMA ProcessTyped ==
  ASSUME TypeOK,
         Observe \/ Restart \/ RestartRefused \/ Shutdown \/ ShutdownFails
           \/ Crash
  PROVE  TypeOK'
<1>1. CASE Observe
  BY <1>1, BoundsNatural
  DEF Observe, TypeOK, runtime, storage, dispatching, history
<1>2. CASE Restart \/ Crash
  <2>1. /\ snap' = Snapshot(1, file.rank, file.rebases, clock) /\ last' = 1
        /\ app' \in {"running", "stopped", "down"} /\ published' \in ViewType
        /\ Volatile /\ file' = file /\ clock' = clock
        /\ overwritten' = FALSE
    BY <1>2, NullsTyped DEF Restart, Crash, Reloads, ViewType
  <2>2. snap' \in SnapType /\ last' \in 1..snap'.rev
    BY <2>1, LoadedTyped
  <2>3. /\ pc' \in [Threads -> Stages] /\ view' \in [Threads -> ViewType]
        /\ hookStatus' \in {"none", "ok", "bad"}
        /\ metrics' \in 0..MaxClock /\ since' \in Nat /\ heard' \in Ranks
    BY <2>1, NullsTyped, BoundsNatural, RanksOrdered
    DEF Volatile, Stages, Normal
  <2>4. accepted' \in 0..MaxRebases
    BY <1>2 DEF Restart, Crash, Reloads, TypeOK
  <2>5. flow' \in [stage: {"none", "read", "pending", "stuck"},
                  state: [rank: Ranks, rebases: 0..MaxRebases]]
    BY <1>2, NoFlowTyped DEF Restart, Crash, TypeOK
  <2> QED
    BY <2>1, <2>2, <2>3, <2>4, <2>5, NullsTyped DEF Volatile, TypeOK
<1>3. CASE Shutdown
  <2>1. /\ snap' \in SnapType /\ snap'.rev = snap.rev + 1
        /\ app' = "stopped"
    BY <1>3 DEF Shutdown, Stop, TypeOK, SnapType
  <2>2. last' \in 1..snap'.rev /\ StorageTyped'
    <3>1. PICK saved \in BOOLEAN : Checkpoint(snap', TRUE, saved)
      BY <1>3 DEF Shutdown
    <3> QED
      <4>1. last \in Nat /\ last >= 1 /\ last <= snap'.rev /\ StorageTyped
        BY <2>1 DEF TypeOK, StorageTyped, SnapType
      <4>2. /\ last' \in Nat /\ last' >= 1 /\ last' <= snap'.rev
            /\ StorageTyped'
        BY <2>1, <3>1, <4>1, CheckpointTyped
      <4> QED
        BY <2>1, <4>2 DEF SnapType
  <2> QED
    BY <1>3, <2>1, <2>2
    DEF Shutdown, TypeOK, StorageTyped, dispatching, history
<1>4. CASE ShutdownFails
  BY <1>4 DEF ShutdownFails, Stop, TypeOK, storage, dispatching, history
<1>5. CASE RestartRefused
  BY <1>5 DEF RestartRefused, vars, storage, TypeOK
<1> QED
  BY <1>1, <1>2, <1>3, <1>4, <1>5

LEMMA FlowTyped ==
  ASSUME TypeOK, FlowStep
  PROVE  TypeOK'
<1>1. UNCHANGED Others
  BY DEF FlowStep, FlowReads, FlowGivesUp, FlowPrepares, FlowReplaces, FlowEnds
<1>2. StorageTyped'
  <2>1. CASE FlowReads
    BY <2>1 DEF FlowReads, TypeOK, StorageTyped
  <2>2. CASE FlowGivesUp \/ FlowEnds
    BY <2>2, NoFlowTyped DEF FlowGivesUp, FlowEnds, TypeOK, StorageTyped
  <2>3. CASE FlowPrepares
    BY <2>3 DEF FlowPrepares, TypeOK, StorageTyped
  <2>4. CASE FlowReplaces
    BY <2>4 DEF FlowReplaces, TypeOK, StorageTyped
  <2> QED
    BY <2>1, <2>2, <2>3, <2>4 DEF FlowStep
<1> QED
  BY <1>1, <1>2 DEF Others, dispatching, history, TypeOK, StorageTyped

LEMMA NextTyped == TypeOK /\ [Next]_vars => TypeOK'
<1> SUFFICES ASSUME TypeOK, [Next]_vars PROVE TypeOK'
  OBVIOUS
<1>1. CASE UNCHANGED vars
  BY <1>1 DEF vars, storage, TypeOK
<1>2. ASSUME NEW t \in Threads, ThreadStep(t) PROVE TypeOK'
  BY <1>2, QuietTyped, DispatchTyped, ApplyTyped, ApplyRefusedTyped,
     PublishingTyped DEF ThreadStep
<1>3. CASE \/ RecordHttp \/ GateUnavailable \/ Refreshed \/ GuardAllows
           \/ GateRefuses \/ Invalidate
  BY <1>3, GateTyped
<1>4. CASE \/ \E kind \in {"rebase", "peak", "recover", "config"} :
                HttpCall(kind)
           \/ \E saved \in BOOLEAN : HttpUpdate(saved)
           \/ HttpRefused
  BY <1>4, HttpTyped
<1>5. CASE Observe \/ Restart \/ RestartRefused \/ Shutdown \/ ShutdownFails
             \/ Crash
  BY <1>5, ProcessTyped
<1>6. CASE FlowStep
  BY <1>6, FlowTyped
<1> QED
  BY <1>1, <1>2, <1>3, <1>4, <1>5, <1>6 DEF Next, FlowStep

(* Every variable has its type, for any bound on time and authority        *)
(* records: the revision saved last is one the runtime has had.            *)
THEOREM TypeCorrect == Spec => []TypeOK
BY InitTyped, NextTyped, PTL DEF Spec

LEMMA RankNumbers == \A rank \in Ranks : rank \in Int
<1>1. Ranks \subseteq 0..3
  BY RanksOrdered DEF Normal, Locked
<1> QED
  BY <1>1

-----------------------------------------------------------------------------
(* Durability.  Most steps change neither the state nor the file, and put  *)
(* no update in flight.                                                    *)

InFlight == \E t \in Threads : pc[t] = "apply"
Calling == pc[Http] \in {"invalidate", "update"}

Silent ==
  /\ UNCHANGED <<app, snap, storage, accepted>>
  /\ request' = request \/ request' = NoRequest
  /\ InFlight' => InFlight
  /\ Calling' => pc'[Http] = pc[Http] /\ web' = web

LEMMA SilentSteps ==
  ASSUME TypeOK, NEW t \in Threads,
         \/ \E kind \in Kinds, at \in 0..MaxClock :
              \/ DispatchRepeats(t, kind, at) \/ Baseline(t, kind, at)
              \/ DispatchFails(t, kind, at)
         \/ ApplyRefused(t) \/ RecordApplied(t) \/ WriteApplied(t)
         \/ VerifyApplied(t) \/ View(t) \/ Publish(t)
         \/ RecordHttp \/ GateUnavailable \/ Refreshed \/ GuardAllows
         \/ GateRefuses \/ HttpRefused \/ Observe
  PROVE  Silent
<1> DEFINE Mine(u) == pc'[u] # "apply" /\ (u = Http => ~Calling')
           Rest(u) == \A v \in Threads : v # u => pc'[v] = pc[v]
<1>0. Http \in Threads /\ Gate \in Threads
  BY DEF Threads, HookThreads
<1>1. ASSUME NEW kind \in Kinds, NEW at \in 0..MaxClock,
             DispatchRepeats(t, kind, at) \/ Baseline(t, kind, at)
               \/ DispatchFails(t, kind, at)
      PROVE  Silent
  <2>1. PICK status \in {"ok", "bad"} : Recorded(t, status)
    BY <1>1 DEF DispatchRepeats, Baseline, DispatchFails
  <2>2. Mine(t) /\ Rest(t)
    BY <2>1, <1>0 DEF Recorded, TypeOK, Calling, Http, Gate
  <2>3. UNCHANGED <<app, snap, storage, accepted, request, web>>
    BY <1>1 DEF DispatchRepeats, Baseline, DispatchFails, runtime, storage,
       dispatching, history
  <2> QED
    BY <2>2, <2>3, <1>0 DEF Silent, InFlight, Calling
<1>2. CASE ApplyRefused(t)
  <2>1. Mine(t) /\ Rest(t)
    BY <1>2, <1>0 DEF ApplyRefused, Recorded, TypeOK, Calling, Http, Gate
  <2> QED
    BY <1>2, <2>1, <1>0 DEF ApplyRefused, Silent, InFlight, Calling, runtime, storage
<1>3. CASE \/ RecordApplied(t) \/ WriteApplied(t) \/ VerifyApplied(t)
           \/ View(t) \/ Publish(t)
  <2>1. Mine(t) /\ Rest(t)
    BY <1>3, <1>0 DEF RecordApplied, WriteApplied, VerifyApplied, View,
       Publish, Stage, TypeOK, Calling, Http, Gate, HookThreads, Feed
  <2>2. UNCHANGED <<app, snap, storage, accepted, request>>
    BY <1>3 DEF RecordApplied, WriteApplied, VerifyApplied, View, Publish,
       runtime, storage, dispatching, history
  <2>3. t # Http => web' = web
    BY <1>3 DEF RecordApplied, WriteApplied, VerifyApplied, View, Publish
  <2> QED
    BY <2>1, <2>2, <2>3, <1>0 DEF Silent, InFlight, Calling
<1>4. CASE RecordHttp \/ HttpRefused
  <2>1. Mine(Http) /\ Rest(Http)
    BY <1>4, <1>0 DEF RecordHttp, HttpRefused, Stage, TypeOK, Calling
  <2>2. UNCHANGED <<app, snap, storage, accepted, request>>
    BY <1>4 DEF RecordHttp, HttpRefused, runtime, storage, dispatching, history
  <2> QED
    BY <2>1, <2>2, <1>0 DEF Silent, InFlight, Calling
<1>5. CASE GateUnavailable \/ Refreshed \/ GuardAllows \/ GateRefuses
           \/ Observe
  <2>1. UNCHANGED <<app, snap, storage, accepted, request, web>>
    BY <1>5 DEF GateUnavailable, Refreshed, GuardAllows, GateRefuses,
       Observe, runtime, storage, dispatching, history
  <2>2. pc' = pc \/ (Mine(Gate) /\ Rest(Gate))
    BY <1>5, <1>0 DEF GateUnavailable, Refreshed, GuardAllows, GateRefuses,
       Observe, Stage, TypeOK, Gate, Http
  <2>3. Gate # Http
    BY DEF Gate, Http
  <2> QED
    BY <2>1, <2>2, <2>3, <1>0 DEF Silent, InFlight, Calling
<1> QED
  BY <1>1, <1>2, <1>3, <1>4, <1>5

LEMMA SilentDurable == TypeOK /\ DurableInv /\ Silent => DurableInv'
BY DEF DurableInv, storage, FlowBehind, Committing, RequestCurrent, WebCurrent, UpdateKind, RebaseDurable,
   NeverLessRestrictive, Silent, InFlight, Calling, NoRequest, TypeOK, SnapType

(* An update the runtime takes is the next revision; it adds authority     *)
(* records, or keeps them and is no less restrictive.  The file is replaced *)
(* by it or left.  Only a runtime that runs takes one.                     *)
Takes ==
  /\ snap'.rev = snap.rev + 1
  /\ snap'.rebases >= snap.rebases
  /\ snap'.rank < snap.rank => snap'.rebases > snap.rebases
  /\ UNCHANGED storage \/ Saves(snap')
  /\ app = "running"

LEMMA ApplyTakes ==
  ASSUME TypeOK, DurableInv, NEW t \in Threads, Apply(t)
  PROVE  Takes
<1>1. /\ request.rank \in Ranks /\ request.rebases \in 0..MaxRebases
      /\ request.at \in Nat
  BY DEF TypeOK
<1>2. /\ snap'.rev = snap.rev + 1 /\ snap'.rank = request.rank
      /\ snap'.rebases = request.rebases
  BY <1>1, UpdatedTyped DEF Apply
<1>3. /\ request.rev = snap.rev /\ pc[t] = "apply"
      /\ request.rank >= snap.rank \/ request.relax
  BY DEF Apply, Acceptable, Stage
<1>4. /\ request.rebases >= snap.rebases
      /\ request.relax => request.rebases > snap.rebases
  BY <1>3 DEF DurableInv, RequestCurrent
<1>5. (UNCHANGED storage \/ Saves(snap')) /\ app = "running"
  BY DEF Apply, Acceptable, Checkpoint, storage
<1>6. snap.rank \in Int /\ request.rank \in Int
  BY <1>1, RankNumbers DEF TypeOK, SnapType
<1>7. snap.rebases \in Int
  BY DEF TypeOK, SnapType
<1> QED
  BY <1>1, <1>2, <1>3, <1>4, <1>5, <1>6, <1>7 DEF Takes

LEMMA HttpTakes ==
  ASSUME TypeOK, DurableInv, NEW saved \in BOOLEAN, HttpUpdate(saved)
  PROVE  /\ Takes
         /\ snap'.rebases = web.rebases
         /\ saved => Saves(snap') /\ file'.rebases = web.rebases
         /\ snap'.rebases > snap.rebases
<1>1. snap' = Updated(WebRequest) /\ Acceptable(WebRequest)
  BY DEF HttpUpdate
<1>2. /\ snap'.rev = snap.rev + 1 /\ snap'.rank = web.rank
      /\ snap'.rebases = web.rebases /\ web.rev = snap.rev
  BY <1>1, WebRequestTyped, UpdatedTyped DEF Acceptable
<1>3. web.kind \in {"rebase", "peak"} /\ Calling
  BY DEF HttpUpdate, DurableInv, UpdateKind, Calling
<1>4. web.rebases > snap.rebases
  BY <1>2, <1>3 DEF DurableInv, WebCurrent, Calling
<1>5. /\ UNCHANGED storage \/ Saves(snap')
      /\ saved => Saves(snap')
      /\ app = "running"
  BY DEF HttpUpdate, Acceptable, Checkpoint, storage
<1>6. saved => file'.rebases = snap'.rebases
  BY <1>5 DEF Saves, Durable
<1>7. web.rebases \in Int /\ snap.rebases \in Int
  BY DEF TypeOK, SnapType
<1> QED
  BY <1>2, <1>4, <1>5, <1>6, <1>7 DEF Takes

(* What an update leaves true. *)
LEMMA TakesDurable ==
  ASSUME TypeOK, DurableInv, Takes, TypeOK'
  PROVE  /\ file'.rebases <= snap'.rebases /\ accepted <= snap'.rebases
         /\ ~overwritten' => accepted <= file'.rebases
         /\ snap'.rebases > file'.rebases \/ snap'.rank >= file'.rank
         /\ FlowBehind'
         /\ request.rev < snap'.rev \/ ~InFlight
         /\ web.kind \in {"rebase", "peak"} /\ Calling => web.rev < snap'.rev
<1>1. /\ snap.rank \in Int /\ snap'.rank \in Int
      /\ file.rank \in Int /\ file'.rank \in Int /\ flow.state.rank \in Int
  BY RankNumbers DEF TypeOK, SnapType
<1>2. /\ snap.rebases \in Int /\ snap'.rebases \in Int
      /\ file.rebases \in Int /\ file'.rebases \in Int
      /\ flow.state.rebases \in Int /\ accepted \in Int
      /\ snap.rev \in Int /\ web.rev \in Int /\ request.rev \in Int
  BY DEF TypeOK, SnapType
<1>3. file.rebases <= snap.rebases /\ accepted <= snap.rebases
  BY DEF DurableInv
<1>4. snap.rebases > file.rebases \/ snap.rank >= file.rank
  BY DEF DurableInv, NeverLessRestrictive, Takes
<1>5. InFlight => request.rev <= snap.rev
  BY DEF DurableInv, RequestCurrent, InFlight
<1>6. web.kind \in {"rebase", "peak"} /\ Calling => web.rev <= snap.rev
  BY DEF DurableInv, WebCurrent, Calling
<1>7. /\ snap'.rev = snap.rev + 1 /\ snap'.rebases >= snap.rebases
      /\ snap'.rank < snap.rank => snap'.rebases > snap.rebases
  BY DEF Takes
<1>8. ~overwritten => accepted <= file.rebases
  BY DEF DurableInv, RebaseDurable
<1>9. CASE UNCHANGED storage
  <2>1. FlowBehind'
    BY <1>9 DEF storage, DurableInv, FlowBehind, Committing
  <2>2. file' = file /\ overwritten' = overwritten
    BY <1>9 DEF storage
  <2> QED
    BY <1>1, <1>2, <1>3, <1>4, <1>5, <1>6, <1>7, <1>8, <2>1, <2>2
<1>10. CASE Saves(snap')
  <2>1. /\ file'.rank = snap'.rank /\ file'.rebases = snap'.rebases
    BY <1>10 DEF Saves, Durable
  <2>2. Committing' => Committing /\ flow' = flow
    BY <1>10 DEF Saves, Committing, NoFlow
  <2>3. FlowBehind'
    BY <1>1, <1>2, <1>3, <1>4, <1>7, <2>1, <2>2
    DEF DurableInv, FlowBehind
  <2> QED
    BY <1>1, <1>2, <1>3, <1>5, <1>6, <1>7, <2>1, <2>3
<1> QED
  BY <1>9, <1>10 DEF Takes

LEMMA DispatchDurable ==
  ASSUME TypeOK, DurableInv, NEW t \in Threads, NEW kind \in Kinds,
         NEW at \in 0..MaxClock, Dispatch(t, kind, at)
  PROVE  DurableInv'
<1>1. PICK e \in Evaluations(kind) :
        request' = [rev |-> snap.rev, at |-> at, rank |-> e.rank,
                    rebases |-> e.rebases, relax |-> e.relax,
                    quiet |-> e.quiet]
  BY DEF Dispatch
<1>2. /\ e.rebases >= snap.rebases
      /\ e.relax => e.rebases > snap.rebases
  BY EvaluationAdds DEF TypeOK
<1>3. UNCHANGED <<app, snap, storage, accepted, web>>
  BY DEF Dispatch, runtime, storage
<1>4. RequestCurrent'
  BY <1>1, <1>2, <1>3 DEF RequestCurrent, TypeOK, SnapType
<1>5. Calling' => pc'[Http] = pc[Http]
  BY DEF Dispatch, Calling, TypeOK, Threads
<1> QED
  BY <1>3, <1>4, <1>5
  DEF DurableInv, WebCurrent, UpdateKind, RebaseDurable,
      NeverLessRestrictive, Calling, storage, FlowBehind, Committing

LEMMA ApplyDurable ==
  ASSUME TypeOK, DurableInv, TypeOK', NEW t \in Threads, Apply(t)
  PROVE  DurableInv'
<1>1. Takes
  BY ApplyTakes
<1>2. /\ file'.rebases <= snap'.rebases /\ accepted <= snap'.rebases
      /\ ~overwritten' => accepted <= file'.rebases
      /\ snap'.rebases > file'.rebases \/ snap'.rank >= file'.rank
      /\ FlowBehind'
      /\ web.kind \in {"rebase", "peak"} /\ Calling => web.rev < snap'.rev
  BY <1>1, TakesDurable
<1>3. /\ request' = NoRequest /\ UNCHANGED <<app, accepted, web>>
  BY DEF Apply
<1>4. Calling' => pc'[Http] = pc[Http]
  BY DEF Apply, Stage, Calling, TypeOK, Threads
<1>5. snap'.rev \in Nat /\ snap'.rev > 0 /\ web.rev \in Nat
  BY <1>1 DEF Takes, TypeOK, SnapType
<1>6. RequestCurrent'
  BY <1>3, <1>5 DEF RequestCurrent, NoRequest
<1>7. WebCurrent' /\ UpdateKind'
  BY <1>2, <1>3, <1>4, <1>5 DEF WebCurrent, UpdateKind, DurableInv, Calling
<1>8. RebaseDurable'
  BY <1>2, <1>3 DEF RebaseDurable
<1>9. NeverLessRestrictive'
  BY <1>2, <1>3 DEF NeverLessRestrictive
<1> QED
  BY <1>2, <1>3, <1>6, <1>7, <1>8, <1>9 DEF DurableInv

LEMMA HttpUpdateDurable ==
  ASSUME TypeOK, DurableInv, TypeOK', NEW saved \in BOOLEAN, HttpUpdate(saved)
  PROVE  DurableInv'
<1>1. /\ Takes
      /\ saved => file'.rebases = web.rebases /\ Saves(snap')
      /\ snap'.rebases = web.rebases
  BY HttpTakes
<1>2. /\ file'.rebases <= snap'.rebases /\ accepted <= snap'.rebases
      /\ ~overwritten' => accepted <= file'.rebases
      /\ snap'.rebases > file'.rebases \/ snap'.rank >= file'.rank
      /\ FlowBehind'
      /\ request.rev < snap'.rev \/ ~InFlight
  BY <1>1, TakesDurable
<1>3. UNCHANGED <<app, request>>
  BY DEF HttpUpdate
<1>4. InFlight' => InFlight
  BY DEF HttpUpdate, InFlight, TypeOK
<1>5. snap'.rev \in Nat /\ request.rev \in Nat
  BY DEF TypeOK, SnapType
<1>6. RequestCurrent'
  BY <1>2, <1>3, <1>4, <1>5 DEF RequestCurrent, InFlight
<1>7. ~Calling'
  BY DEF HttpUpdate, Calling, TypeOK, Threads
<1>8. WebCurrent' /\ UpdateKind'
  BY <1>7 DEF WebCurrent, UpdateKind, Calling
<1>9. RebaseDurable' /\ accepted' <= snap'.rebases
  <2>1. accepted' = IF saved THEN web.rebases ELSE accepted
    BY DEF HttpUpdate, Confirms
  <2>2. saved => ~overwritten'
    BY <1>1 DEF Saves
  <2>3. web.rebases \in Int
    BY DEF TypeOK
  <2> QED
    BY <1>1, <1>2, <2>1, <2>2, <2>3 DEF RebaseDurable
<1>10. NeverLessRestrictive'
  BY <1>2, <1>3 DEF NeverLessRestrictive
<1> QED
  BY <1>2, <1>6, <1>8, <1>9, <1>10 DEF DurableInv

LEMMA HttpCallDurable ==
  ASSUME TypeOK, DurableInv,
         NEW kind \in {"rebase", "peak", "recover", "config"}, HttpCall(kind)
  PROVE  DurableInv'
<1>1. UNCHANGED <<app, snap, storage, accepted, request>>
  BY DEF HttpCall, runtime, storage, dispatching, history
<1>2. InFlight' => InFlight
  BY DEF HttpCall, Stage, InFlight, TypeOK
<1>3. pc'[Http] = "invalidate"
  BY DEF HttpCall, Stage, TypeOK, Threads
<1>4. WebCurrent'
  <2>1. CASE kind \in {"rebase", "peak"}
    <3>1. web' = [kind |-> kind, now |-> clock, rev |-> snap.rev,
                  rank |-> IF kind = "peak" THEN 0 ELSE snap.rank,
                  rebases |-> snap.rebases + 1]
      BY <2>1 DEF HttpCall
    <3>2. snap.rev \in Int /\ snap.rebases \in Int /\ snap.rank \in Int
      BY RankNumbers DEF TypeOK, SnapType
    <3> QED
      BY <1>1, <3>1, <3>2 DEF WebCurrent
  <2>2. CASE kind \notin {"rebase", "peak"}
    <3>1. web' = [NoCall EXCEPT !.kind = kind, !.now = clock']
      BY <2>2 DEF HttpCall
    <3>2. web'.kind = kind
      BY <3>1 DEF NoCall
    <3> QED
      BY <2>2, <3>2 DEF WebCurrent
  <2> QED
    BY <2>1, <2>2
<1> QED
  BY <1>1, <1>2, <1>3, <1>4
  DEF DurableInv, RequestCurrent, UpdateKind, RebaseDurable,
      NeverLessRestrictive, InFlight, storage, FlowBehind, Committing

LEMMA InvalidateDurable ==
  ASSUME TypeOK, DurableInv, Invalidate
  PROVE  DurableInv'
<1>1. UNCHANGED <<app, snap, storage, accepted, request, web>>
  BY DEF Invalidate, runtime, storage, dispatching, history
<1>2. InFlight' => InFlight
  BY DEF Invalidate, Stage, InFlight, TypeOK
<1>3. /\ pc[Http] = "invalidate"
      /\ pc'[Http] = "update" => web.kind \in {"rebase", "peak"}
  BY DEF Invalidate, Stage, TypeOK, Threads
<1> QED
  BY <1>1, <1>2, <1>3
  DEF DurableInv, RequestCurrent, WebCurrent, UpdateKind, RebaseDurable,
      NeverLessRestrictive, InFlight, storage, FlowBehind, Committing

LEMMA ShutdownTakes ==
  ASSUME TypeOK, Shutdown
  PROVE  Takes
<1>1. /\ snap'.rev = snap.rev + 1 /\ snap'.rank = snap.rank
      /\ snap'.rebases = snap.rebases /\ app = "running"
  BY DEF Shutdown, Stop, TypeOK, SnapType
<1>2. UNCHANGED storage \/ Saves(snap')
  BY DEF Shutdown, Checkpoint, storage
<1>3. snap.rebases \in Int /\ snap.rank \in Int
  BY RankNumbers DEF TypeOK, SnapType
<1> QED
  BY <1>1, <1>2, <1>3 DEF Takes

LEMMA ProcessDurable ==
  ASSUME TypeOK, DurableInv, TypeOK',
         Restart \/ RestartRefused \/ Shutdown \/ ShutdownFails \/ Crash
  PROVE  DurableInv'
<1>1. CASE Restart \/ Crash
  <2>1. Reloads /\ (flow' = flow \/ flow' = NoFlow)
    BY <1>1 DEF Restart, Crash
  <2>2. /\ snap' = Snapshot(1, file.rank, file.rebases, clock)
        /\ file' = file /\ overwritten' = FALSE /\ Volatile
        /\ accepted' = IF overwritten /\ file.rebases < accepted
                       THEN file.rebases ELSE accepted
    BY <2>1 DEF Reloads
  <2>3. snap'.rank = file.rank /\ snap'.rebases = file.rebases
    BY <2>2, LoadedTyped
  <2>4. ~InFlight' /\ ~Calling'
    BY <2>2 DEF Volatile, InFlight, Calling, Threads
  <2>5. file.rank \in Int /\ file.rebases \in Int /\ accepted \in Int
    BY RankNumbers DEF TypeOK
  <2>6. accepted' <= file.rebases
    BY <2>2, <2>5 DEF DurableInv, RebaseDurable
  <2>7. FlowBehind'
    BY <2>1, <2>2 DEF DurableInv, FlowBehind, Committing, NoFlow
  <2> QED
    BY <2>2, <2>3, <2>4, <2>5, <2>6, <2>7
    DEF DurableInv, RequestCurrent, WebCurrent, UpdateKind, RebaseDurable,
        NeverLessRestrictive, InFlight, Calling
<1>2. CASE Shutdown
  <2>1. /\ app' = "stopped" /\ accepted' = accepted
        /\ pc' = pc /\ request' = request
    BY <1>2 DEF Shutdown, Stop, dispatching, history
  <2>2. Takes
    BY <1>2, ShutdownTakes
  <2>3. /\ file'.rebases <= snap'.rebases /\ accepted <= snap'.rebases
        /\ ~overwritten' => accepted <= file'.rebases
        /\ FlowBehind'
    BY <2>2, TakesDurable
  <2>4. ~InFlight' /\ ~Calling'
    BY <1>2, <2>1
    DEF Shutdown, Stop, HookFree, InHook, InFlight, Calling, Threads
  <2> QED
    BY <2>1, <2>3, <2>4
    DEF DurableInv, RequestCurrent, WebCurrent, UpdateKind, RebaseDurable,
        NeverLessRestrictive, InFlight, Calling
<1>3. CASE ShutdownFails
  BY <1>3
  DEF ShutdownFails, Stop, storage, dispatching, history, DurableInv,
      FlowBehind, Committing, RequestCurrent, WebCurrent, UpdateKind,
      RebaseDurable, NeverLessRestrictive
<1>4. CASE RestartRefused
  BY <1>4
  DEF RestartRefused, vars, storage, DurableInv, FlowBehind, Committing,
      RequestCurrent, WebCurrent, UpdateKind, RebaseDurable,
      NeverLessRestrictive
<1> QED
  BY <1>1, <1>2, <1>3, <1>4

(* A commit of cash flows puts back what the file has superseded since, and *)
(* what the runtime is ahead of.                                           *)
LEMMA FlowDurable ==
  ASSUME TypeOK, DurableInv, FlowStep
  PROVE  DurableInv'
<1>1. /\ UNCHANGED <<app, snap, accepted, request, pc, web>>
      /\ \/ file' = file /\ overwritten' = overwritten
         \/ FlowReplaces
  BY DEF FlowStep, FlowReads, FlowGivesUp, FlowPrepares, FlowReplaces,
     FlowEnds, Others, dispatching, history
<1>2. /\ file.rank \in Int /\ flow.state.rank \in Int /\ snap.rank \in Int
      /\ file.rebases \in Int /\ flow.state.rebases \in Int
      /\ snap.rebases \in Int /\ accepted \in Int
  BY RankNumbers DEF TypeOK, SnapType
<1>3. FlowBehind'
  <2>1. CASE FlowReads
    BY <1>2, <2>1 DEF FlowReads, FlowBehind, Committing
  <2>2. CASE FlowPrepares
    BY <2>2 DEF FlowPrepares, FlowBehind, Committing, DurableInv, TypeOK
  <2>3. CASE FlowGivesUp \/ FlowEnds
    BY <2>3 DEF FlowGivesUp, FlowEnds, FlowBehind, Committing, NoFlow
  <2>4. CASE FlowReplaces
    BY <1>2, <2>4 DEF FlowReplaces, FlowBehind
  <2> QED
    BY <2>1, <2>2, <2>3, <2>4 DEF FlowStep
<1>4. /\ file'.rebases <= snap'.rebases
      /\ RebaseDurable' /\ NeverLessRestrictive'
  <2>1. CASE file' = file /\ overwritten' = overwritten
    BY <1>1, <2>1 DEF DurableInv, RebaseDurable, NeverLessRestrictive
  <2>2. CASE FlowReplaces
    <3>1. Committing /\ file' = flow.state /\ overwritten' = TRUE
      BY <2>2 DEF FlowReplaces, Committing
    <3>2. \/ file.rebases > flow.state.rebases
          \/ file.rebases = flow.state.rebases /\ file.rank >= flow.state.rank
      BY <3>1 DEF DurableInv, FlowBehind
    <3>3. file.rebases <= snap.rebases /\ accepted <= snap.rebases
      BY DEF DurableInv
    <3>4. app = "running" =>
            snap.rebases > file.rebases \/ snap.rank >= file.rank
      BY DEF DurableInv, NeverLessRestrictive
    <3> QED
      BY <1>1, <1>2, <3>1, <3>2, <3>3, <3>4
      DEF RebaseDurable, NeverLessRestrictive
  <2> QED
    BY <1>1, <2>1, <2>2
<1> QED
  BY <1>1, <1>3, <1>4
  DEF DurableInv, RequestCurrent, WebCurrent, UpdateKind

LEMMA InitDurable == Init => DurableInv
BY RankNumbers, RanksOrdered
DEF Init, DurableInv, FlowBehind, Committing, NoFlow, RequestCurrent, WebCurrent, UpdateKind, RebaseDurable,
    NeverLessRestrictive, Snapshot, Durable, NoRequest, NoCall, Threads,
    HookThreads

(* The steps that take an update, and the others. *)
Taking ==
  \/ \E t \in Threads : Apply(t)
  \/ \E saved \in BOOLEAN : HttpUpdate(saved)
  \/ Shutdown

LEMMA NextDurable ==
  ASSUME TypeOK, DurableInv, TypeOK', [Next]_vars
  PROVE  DurableInv'
<1>0. Gate \in Threads
  BY DEF Threads, HookThreads
<1>1. CASE UNCHANGED vars
  BY <1>1 DEF vars, storage, DurableInv, FlowBehind, Committing, RequestCurrent, WebCurrent, UpdateKind,
     RebaseDurable, NeverLessRestrictive
<1>2. ASSUME NEW t \in Threads, ThreadStep(t) PROVE DurableInv'
  <2>1. CASE \E kind \in Kinds, at \in 0..MaxClock : Dispatch(t, kind, at)
    BY <2>1, DispatchDurable
  <2>2. CASE Apply(t)
    BY <2>2, ApplyDurable
  <2>3. CASE \/ \E kind \in Kinds, at \in 0..MaxClock :
                  \/ DispatchRepeats(t, kind, at) \/ Baseline(t, kind, at)
                  \/ DispatchFails(t, kind, at)
             \/ ApplyRefused(t) \/ RecordApplied(t) \/ WriteApplied(t)
             \/ VerifyApplied(t) \/ View(t) \/ Publish(t)
    BY <2>3, SilentSteps, SilentDurable
  <2> QED
    BY <1>2, <2>1, <2>2, <2>3 DEF ThreadStep
<1>3. CASE \/ RecordHttp \/ GateUnavailable \/ Refreshed \/ GuardAllows
           \/ GateRefuses \/ HttpRefused \/ Observe
  BY <1>0, <1>3, SilentSteps, SilentDurable
<1>4. CASE \/ \E kind \in {"rebase", "peak", "recover", "config"} :
                HttpCall(kind)
           \/ \E saved \in BOOLEAN : HttpUpdate(saved)
           \/ Invalidate
  BY <1>4, HttpCallDurable, HttpUpdateDurable, InvalidateDurable
<1>5. CASE Restart \/ RestartRefused \/ Shutdown \/ ShutdownFails \/ Crash
  BY <1>5, ProcessDurable
<1>6. CASE FlowStep
  BY <1>6, FlowDurable
<1> QED
  BY <1>1, <1>2, <1>3, <1>4, <1>5, <1>6 DEF Next, FlowStep

(* The strengthening behind the durability of the loss state: an update in *)
(* flight, of an evaluation or of an HTTP call, adds to the authority      *)
(* records of the revision it was made from.                               *)
THEOREM DurabilityInvariant == Spec => []DurableInv
<1>1. TypeOK /\ DurableInv /\ TypeOK' /\ [Next]_vars => DurableInv'
  BY NextDurable
<1> QED
  BY <1>1, InitDurable, TypeCorrect, PTL DEF Spec

(* An authority record confirmed to the operator is on disk, whatever      *)
(* saves fail and whenever the process dies; or a commit of cash flows has *)
(* overwritten it, and the runtime has it still.                           *)
THEOREM ConfirmedRecordsAreDurable == Spec => []RebaseDurable
<1>1. DurableInv => RebaseDurable
  BY DEF DurableInv
<1> QED
  BY <1>1, DurabilityInvariant, PTL

(* The runtime is never less restrictive than the disk, unless by an       *)
(* authority record it has yet to save.                                    *)
THEOREM RuntimeNeverLessRestrictive == Spec => []NeverLessRestrictive
<1>1. DurableInv => NeverLessRestrictive
  BY DEF DurableInv
<1> QED
  BY <1>1, DurabilityInvariant, PTL

LEMMA FileSteps ==
  ASSUME TypeOK, DurableInv, [Next]_vars, file' # file
  PROVE  Takes \/ FlowReplaces
<1>0. Gate \in Threads
  BY DEF Threads, HookThreads
<1>1. Taking \/ FlowReplaces
  <2>1. ASSUME NEW t \in Threads, ThreadStep(t) PROVE Apply(t)
    <3>1. CASE \E kind \in Kinds, at \in 0..MaxClock : Dispatch(t, kind, at)
      BY <3>1 DEF Dispatch, runtime, storage
    <3>2. CASE \/ \E kind \in Kinds, at \in 0..MaxClock :
                    \/ DispatchRepeats(t, kind, at) \/ Baseline(t, kind, at)
                    \/ DispatchFails(t, kind, at)
               \/ ApplyRefused(t) \/ RecordApplied(t) \/ WriteApplied(t)
               \/ VerifyApplied(t) \/ View(t) \/ Publish(t)
      BY <3>2, SilentSteps DEF Silent, storage
    <3> QED
      BY <2>1, <3>1, <3>2 DEF ThreadStep
  <2>2. ~(\/ RecordHttp \/ GateUnavailable \/ Refreshed \/ GuardAllows
          \/ GateRefuses \/ HttpRefused \/ Observe)
    BY <1>0, SilentSteps DEF Silent, storage
  <2>3. ~(\/ \E kind \in {"rebase", "peak", "recover", "config"} :
               HttpCall(kind)
          \/ Invalidate \/ Restart \/ RestartRefused \/ ShutdownFails
          \/ Crash)
    BY DEF HttpCall, Invalidate, Restart, RestartRefused, ShutdownFails,
       Crash, Reloads, vars, runtime, storage
  <2>4. ~UNCHANGED vars
    BY DEF vars, storage
  <2>5. FlowStep => FlowReplaces
    BY DEF FlowStep, FlowReads, FlowGivesUp, FlowPrepares, FlowEnds
  <2> QED
    BY <2>1, <2>2, <2>3, <2>4, <2>5 DEF Next, Taking, FlowStep
<1>2. CASE \E t \in Threads : Apply(t)
  BY <1>2, ApplyTakes
<1>3. CASE \E saved \in BOOLEAN : HttpUpdate(saved)
  BY <1>3, HttpTakes
<1>4. CASE Shutdown
  BY <1>4, ShutdownTakes
<1> QED
  BY <1>1, <1>2, <1>3, <1>4 DEF Taking

(* No restart, lost save or later evaluation makes the file less strict:   *)
(* only an authority record does, and a commit of cash flows that puts     *)
(* back what it had read, for any number of them.                          *)
THEOREM WhatRelaxesTheFile == Spec => LockOutlivesRestart
<1> DEFINE PutsBack == flow.stage = "pending" /\ file' = flow.state
<1>1. ASSUME TypeOK, DurableInv, TypeOK', [Next]_vars
      PROVE  file'.rank < file.rank => file'.rebases > file.rebases \/ PutsBack
  <2> SUFFICES ASSUME file'.rank < file.rank, ~PutsBack
               PROVE  file'.rebases > file.rebases
    OBVIOUS
  <2>1. /\ file.rank \in Int /\ file'.rank \in Int
        /\ snap.rank \in Int /\ snap'.rank \in Int
        /\ file.rebases \in Int /\ file'.rebases \in Int
        /\ snap.rebases \in Int /\ snap'.rebases \in Int
    BY <1>1, RankNumbers DEF TypeOK, SnapType
  <2>2. file' # file
    BY <2>1
  <2>3. Takes
    BY <1>1, <2>2, FileSteps DEF FlowReplaces
  <2>4. /\ file.rebases <= snap.rebases
        /\ snap.rebases > file.rebases \/ snap.rank >= file.rank
    BY <1>1, <2>3 DEF DurableInv, NeverLessRestrictive, Takes
  <2>5. Saves(snap')
    BY <2>2, <2>3 DEF Takes, storage
  <2>6. file'.rank = snap'.rank /\ file'.rebases = snap'.rebases
    BY <2>5 DEF Saves, Durable
  <2> QED
    BY <2>1, <2>3, <2>4, <2>6 DEF Takes
<1>2. TypeOK /\ DurableInv /\ TypeOK' /\ [Next]_vars =>
        [file'.rank < file.rank =>
           file'.rebases > file.rebases \/ PutsBack]_vars
  BY <1>1
<1> QED
  BY <1>2, TypeCorrect, DurabilityInvariant, PTL DEF Spec, LockOutlivesRestart

(* An update taken, in LossRecord's terms: the runtime's state may follow   *)
(* the one before it, and is saved or not.                                 *)
LEMMA TakesSupersede ==
  ASSUME TypeOK, TypeOK', Takes
  PROVE  /\ Record!Supersedes(Durable(snap'), Durable(snap))
         /\ Record!Save \/ UNCHANGED <<file, ReadEarlier, overwritten>>
         /\ Saves(snap') => Record!Save
<1>1. /\ snap.rank \in Int /\ snap'.rank \in Int
      /\ snap.rebases \in Int /\ snap'.rebases \in Int
  BY RankNumbers DEF TypeOK, SnapType
<1>2. Record!Supersedes(Durable(snap'), Durable(snap))
  BY <1>1 DEF Takes, Record!Supersedes, Durable
<1>3. UNCHANGED storage => UNCHANGED <<file, ReadEarlier, overwritten>>
  BY DEF storage, ReadEarlier, Committing
<1>4. ASSUME Saves(snap') PROVE Record!Save
  <2>1. flow' = flow \/ (flow'.stage = "stuck" /\ flow.stage = "pending")
    BY <1>4 DEF Saves, NoFlow
  <2> QED
    BY <1>4, <2>1 DEF Saves, Record!Save, ReadEarlier, Committing
<1> QED BY <1>2, <1>3, <1>4 DEF Takes

LEMMA RecordStep ==
  ASSUME TypeOK, DurableInv, TypeOK', [Next]_vars
  PROVE  [Record!Next]_(Record!vars)
<1> USE DEF Record!Next, Record!vars
<1>0. Gate \in Threads
  BY DEF Threads, HookThreads
<1>1. Silent \/ UNCHANGED <<runtime, accepted>>
      => UNCHANGED Record!vars
  BY DEF Silent, runtime, storage, Durable, ReadEarlier, Committing
<1>2. ASSUME NEW t \in Threads, ThreadStep(t)
      PROVE  Record!Take \/ UNCHANGED Record!vars
  <2>1. CASE \E kind \in Kinds, at \in 0..MaxClock : Dispatch(t, kind, at)
    BY <1>1, <2>1 DEF Dispatch
  <2>2. CASE \/ \E kind \in Kinds, at \in 0..MaxClock :
                  \/ DispatchRepeats(t, kind, at) \/ Baseline(t, kind, at)
                  \/ DispatchFails(t, kind, at)
             \/ ApplyRefused(t) \/ RecordApplied(t) \/ WriteApplied(t)
             \/ VerifyApplied(t) \/ View(t) \/ Publish(t)
    BY <1>1, <2>2, SilentSteps
  <2>3. CASE Apply(t)
    BY <1>2, <2>3, ApplyTakes, TakesSupersede DEF Record!Take, Apply
  <2> QED BY <1>2, <2>1, <2>2, <2>3 DEF ThreadStep
<1>3. CASE \/ RecordHttp \/ GateUnavailable \/ Refreshed \/ GuardAllows
           \/ GateRefuses \/ HttpRefused \/ Observe
  BY <1>0, <1>1, <1>3, SilentSteps
<1>4. CASE \/ UNCHANGED vars \/ Invalidate \/ ShutdownFails
           \/ RestartRefused
           \/ \E kind \in {"rebase", "peak", "recover", "config"} :
                HttpCall(kind)
  BY <1>4 DEF vars, Invalidate, ShutdownFails, RestartRefused, HttpCall,
              runtime, storage, history, Stop, Durable, ReadEarlier, Committing
<1>5. ASSUME NEW saved \in BOOLEAN, HttpUpdate(saved)
      PROVE  Record!Take \/ Record!Confirm
  <2>1. /\ Takes /\ snap'.rebases = web.rebases
        /\ snap'.rebases > snap.rebases
    BY <1>5, HttpTakes
  <2>2. CASE saved
    <3>1. Record!Save
      BY <1>5, <2>2, HttpTakes, TakesSupersede
    <3>2. accepted' = web.rebases
      BY <1>5, <2>2 DEF HttpUpdate, Confirms
    <3> QED BY <2>1, <3>1, <3>2 DEF Record!Confirm, Durable
  <2>3. CASE ~saved
    <3>1. accepted' = accepted
      BY <1>5, <2>3 DEF HttpUpdate, Confirms
    <3> QED BY <2>1, <3>1, TakesSupersede DEF Record!Take
  <2> QED BY <2>2, <2>3
<1>6. CASE Shutdown
  BY <1>6, ShutdownTakes, TakesSupersede DEF Record!Take, Shutdown, history
<1>7. CASE Restart \/ Crash
  <2>1. /\ Reloads
        /\ flow' = flow \/ flow' = NoFlow
    BY <1>7 DEF Restart, Crash
  <2>2. Durable(snap') = [rank |-> file.rank, rebases |-> file.rebases]
    BY <2>1 DEF Reloads, Snapshot, Durable
  <2>3. file = [rank |-> file.rank, rebases |-> file.rebases]
    BY DEF TypeOK
  <2>4. ReadEarlier' \in {ReadEarlier, {}}
    BY <2>1 DEF ReadEarlier, Committing, NoFlow
  <2> QED BY <2>1, <2>2, <2>3, <2>4 DEF Record!Reload, Reloads
<1>8. CASE FlowStep
  <2>1. UNCHANGED <<Durable(snap), accepted>>
    BY <1>8
    DEF FlowStep, FlowReads, FlowGivesUp, FlowPrepares, FlowReplaces,
        FlowEnds, Others, history, Durable
  <2>2. CASE FlowReads
    BY <2>1, <2>2 DEF FlowReads, ReadEarlier, Committing, Record!Read
  <2>3. CASE FlowGivesUp \/ FlowEnds
    BY <2>1, <2>3
    DEF FlowGivesUp, FlowEnds, ReadEarlier, Committing, NoFlow, Record!GiveUp
  <2>4. CASE FlowPrepares
    BY <2>1, <2>4 DEF FlowPrepares, ReadEarlier, Committing, TypeOK
  <2>5. CASE FlowReplaces
    <3>1. ReadEarlier = {file'} /\ UNCHANGED ReadEarlier
      BY <2>5 DEF FlowReplaces, ReadEarlier, Committing
    <3>2. Record!Supersedes(file, file')
      BY <2>5 DEF FlowReplaces, DurableInv, FlowBehind, Committing,
                  Record!Supersedes
    <3> QED
      BY <2>1, <2>5, <3>1, <3>2 DEF FlowReplaces, Record!PutBack
  <2> QED
    BY <1>8, <2>2, <2>3, <2>4, <2>5 DEF FlowStep
<1> QED BY <1>2, <1>3, <1>4, <1>5, <1>6, <1>7, <1>8 DEF Next, FlowStep

(* Memory and file implement LossRecord: the state only becomes stricter   *)
(* or gains a record, a record confirmed was saved first, a commit of cash *)
(* flows puts back nothing but what it read, and the end of a process      *)
(* costs nothing but what was not on disk.                                 *)
THEOREM UpdatesRefineRecord == Spec => ImplementsRecord
<1>1. Init => Record!Init
  BY DEF Init, Record!Init, Snapshot, Durable, ReadEarlier, Committing, NoFlow
<1>2. TypeOK /\ DurableInv /\ TypeOK' /\ [Next]_vars
        => [Record!Next]_(Record!vars)
  BY RecordStep
<1> QED
  BY <1>1, <1>2, TypeCorrect, DurabilityInvariant, PTL
     DEF Spec, ImplementsRecord, Record!Spec

-----------------------------------------------------------------------------
(* Admission.  While the runtime keeps its state, a step may publish or    *)
(* build a projection that is unknown, that was there before, or that is   *)
(* true of the state.                                                      *)

Truth(p) == p.rev = snap.rev /\ (p.entry = "ALLOW" => Continues(snap.rank))
Known(p) ==
  p = NoView \/ p = published \/ (\E t \in Threads : p = view[t]) \/ Truth(p)

Publishes ==
  /\ snap' = snap
  /\ event'.rank = event.rank \/ event'.rank = Normal
  /\ Known(published') /\ \A t \in Threads : Known(view'[t])
  /\ \/ /\ since' = since /\ heard' = heard
        /\ Looked' => \/ Looked /\ view'[Gate].rev = view[Gate].rev
                      \/ view'[Gate].rev = snap.rev
     \/ ~Looked' /\ since' <= snap.rev /\ heard' <= snap.rank

LEMMA PublishesSound ==
  ASSUME TypeOK, AdmissionInv, TypeOK', Publishes
  PROVE  AdmissionInv'
<1>0. Gate \in Threads
  BY DEF Threads, HookThreads
<1>1. /\ snap.rev \in Nat /\ snap.rank \in Int /\ snap.rank >= 0
      /\ event.rank \in Int /\ heard \in Int /\ heard' \in Int
      /\ since \in Nat /\ since' \in Nat
      /\ view[Gate].rev \in Nat /\ view'[Gate].rev \in Nat
  <2>1. \A rank \in Ranks : rank >= 0
    <3>1. Ranks \subseteq 0..3
      BY RanksOrdered DEF Normal, Locked
    <3> QED
      BY <3>1
  <2> QED
    BY <1>0, <2>1, RankNumbers DEF TypeOK, SnapType, ViewType
<1>2. ASSUME NEW p, Known(p)
      PROVE  /\ p.rev <= snap.rev
             /\ Permits(p, snap.rev) => Continues(snap.rank)
             /\ AgreesWithGate(p)
  <2>1. CASE p = NoView
    BY <1>1, <2>1 DEF NoView, Permits, AgreesWithGate
  <2>2. CASE p = published \/ \E t \in Threads : p = view[t]
    BY <2>2 DEF AdmissionInv, PermitsTruly
  <2>3. CASE Truth(p)
    <3>1. heard <= snap.rank
      BY DEF AdmissionInv
    <3> QED
      BY <1>1, <2>3, <3>1 DEF Truth, Permits, AgreesWithGate, Continues
  <2> QED
    BY <1>2, <2>1, <2>2, <2>3 DEF Known
<1>3. /\ since' <= snap.rev /\ heard' <= snap.rank
      /\ Looked' => since' <= view'[Gate].rev
      /\ event'.rank <= snap.rank
  BY <1>1 DEF Publishes, AdmissionInv, Normal
<1>4. ASSUME NEW p, Known(p)
      PROVE  Looked' /\ Permits(p, view'[Gate].rev) => Continues(heard')
  <2> SUFFICES ASSUME Looked', Permits(p, view'[Gate].rev)
               PROVE  Continues(heard')
    OBVIOUS
  <2>1. heard' = heard
    BY DEF Publishes
  <2>2. CASE Looked /\ view'[Gate].rev = view[Gate].rev
    BY <1>2, <1>4, <2>1, <2>2 DEF AgreesWithGate, Permits
  <2>3. CASE view'[Gate].rev = snap.rev
    <3>1. Continues(snap.rank)
      BY <1>2, <1>4, <2>3 DEF Permits
    <3> QED
      BY <1>1, <1>3, <3>1 DEF Continues
  <2> QED
    BY <2>2, <2>3 DEF Publishes
<1>5. /\ Known(published') /\ \A t \in Threads : Known(view'[t])
      /\ snap' = snap
  BY DEF Publishes
<1>6. PermitsTruly(published)' /\ AgreesWithGate(published)'
  BY <1>2, <1>4, <1>5 DEF PermitsTruly, AgreesWithGate, Permits, Looked
<1>7. ASSUME NEW t \in Threads
      PROVE  PermitsTruly(view[t])' /\ AgreesWithGate(view[t])'
  BY <1>2, <1>4, <1>5 DEF PermitsTruly, AgreesWithGate, Permits, Looked
<1> QED
  BY <1>3, <1>5, <1>6, <1>7 DEF AdmissionInv

(* An update the runtime takes leaves every projection behind it. *)
Leaves ==
  /\ snap'.rev = snap.rev + 1
  /\ published' = published /\ view' = view /\ since' = since
  /\ Looked' => Looked /\ heard' \in {heard, Normal}
  /\ heard' <= snap'.rank /\ event'.rank <= snap'.rank

LEMMA LeavesSound ==
  ASSUME TypeOK, AdmissionInv, TypeOK', Leaves
  PROVE  AdmissionInv'
<1>0. Gate \in Threads
  BY DEF Threads, HookThreads
<1>1. snap.rev \in Nat /\ since \in Nat /\ view[Gate].rev \in Nat
  BY <1>0 DEF TypeOK, SnapType, ViewType
<1>2. ASSUME NEW p, p.rev \in Nat, PermitsTruly(p), AgreesWithGate(p)
      PROVE  /\ p.rev <= snap'.rev /\ p.rev # snap'.rev
             /\ Looked' /\ Permits(p, view'[Gate].rev) => Continues(heard')
  BY <1>1, <1>2
  DEF Leaves, PermitsTruly, AgreesWithGate, Permits, Continues, Normal
<1>3. /\ published.rev \in Nat
      /\ PermitsTruly(published) /\ AgreesWithGate(published)
      /\ \A t \in Threads : /\ view[t].rev \in Nat
                            /\ PermitsTruly(view[t]) /\ AgreesWithGate(view[t])
  BY DEF AdmissionInv, TypeOK, ViewType
<1>4. PermitsTruly(published)' /\ AgreesWithGate(published)'
  BY <1>2, <1>3 DEF Leaves, PermitsTruly, AgreesWithGate, Permits, Looked
<1>5. ASSUME NEW t \in Threads
      PROVE  PermitsTruly(view[t])' /\ AgreesWithGate(view[t])'
  BY <1>2, <1>3 DEF Leaves, PermitsTruly, AgreesWithGate, Permits, Looked
<1>6. since' <= snap'.rev
  BY <1>1 DEF Leaves, AdmissionInv
<1>7. Looked' => since' <= view'[Gate].rev
  BY DEF Leaves, AdmissionInv
<1> QED
  BY <1>4, <1>5, <1>6, <1>7 DEF AdmissionInv, Leaves

LEMMA KnownKept ==
  ASSUME published' = published \/ published' = NoView
           \/ (\E t \in Threads : published' = view[t]),
         \A t \in Threads :
           view'[t] = view[t] \/ view'[t] = NoView \/ Truth(view'[t])
  PROVE  Known(published') /\ \A t \in Threads : Known(view'[t])
BY DEF Known

LEMMA ProjectionTrue ==
  ASSUME NEW status, NEW v \in {Projection(status), Torn}
  PROVE  Truth(v)
BY DEF Truth, Projection, Torn

LEMMA DispatchAdmission ==
  ASSUME TypeOK, AdmissionInv, TypeOK', NEW t \in Threads, NEW kind \in Kinds,
         NEW at \in 0..MaxClock,
         \/ Dispatch(t, kind, at) \/ DispatchRepeats(t, kind, at)
         \/ Baseline(t, kind, at) \/ DispatchFails(t, kind, at)
  PROVE  AdmissionInv'
<1>0. Gate \in Threads /\ Gate # Http
  BY DEF Threads, HookThreads, Gate, Http
<1>1. /\ snap' = snap /\ view' = view
      /\ published' = published \/ published' = NoView
  BY DEF Dispatch, DispatchRepeats, Baseline, DispatchFails, Recorded, runtime, storage
<1>2. event'.rank = event.rank \/ event'.rank = Normal
  BY DEF Dispatch, DispatchRepeats, Baseline, DispatchFails, dispatching,
     Normal
<1>3. t # Gate => /\ since' = since /\ heard' = heard
                  /\ Looked' => Looked
  BY <1>0
  DEF Dispatch, DispatchRepeats, Baseline, DispatchFails, Asked, Recorded,
      history, Looked, TypeOK
<1>4. t = Gate => /\ ~Looked'
                  /\ \/ since' = since /\ heard' = heard
                     \/ since' = snap.rev /\ heard' \in {Normal, event.rank}
  BY <1>0
  DEF Dispatch, DispatchRepeats, Baseline, DispatchFails, Asked, Recorded,
      history, Looked, TypeOK
<1>5. /\ since <= snap.rev /\ heard <= snap.rank /\ event.rank <= snap.rank
      /\ Normal <= snap.rank /\ snap.rev <= snap.rev
  <2>1. Ranks \subseteq 0..3
    BY RanksOrdered DEF Normal, Locked
  <2>2. snap.rank \in 0..3 /\ snap.rev \in Nat
    BY <2>1 DEF TypeOK, SnapType
  <2> QED
    BY <2>2 DEF AdmissionInv, Normal
<1>6. Known(published') /\ \A u \in Threads : Known(view'[u])
  BY <1>1, KnownKept
<1>7. Publishes
  BY <1>0, <1>1, <1>2, <1>3, <1>4, <1>5, <1>6 DEF Publishes
<1> QED
  BY <1>7, PublishesSound

LEMMA PublishingAdmission ==
  ASSUME TypeOK, AdmissionInv, TypeOK', NEW t \in Threads,
         \/ ApplyRefused(t) \/ RecordApplied(t) \/ WriteApplied(t)
         \/ VerifyApplied(t) \/ View(t) \/ Publish(t)
  PROVE  AdmissionInv'
<1>0. Gate \in Threads /\ Gate # Http
  BY DEF Threads, HookThreads, Gate, Http
<1>1. /\ snap' = snap /\ event' = event
      /\ \/ published' = published \/ published' = NoView
         \/ published' = view[t]
  BY DEF ApplyRefused, RecordApplied, WriteApplied, VerifyApplied, View,
     Publish, Recorded, runtime, storage, dispatching
<1>2. \A u \in Threads :
        view'[u] = view[u] \/ view'[u] = NoView \/ Truth(view'[u])
  BY ProjectionTrue
  DEF ApplyRefused, RecordApplied, WriteApplied, VerifyApplied, View,
      Publish, TypeOK
<1>3. Known(published') /\ \A u \in Threads : Known(view'[u])
  BY <1>1, <1>2, KnownKept
<1>4. /\ since <= snap.rev /\ heard <= snap.rank
      /\ 0 <= snap.rank /\ 0 <= snap.rev
  <2>1. Ranks \subseteq 0..3
    BY RanksOrdered DEF Normal, Locked
  <2>2. snap.rank \in 0..3 /\ snap.rev \in Nat
    BY <2>1 DEF TypeOK, SnapType
  <2> QED
    BY <2>2 DEF AdmissionInv
<1>5. \/ /\ since' = since /\ heard' = heard
         /\ Looked' => \/ Looked /\ view'[Gate].rev = view[Gate].rev
                       \/ view'[Gate].rev = snap.rev
      \/ ~Looked' /\ since' <= snap.rev /\ heard' <= snap.rank
  <2>1. CASE ApplyRefused(t)
    BY <1>0, <1>4, <2>1
    DEF ApplyRefused, Recorded, Looked, TypeOK
  <2>2. CASE RecordApplied(t) \/ WriteApplied(t) \/ VerifyApplied(t)
    <3>1. since' = since /\ heard' = heard
      BY <2>2 DEF RecordApplied, WriteApplied, VerifyApplied, history
    <3>2. t = Gate => ~Looked'
      BY <1>0, <2>2
      DEF RecordApplied, WriteApplied, VerifyApplied, Stage, Looked, TypeOK
    <3>3. t # Gate => (Looked' => Looked) /\ view'[Gate] = view[Gate]
      BY <1>0, <2>2
      DEF RecordApplied, WriteApplied, VerifyApplied, Stage, Looked, TypeOK
    <3> QED
      BY <1>4, <3>1, <3>2, <3>3
  <2>3. CASE View(t)
    <3>1. since' = since /\ heard' = heard
      BY <2>3 DEF View, history
    <3>2. t = Gate => view'[Gate].rev = snap.rev
      BY <1>0, <2>3 DEF View, Projection, Torn, TypeOK
    <3>3. t # Gate => (Looked' => Looked) /\ view'[Gate] = view[Gate]
      BY <1>0, <2>3 DEF View, Stage, Looked, TypeOK
    <3> QED
      BY <3>1, <3>2, <3>3
  <2>4. CASE Publish(t)
    <3>1. since' = since /\ heard' = heard
      BY <2>4 DEF Publish, history
    <3>2. (Looked' => Looked) /\ view'[Gate] = view[Gate]
      BY <1>0, <2>4 DEF Publish, Stage, Looked, TypeOK
    <3> QED
      BY <3>1, <3>2
  <2> QED
    BY <2>1, <2>2, <2>3, <2>4
<1>6. Publishes
  BY <1>1, <1>3, <1>5 DEF Publishes
<1> QED
  BY <1>6, PublishesSound

LEMMA OthersAdmission ==
  ASSUME TypeOK, AdmissionInv, TypeOK',
         \/ RecordHttp \/ GateUnavailable \/ Refreshed \/ GuardAllows
         \/ GateRefuses \/ HttpRefused \/ Observe \/ Invalidate
         \/ \E kind \in {"rebase", "peak", "recover", "config"} :
              HttpCall(kind)
         \/ ShutdownFails
  PROVE  AdmissionInv'
<1>0. Gate \in Threads /\ Gate # Http
  BY DEF Threads, HookThreads, Gate, Http
<1>1. /\ snap' = snap /\ event' = event
      /\ published' = published \/ published' = NoView
  BY DEF RecordHttp, GateUnavailable, Refreshed, GuardAllows, GateRefuses,
     HttpRefused, Observe, Invalidate, HttpCall, ShutdownFails, runtime, storage,
     dispatching
<1>2. \A u \in Threads : view'[u] = view[u] \/ view'[u] = NoView
  BY DEF RecordHttp, GateUnavailable, Refreshed, GuardAllows, GateRefuses,
     HttpRefused, Observe, Invalidate, HttpCall, ShutdownFails, TypeOK
<1>3. Known(published') /\ \A u \in Threads : Known(view'[u])
  BY <1>1, <1>2, KnownKept
<1>4. 0 <= snap.rank /\ 0 <= snap.rev
  <2>1. Ranks \subseteq 0..3
    BY RanksOrdered DEF Normal, Locked
  <2>2. snap.rank \in 0..3 /\ snap.rev \in Nat
    BY <2>1 DEF TypeOK, SnapType
  <2> QED
    BY <2>2
<1>5. \/ /\ since' = since /\ heard' = heard
         /\ Looked' => Looked /\ view'[Gate].rev = view[Gate].rev
      \/ ~Looked' /\ since' <= snap.rev /\ heard' <= snap.rank
  <2>1. CASE \/ RecordHttp \/ HttpRefused \/ Observe \/ Invalidate
             \/ \E kind \in {"rebase", "peak", "recover", "config"} :
                  HttpCall(kind)
             \/ ShutdownFails
    <3>1. since' = since /\ heard' = heard /\ view' = view
      BY <2>1 DEF RecordHttp, HttpRefused, Observe, Invalidate, HttpCall,
         ShutdownFails, history
    <3>2. pc'[Gate] = pc[Gate]
      BY <1>0, <2>1 DEF RecordHttp, HttpRefused, Observe, Invalidate,
         HttpCall, ShutdownFails, Stop, Stage, TypeOK
    <3> QED
      BY <3>1, <3>2 DEF Looked
  <2>2. CASE GateUnavailable \/ GuardAllows \/ GateRefuses
    BY <1>0, <1>4, <2>2
    DEF GateUnavailable, GuardAllows, GateRefuses, Looked, TypeOK
  <2>3. CASE Refreshed
    BY <1>0, <2>3, <1>4 DEF Refreshed, Stage, Looked, TypeOK, history,
       AdmissionInv
  <2> QED
    BY <2>1, <2>2, <2>3
<1>6. Publishes
  BY <1>1, <1>3, <1>5 DEF Publishes
<1> QED
  BY <1>6, PublishesSound

LEMMA TakingAdmission ==
  ASSUME TypeOK, AdmissionInv, TypeOK', Taking
  PROVE  AdmissionInv'
<1>0. Gate \in Threads /\ Gate # Http
  BY DEF Threads, HookThreads, Gate, Http
<1>1. \A rank \in Ranks : rank \in Int /\ rank >= 0
  <2>1. Ranks \subseteq 0..3
    BY RanksOrdered DEF Normal, Locked
  <2> QED
    BY <2>1
<1>2. /\ snap.rank \in Ranks /\ event.rank \in Ranks /\ heard \in Ranks
      /\ heard <= snap.rank /\ event.rank <= snap.rank
  BY DEF TypeOK, SnapType, AdmissionInv
<1>3. ASSUME NEW t \in Threads, Apply(t) PROVE Leaves
  <2>1. /\ request.rank \in Ranks /\ request.rebases \in 0..MaxRebases
        /\ request.at \in Nat
    BY DEF TypeOK
  <2>2. snap'.rev = snap.rev + 1 /\ snap'.rank = request.rank
    BY <1>3, <2>1, UpdatedTyped DEF Apply
  <2>3. /\ published' = published /\ view' = view /\ since' = since
        /\ request.rank >= snap.rank \/ request.relax
    BY <1>3 DEF Apply, Acceptable
  <2>4. event'.rank = request.rank
    BY <1>3 DEF Apply, TypeOK
  <2>5. heard' = IF t = Gate THEN request.rank
                 ELSE IF request.relax THEN Normal ELSE heard
    BY <1>3 DEF Apply, Supersedes
  <2>6. /\ t = Gate => ~Looked'
        /\ Looked' => Looked
    BY <1>0, <1>3 DEF Apply, Stage, Looked, TypeOK
  <2>7. heard' <= snap'.rank
    BY <1>1, <1>2, <2>1, <2>2, <2>3, <2>5 DEF Normal
  <2>8. event'.rank <= snap'.rank
    BY <1>1, <2>1, <2>2, <2>4
  <2> QED
    BY <2>2, <2>3, <2>5, <2>6, <2>7, <2>8 DEF Leaves
<1>4. ASSUME NEW saved \in BOOLEAN, HttpUpdate(saved) PROVE Leaves
  <2>1. snap' = Updated(WebRequest) /\ Acceptable(WebRequest)
    BY <1>4 DEF HttpUpdate
  <2>2. /\ snap'.rev = snap.rev + 1 /\ snap'.rank = web.rank
        /\ web.rank \in Ranks
        /\ web.rank >= snap.rank \/ web.kind = "peak"
    BY <2>1, WebRequestTyped, UpdatedTyped DEF Acceptable
  <2>3. published' = published /\ view' = view /\ since' = since
    BY <1>4 DEF HttpUpdate
  <2>4. /\ web.kind = "peak" => heard' = Normal /\ event'.rank = Normal
        /\ web.kind # "peak" => heard' = heard /\ event'.rank = event.rank
    BY <1>4 DEF HttpUpdate, TypeOK, Normal
  <2>5. Looked' => Looked
    BY <1>0, <1>4 DEF HttpUpdate, Looked, TypeOK
  <2>6. heard' <= snap'.rank /\ event'.rank <= snap'.rank
    BY <1>1, <1>2, <2>2, <2>4 DEF Normal
  <2>7. heard' \in {heard, Normal}
    BY <2>4
  <2> QED
    BY <2>2, <2>3, <2>5, <2>6, <2>7 DEF Leaves
<1>5. ASSUME Shutdown PROVE Leaves
  <2>1. /\ snap'.rev = snap.rev + 1 /\ snap'.rank = snap.rank
        /\ published' = published /\ view' = view /\ since' = since
        /\ heard' = heard /\ event' = event /\ pc' = pc
    BY <1>5 DEF Shutdown, TypeOK, SnapType, dispatching, history
  <2> QED
    BY <1>2, <2>1 DEF Leaves, Looked
<1>6. Leaves
  BY <1>3, <1>4, <1>5 DEF Taking
<1> QED
  BY <1>6, LeavesSound

LEMMA LoadingAdmission ==
  ASSUME TypeOK, Restart \/ Crash
  PROVE  AdmissionInv'
<1>1. /\ snap' = Snapshot(1, file.rank, file.rebases, clock) /\ Volatile
      /\ published'.rev <= 1
      /\ published'.entry = "ALLOW" => Continues(file.rank)
  BY DEF Restart, Crash, Reloads, NoView
<1>2. snap'.rev = 1 /\ snap'.rank = file.rank
  BY <1>1, LoadedTyped
<1>3. file.rank >= 0
  <2>1. Ranks \subseteq 0..3
    BY RanksOrdered DEF Normal, Locked
  <2>2. file.rank \in 0..3
    BY <2>1 DEF TypeOK
  <2> QED
    BY <2>2
<1>4. ~Looked' /\ since' = 0 /\ heard' = 0 /\ event'.rank = 0
      /\ \A t \in Threads : view'[t] = NoView
  BY <1>1 DEF Volatile, Looked, Threads, HookThreads, NoEvent
<1> QED
  BY <1>1, <1>2, <1>3, <1>4
  DEF AdmissionInv, PermitsTruly, AgreesWithGate, Permits, NoView

LEMMA InitAdmission == Init => AdmissionInv
BY DEF Init, AdmissionInv, PermitsTruly, AgreesWithGate, Permits, NoView,
   Looked, Snapshot, NoEvent, Threads, HookThreads

LEMMA NextAdmission ==
  ASSUME TypeOK, AdmissionInv, TypeOK', [Next]_vars
  PROVE  AdmissionInv'
<1>1. CASE UNCHANGED vars
  BY <1>1 DEF vars, storage, AdmissionInv, PermitsTruly, AgreesWithGate, Permits,
     Looked
<1>2. ASSUME NEW t \in Threads, ThreadStep(t) PROVE AdmissionInv'
  BY <1>2, DispatchAdmission, PublishingAdmission, TakingAdmission
  DEF ThreadStep, Taking
<1>3. CASE \/ RecordHttp \/ GateUnavailable \/ Refreshed \/ GuardAllows
           \/ GateRefuses \/ HttpRefused \/ Observe \/ Invalidate
           \/ \E kind \in {"rebase", "peak", "recover", "config"} :
                HttpCall(kind)
           \/ ShutdownFails
  BY <1>3, OthersAdmission
<1>4. CASE (\E saved \in BOOLEAN : HttpUpdate(saved)) \/ Shutdown
  BY <1>4, TakingAdmission DEF Taking
<1>5. CASE Restart \/ Crash
  BY <1>5, LoadingAdmission
<1>6. CASE FlowStep \/ RestartRefused
  <2>1. UNCHANGED Others
    BY <1>6
    DEF FlowStep, FlowReads, FlowGivesUp, FlowPrepares, FlowReplaces,
        FlowEnds, RestartRefused, vars, Others, dispatching, history
  <2> QED
    BY <2>1 DEF Others, dispatching, history, AdmissionInv, PermitsTruly,
                AgreesWithGate, Permits, Looked
<1> QED
  BY <1>1, <1>2, <1>3, <1>4, <1>5, <1>6 DEF Next, FlowStep

(* The strengthening behind the admission of entries: a projection that    *)
(* permits entries is true of the revision it names, wherever it waits to  *)
(* be published, and agrees with what the gate has heard.                  *)
THEOREM AdmissionInvariant == Spec => []AdmissionInv
<1>1. TypeOK /\ AdmissionInv /\ TypeOK' /\ [Next]_vars => AdmissionInv'
  BY NextAdmission
<1> QED
  BY <1>1, InitAdmission, TypeCorrect, PTL DEF Spec

(* An entry is allowed under a revision the runtime had after the gate was *)
(* asked, and not under one that holds or blocks entries, however the      *)
(* three threads overwrite the published projection.                       *)
THEOREM AdmissionsAreTruthful == Spec => []AdmissionTruthful
<1>1. AdmissionInv => AdmissionTruthful
  BY DEF AdmissionInv, AdmissionTruthful, Admits, Looked, PermitsTruly, Permits
<1> QED
  BY <1>1, AdmissionInvariant, PTL

(* An entry is not allowed when the gate's refresh evaluated the metrics   *)
(* to a state that holds or blocks entries and nothing superseded it.      *)
THEOREM AdmissionsHeedMetrics == Spec => []AdmissionHeedsMetrics
<1>1. AdmissionInv => AdmissionHeedsMetrics
  BY DEF AdmissionInv, AdmissionHeedsMetrics, Admits, Looked, AgreesWithGate,
     Permits
<1> QED
  BY <1>1, AdmissionInvariant, PTL
=============================================================================
