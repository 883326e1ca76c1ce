---------------------- MODULE TriggerIdempotencyProofs ----------------------
(***************************************************************************)
(* What the monitoring trigger guarantees for every number of workers and  *)
(* requests and every choice of its times: one runner at a time, truthful  *)
(* replays, and no second run before the first one's time is over.         *)
(*                                                                         *)
(* Most steps of a worker write neither a record nor a run.  They are       *)
(* summed up in Passes; each step that does write has a lemma that states, *)
(* field by field, what it writes, and the invariants are proved from those.*)
(***************************************************************************)
EXTENDS TriggerIdempotency, TLAPS

USE LockValue, InputsExist, TimesNatural

(* The values a key and a worker start from have their types. *)
LEMMA EmptyTyped ==
  /\ NoRecord \in RecordType /\ NoRecord.generation = 0
  /\ NoRecord.owner = 0
  /\ NoWork \in WorkType /\ NoWork.moment = 0
BY DEF NoRecord, NoWork, RecordType, WorkType, Statuses, Active, Failed

-----------------------------------------------------------------------------
(* What the steps write.                                                   *)

Others(w) == \A u \in Workers : u # w => pc'[u] = pc[u] /\ work'[u] = work[u]

Unrun == {"claimed", "locked", "verified", "marked"}

(* w keeps the claim it carries, or it carries none any more. *)
Keeps(w) ==
  /\ pc'[w] \in Carrying => pc[w] \in Carrying /\ work'[w] = work[w]
  /\ pc'[w] \in Unrun => pc[w] \in Unrun
  /\ pc'[w] = "completing" => pc[w] = "running"

Elsewhere(k) == \A j \in Keys : j # k => records'[j] = records[j]
OtherRuns(n) == \A m \in 1..MaxClaims : m # n => runs'[m] = runs[m]

(* A step of w that writes neither a record nor a run. *)
Passes(w) ==
  /\ records' = records /\ runs' = runs /\ claims' = claims /\ now' = now
  /\ Others(w) /\ Keeps(w)
  /\ pc'[w] \notin {"marked", "running"}
  /\ pc'[w] = "verified" => pc[w] = "locked" /\ Mine(w)
  /\ work'[w].moment <= now

Claims(w) ==
  LET k == work[w].key
      r == records'[k]
      n == claims + 1
  IN  /\ Elsewhere(k) /\ OtherRuns(n) /\ Others(w)
      /\ n \in 1..MaxClaims /\ claims' = n /\ now' = now
      /\ Claimable(records[k], work[w].fingerprint, work[w].moment)
      /\ pc[w] = "received" /\ pc'[w] = "claimed"
      /\ work'[w].key = k /\ work'[w].moment = work[w].moment
      /\ work'[w].owner = n
      /\ r.status = "CLAIMED" /\ r.owner = n
      /\ r.generation = records[k].generation + 1
      /\ r.updated = work[w].moment
      /\ r.expires = work[w].moment + Ttl /\ r.lease = work[w].moment + Lease
      /\ runs'[n].key = k /\ runs'[n].state = "claimed"
      /\ runs'[n].until <= r.expires /\ runs'[n].until <= r.lease

Marks(w) ==
  LET k == work[w].key
      r == records'[k]
  IN  /\ Elsewhere(k) /\ Others(w) /\ work' = work
      /\ runs' = runs /\ claims' = claims /\ now' = now
      /\ pc[w] = "verified" /\ pc'[w] = "marked"
      /\ Mine(w)
      /\ r.status = "IN_PROGRESS" /\ r.updated = work[w].moment
      /\ r.lease = work[w].moment + Lease
      /\ r.owner = records[k].owner /\ r.generation = records[k].generation
      /\ r.expires = records[k].expires

Starts(w) ==
  LET n == work[w].owner
  IN  /\ records' = records /\ claims' = claims /\ now' = now
      /\ work' = work /\ Others(w) /\ OtherRuns(n)
      /\ pc[w] = "marked" /\ pc'[w] = "running"
      /\ runs'[n].state = "open"
      /\ runs'[n].key = runs[n].key /\ runs'[n].until = runs[n].until

Concludes(w) ==
  LET k == work[w].key
      n == work[w].owner
      r == records'[k]
  IN  /\ Elsewhere(k) /\ OtherRuns(n) /\ Others(w)
      /\ claims' = claims /\ now' = now
      /\ pc[w] \in Carrying /\ pc'[w] \notin Carrying
      /\ pc[w] # "running"
      /\ work'[w].moment <= now
      /\ Mine(w) /\ records[k].status \in Active
      /\ r.updated = work[w].moment
      /\ r.owner = n /\ r.generation = records[k].generation
      /\ r.expires = records[k].expires
      /\ runs'[n].key = runs[n].key
      /\ \/ /\ r.status = "COMPLETED" /\ r.response = n
            /\ runs'[n].state = "succeeded" /\ pc[w] = "completing"
            /\ runs'[n].until = records[k].expires
         \/ /\ r.status \in Failed /\ runs'[n].state = "failed"
            /\ runs'[n].until = runs[n].until

Recovers(k) ==
  LET r == records'[k]
  IN  /\ Elsewhere(k) /\ pc' = pc /\ work' = work /\ runs' = runs
      /\ claims + 1 \in 1..MaxClaims /\ claims' = claims + 1 /\ now' = now
      /\ Present(records[k]) /\ records[k].status \in Active
      /\ records[k].lease <= now
      /\ r.status = "CLAIMED" /\ r.generation = records[k].generation + 1
      /\ r.owner = claims + 1 /\ r.updated = now
      /\ r.expires = records[k].expires

GivesUp(k) ==
  LET r == records'[k]
      n == records[k].owner
  IN  /\ Elsewhere(k) /\ OtherRuns(n) /\ pc' = pc /\ work' = work
      /\ claims' = claims /\ now' = now
      /\ Present(records[k]) /\ records[k].status \in Active
      /\ r.status = "EXPIRED" /\ r.updated = now
      /\ r.owner = n /\ r.generation = records[k].generation
      /\ r.expires = records[k].expires
      /\ r.fingerprint = records[k].fingerprint
      /\ n \in 1..MaxClaims =>
           /\ runs'[n].key = runs[n].key /\ runs'[n].state = runs[n].state
           /\ runs'[n].until <= runs[n].until /\ runs'[n].until <= now
           /\ runs'[n].until # runs[n].until =>
                runs[n].until > now /\ runs'[n].until = now

Removes(k) ==
  /\ Elsewhere(k) /\ pc' = pc /\ work' = work /\ runs' = runs
  /\ claims' = claims /\ now' = now
  /\ Removable(records[k]) /\ records'[k] = NoRecord

Waits ==
  /\ records' = records /\ runs' = runs /\ claims' = claims
  /\ pc' = pc /\ work' = work
  /\ now' = now \/ now' = now + 1

-----------------------------------------------------------------------------
LEMMA PassesAnswering ==
  ASSUME TypeOK, NEW w \in Workers,
         \/ Answer(w) \/ Release(w) \/ Crash(w)
         \/ \E k \in Keys, f \in Fingerprints : Receive(w, k, f)
  PROVE  Passes(w)
<1> USE EmptyTyped DEF TypeOK, Passes, Others, Keeps, Unrun, Carrying, WorkType
<1>1. CASE Answer(w) \/ Release(w) \/ Crash(w)
  <2>1. pc' = [pc EXCEPT ![w] = "idle"] /\ work' = [work EXCEPT ![w] = NoWork]
    BY <1>1 DEF Answer, Release, Crash, Return
  <2>2. UNCHANGED <<records, now, claims, runs>>
    BY <1>1 DEF Answer, Release, Crash, Return
  <2> QED BY <2>1, <2>2
<1>2. ASSUME NEW k \in Keys, NEW f \in Fingerprints, Receive(w, k, f)
      PROVE  Passes(w)
  <2>1. pc' = [pc EXCEPT ![w] = "received"]
    BY <1>2 DEF Receive, Stage
  <2>2. work'[w].moment = now
    BY <1>2 DEF Receive, NoWork
  <2>3. \A u \in Workers : u # w => work'[u] = work[u]
    BY <1>2 DEF Receive
  <2>4. UNCHANGED <<records, now, claims, runs>>
    BY <1>2 DEF Receive
  <2> QED BY <2>1, <2>2, <2>3, <2>4
<1> QED BY <1>1, <1>2

LEMMA PassesCarrying ==
  ASSUME TypeOK, ClaimCarried, NEW w \in Workers,
         \/ AcquireLock(w) \/ LockRefused(w) \/ VerifyClaim(w)
         \/ \E outcome \in Failed : FenceClaim(w, outcome)
         \/ MarkRefused(w) \/ DeadlinePassed(w) \/ RunFails(w) \/ RunLate(w)
         \/ RunSucceeds(w) \/ CompletionRefused(w)
  PROVE  Passes(w)
<1>1. UNCHANGED <<records, work, now, claims, runs>>
  BY DEF AcquireLock, LockRefused, VerifyClaim, FenceClaim, MarkRefused,
     DeadlinePassed, RunFails, RunLate, RunSucceeds, CompletionRefused
<1>2. \E to \in {"locked", "refused", "verified", "releasing", "failing",
                 "completing"} :
        /\ pc[w] \in Carrying /\ pc' = [pc EXCEPT ![w] = to]
        /\ to = "verified" => pc[w] = "locked" /\ Mine(w)
        /\ to = "locked" => pc[w] = "claimed"
        /\ to = "completing" => pc[w] = "running"
  BY DEF AcquireLock, LockRefused, VerifyClaim, FenceClaim, MarkRefused,
     DeadlinePassed, RunFails, RunLate, RunSucceeds, CompletionRefused,
     Stage, Carrying
<1> QED BY <1>1, <1>2 DEF TypeOK, ClaimCarried, Passes, Others, Keeps, Unrun

LEMMA PassesRefused ==
  ASSUME TypeOK, ClaimCarried, NEW w \in Workers, FailureRefused(w)
  PROVE  Passes(w)
<1> USE DEF TypeOK, Passes, Others, Keeps, Unrun, Carrying, FailureRefused
<1>1. CASE Stage(w, "failing", "releasing") /\ UNCHANGED work
  BY <1>1 DEF Stage, ClaimCarried
<1>2. CASE pc[w] = "refused" /\ Return(w)
  BY <1>2, EmptyTyped DEF Return
<1> QED BY <1>1, <1>2 DEF AfterFailure

LEMMA ClaimWrites ==
  ASSUME TypeOK, NEW w \in Workers, Claim(w) PROVE Claims(w)
<1> DEFINE k == work[w].key
           n == claims + 1
<1>1. k \in Keys /\ work[w] \in WorkType /\ n \in 1..MaxClaims
  BY DEF TypeOK, WorkType, Claim
<1>2. records'[k] = Claimed(records[k], work[w].fingerprint, work[w].moment)
  BY <1>1 DEF Claim, TypeOK
<1>3. Elsewhere(k)
  BY <1>1 DEF Claim, TypeOK, Elsewhere
<1>4. /\ runs'[n] = [key |-> k, state |-> "claimed",
           until |-> work[w].moment + IF Lease < Ttl THEN Lease ELSE Ttl]
      /\ OtherRuns(n)
  BY <1>1 DEF Claim, TypeOK, OtherRuns
<1>5. /\ work'[w].key = k /\ work'[w].moment = work[w].moment
      /\ work'[w].owner = n
  BY <1>1 DEF Claim, TypeOK, WorkType
<1>6. Others(w) /\ pc[w] = "received" /\ pc'[w] = "claimed"
  BY DEF Claim, Stage, TypeOK, Others
<1>7. work[w].moment \in Nat
  BY <1>1 DEF WorkType
<1>8. /\ runs'[n].until <= work[w].moment + Ttl
      /\ runs'[n].until <= work[w].moment + Lease
  BY <1>4, <1>7
<1>9. /\ Claimable(records[k], work[w].fingerprint, work[w].moment)
      /\ claims' = n /\ now' = now
  BY DEF Claim, Record
<1> QED BY <1>1, <1>2, <1>3, <1>4, <1>5, <1>6, <1>8, <1>9
        DEF Claims, Claimed

LEMMA MarkWrites ==
  ASSUME TypeOK, NEW w \in Workers, MarkRunning(w) PROVE Marks(w)
<1> DEFINE k == work[w].key
<1>1. k \in Keys /\ records[k] \in RecordType
  BY DEF TypeOK, WorkType
<1>2. records'[k] = [records[k] EXCEPT !.status = "IN_PROGRESS",
                       !.updated = work[w].moment,
                       !.lease = work[w].moment + Lease]
  BY <1>1 DEF MarkRunning, TypeOK
<1>3. /\ records'[k].status = "IN_PROGRESS"
      /\ records'[k].updated = work[w].moment
      /\ records'[k].lease = work[w].moment + Lease
      /\ records'[k].owner = records[k].owner
      /\ records'[k].generation = records[k].generation
      /\ records'[k].expires = records[k].expires
  BY <1>1, <1>2 DEF RecordType
<1>4. Elsewhere(k) /\ Others(w) /\ pc[w] = "verified" /\ pc'[w] = "marked"
  BY <1>1 DEF MarkRunning, Stage, TypeOK, Elsewhere, Others
<1>5. /\ runs' = runs /\ claims' = claims /\ now' = now
      /\ work' = work /\ Mine(w)
  BY DEF MarkRunning
<1> QED BY <1>3, <1>4, <1>5 DEF Marks

LEMMA StartWrites ==
  ASSUME TypeOK, ClaimCarried, NEW w \in Workers, StartRun(w)
  PROVE  Starts(w)
<1> DEFINE n == work[w].owner
<1>1. pc[w] = "marked" /\ n \in 1..MaxClaims
  BY DEF StartRun, Stage, ClaimCarried, Carrying, TypeOK
<1>2. runs[n] \in RunType /\ runs'[n] = [runs[n] EXCEPT !.state = "open"]
  BY <1>1 DEF StartRun, TypeOK
<1>3. /\ runs'[n].state = "open" /\ runs'[n].key = runs[n].key
      /\ runs'[n].until = runs[n].until
  BY <1>2 DEF RunType
<1>4. OtherRuns(n) /\ Others(w) /\ pc'[w] = "running"
  BY <1>1 DEF StartRun, Stage, TypeOK, OtherRuns, Others
<1> QED BY <1>1, <1>3, <1>4 DEF StartRun, Starts

LEMMA ConcludeWrites ==
  ASSUME TypeOK, ClaimCarried, NEW w \in Workers,
         CompleteSuccess(w) \/ MarkFailure(w)
  PROVE  Concludes(w)
<1> DEFINE k == work[w].key
           n == work[w].owner
<1>1. /\ k \in Keys /\ records[k] \in RecordType /\ work[w].moment <= now
      /\ pc[w] \in Carrying /\ pc[w] # "running"
  BY DEF TypeOK, WorkType, ClaimCarried, CompleteSuccess, MarkFailure,
     AfterFailure, Stage, Carrying
<1>2. n \in 1..MaxClaims /\ runs[n] \in RunType
  BY <1>1 DEF ClaimCarried, TypeOK
<1>3. /\ Mine(w) /\ records[k].status \in Active
      /\ records[k].owner = n
  BY DEF CompleteSuccess, MarkFailure, Mine, Record
<1>4. /\ Others(w) /\ pc'[w] \notin Carrying /\ work'[w].moment <= now
      /\ claims' = claims /\ now' = now
  <2>1. CASE /\ \/ Stage(w, "completing", "releasing")
                \/ Stage(w, "failing", "releasing")
             /\ UNCHANGED work
    BY <2>1, <1>1 DEF CompleteSuccess, MarkFailure, Stage, TypeOK, Others,
       Carrying
  <2>2. CASE pc[w] = "refused" /\ Return(w)
    <3>1. work'[w].moment = 0 /\ Others(w) /\ pc'[w] = "idle"
      BY <2>2, EmptyTyped DEF Return, TypeOK, Others
    <3> QED BY <3>1 DEF CompleteSuccess, MarkFailure, Carrying, TypeOK
  <2> QED BY <2>1, <2>2 DEF CompleteSuccess, MarkFailure, AfterFailure
<1>5. ASSUME NEW s \in Statuses, NEW p \in 0..MaxClaims, Write(w, s, p)
      PROVE  /\ Elsewhere(k)
             /\ records'[k].status = s /\ records'[k].response = p
             /\ records'[k].updated = work[w].moment
             /\ records'[k].owner = records[k].owner
             /\ records'[k].generation = records[k].generation
             /\ records'[k].expires = records[k].expires
  <2>1. records'[k] = [records[k] EXCEPT !.status = s, !.response = p,
                                         !.updated = work[w].moment]
    BY <1>1, <1>5 DEF Write, TypeOK
  <2>2. Elsewhere(k)
    BY <1>1, <1>5 DEF Write, TypeOK, Elsewhere
  <2> QED BY <1>1, <2>1, <2>2 DEF RecordType
<1>6. CASE CompleteSuccess(w)
  <2>1. runs'[n] = [runs[n] EXCEPT !.state = "succeeded",
                                   !.until = records[k].expires]
    BY <1>2, <1>6 DEF CompleteSuccess, Record, TypeOK
  <2>2. /\ runs'[n].state = "succeeded" /\ runs'[n].key = runs[n].key
        /\ runs'[n].until = records[k].expires
    BY <1>2, <2>1 DEF RunType
  <2>3. OtherRuns(n)
    BY <1>2, <1>6 DEF CompleteSuccess, TypeOK, OtherRuns
  <2>4. Write(w, "COMPLETED", n) /\ "COMPLETED" \in Statuses
    BY <1>6 DEF CompleteSuccess, Statuses
  <2>5. n \in 0..MaxClaims
    BY <1>2
  <2>6. pc[w] = "completing"
    BY <1>6 DEF CompleteSuccess, Stage
  <2> QED BY <1>1, <1>3, <1>4, <1>5, <2>2, <2>3, <2>4, <2>5, <2>6
          DEF Concludes
<1>7. CASE MarkFailure(w)
  <2>1. runs'[n] = [runs[n] EXCEPT !.state = "failed"]
    BY <1>2, <1>7 DEF MarkFailure, TypeOK
  <2>2. /\ runs'[n].state = "failed" /\ runs'[n].key = runs[n].key
        /\ runs'[n].until = runs[n].until
    BY <1>2, <2>1 DEF RunType
  <2>3. OtherRuns(n)
    BY <1>2, <1>7 DEF MarkFailure, TypeOK, OtherRuns
  <2>4. failure[w] \in Failed /\ failure[w] \in Statuses /\ 0 \in 0..MaxClaims
    BY DEF TypeOK, Statuses
  <2>5. Write(w, failure[w], 0)
    BY <1>7 DEF MarkFailure
  <2> QED BY <1>1, <1>3, <1>4, <1>5, <2>2, <2>3, <2>4, <2>5 DEF Concludes
<1> QED BY <1>6, <1>7

LEMMA RecoverWrites ==
  ASSUME TypeOK, NEW k \in Keys, Recover(k) PROVE Recovers(k)
<1>1. records[k] \in RecordType
  BY DEF TypeOK
<1>2. records'[k] = [records[k] EXCEPT !.status = "CLAIMED",
         !.generation = records[k].generation + 1, !.owner = claims + 1,
         !.updated = now, !.lease = now + Lease, !.response = 0]
  BY <1>1 DEF Recover, TypeOK
<1>3. /\ records'[k].status = "CLAIMED"
      /\ records'[k].generation = records[k].generation + 1
      /\ records'[k].owner = claims + 1 /\ records'[k].updated = now
      /\ records'[k].expires = records[k].expires
  BY <1>1, <1>2 DEF RecordType
<1>4. Elsewhere(k)
  BY DEF Recover, TypeOK, Elsewhere
<1>5. claims + 1 \in 1..MaxClaims
  BY DEF Recover, TypeOK
<1> QED BY <1>3, <1>4, <1>5 DEF Recover, Recovers, ActiveClaims

LEMMA ExpireWrites ==
  ASSUME TypeOK, NEW k \in Keys, ExpireRecord(k) PROVE GivesUp(k)
<1> DEFINE n == records[k].owner
<1>1. records[k] \in RecordType /\ now \in Nat
  BY DEF TypeOK
<1>2. records'[k] = [records[k] EXCEPT !.status = "EXPIRED", !.updated = now]
  BY DEF ExpireRecord, TypeOK
<1>3. /\ records'[k].status = "EXPIRED" /\ records'[k].updated = now
      /\ records'[k].owner = n
      /\ records'[k].generation = records[k].generation
      /\ records'[k].expires = records[k].expires
      /\ records'[k].fingerprint = records[k].fingerprint
  BY <1>1, <1>2 DEF RecordType
<1>4. Elsewhere(k)
  BY DEF ExpireRecord, TypeOK, Elsewhere
<1>5. \A m \in 1..MaxClaims :
        runs'[m] = IF m = n /\ runs[m].until > now
                   THEN [runs[m] EXCEPT !.until = now] ELSE runs[m]
  BY DEF ExpireRecord, TypeOK
<1>6. OtherRuns(n)
  BY <1>5 DEF OtherRuns
<1>7. ASSUME n \in 1..MaxClaims
      PROVE  /\ runs'[n].key = runs[n].key /\ runs'[n].state = runs[n].state
             /\ runs'[n].until <= runs[n].until /\ runs'[n].until <= now
             /\ runs'[n].until # runs[n].until =>
                  runs[n].until > now /\ runs'[n].until = now
  <2>1. runs[n] \in RunType
    BY <1>7 DEF TypeOK
  <2>2. runs[n].until \in Nat
    BY <2>1 DEF RunType
  <2>3. CASE runs[n].until > now
    <3>1. runs'[n] = [runs[n] EXCEPT !.until = now]
      BY <1>5, <1>7, <2>3
    <3>2. /\ runs'[n].key = runs[n].key /\ runs'[n].state = runs[n].state
          /\ runs'[n].until = now
      BY <3>1, <2>1 DEF RunType
    <3> QED BY <1>1, <2>2, <2>3, <3>2
  <2>4. CASE ~(runs[n].until > now)
    <3>1. runs'[n] = runs[n]
      BY <1>5, <1>7, <2>4
    <3> QED BY <1>1, <2>2, <2>4, <3>1
  <2> QED BY <2>3, <2>4
<1> QED BY <1>3, <1>4, <1>6, <1>7 DEF ExpireRecord, GivesUp, ActiveClaims

LEMMA CleanupWrites ==
  ASSUME TypeOK, NEW k \in Keys, Cleanup(k) PROVE Removes(k)
BY DEF TypeOK, Cleanup, Removes, Elsewhere

(* Every step is one of these. *)
LEMMA StepWrites ==
  ASSUME TypeOK, ClaimCarried, [Next]_vars
  PROVE  \/ \E w \in Workers :
              Passes(w) \/ Claims(w) \/ Marks(w) \/ Starts(w) \/ Concludes(w)
         \/ \E k \in Keys : Recovers(k) \/ GivesUp(k) \/ Removes(k)
         \/ Waits
<1>1. ASSUME NEW w \in Workers, WorkerStep(w)
      PROVE  Passes(w) \/ Claims(w) \/ Marks(w) \/ Starts(w) \/ Concludes(w)
  BY <1>1, PassesAnswering, PassesCarrying, PassesRefused, ClaimWrites,
     MarkWrites, StartWrites, ConcludeWrites DEF WorkerStep
<1>2. ASSUME NEW w \in Workers, NEW k \in Keys, NEW f \in Fingerprints,
             Receive(w, k, f)
      PROVE  Passes(w)
  BY <1>2, PassesAnswering
<1>3. ASSUME NEW w \in Workers, Crash(w) PROVE Passes(w)
  BY <1>3, PassesAnswering
<1>4. CASE Tick \/ UNCHANGED vars
  BY <1>4 DEF Tick, vars, Waits
<1> QED BY <1>1, <1>2, <1>3, <1>4, RecoverWrites, ExpireWrites, CleanupWrites
        DEF Next

-----------------------------------------------------------------------------
(* The types and the lock.                                                 *)

(* Every step keeps the types. *)
LEMMA TypeStep ==
  ASSUME TypeOK, [Next]_vars PROVE TypeOK'
<1> USE EmptyTyped DEF TypeOK, Stages, LockedStages
<1>0. /\ \A k \in Keys : records[k] \in RecordType /\ records[k].generation \in Nat
      /\ claims \in Nat /\ now \in Nat
  BY DEF RecordType
<1>1. ASSUME NEW w \in Workers, WorkerStep(w) PROVE TypeOK'
  <2>0. /\ work[w].key \in Keys /\ work[w].fingerprint \in Fingerprints
        /\ work[w].moment \in Nat /\ work[w].generation \in Nat
        /\ work[w].owner \in 0..MaxClaims /\ work[w].moment \in 0..MaxTime
        /\ Record(w) \in RecordType
    BY DEF WorkType, Record
  <2>1. CASE Claim(w)
    <3> DEFINE r == Claimed(Record(w), work[w].fingerprint, work[w].moment)
               n == claims + 1
    <3>1. Record(w).generation \in Nat /\ n \in 1..MaxClaims /\ n \in 0..MaxClaims
      BY <1>0, <2>0, <2>1 DEF Claim, Record
    <3>2. r \in RecordType
      <4>1. /\ Record(w).generation + 1 \in Nat
            /\ work[w].moment + Ttl \in Nat /\ work[w].moment + Lease \in Nat
            /\ 0 \in 0..MaxClaims /\ "CLAIMED" \in Statuses
        BY <2>0, <3>1 DEF Statuses, Active
      <4> QED BY <2>0, <3>1, <4>1 DEF Claimed, RecordType
    <3>3. records' = [records EXCEPT ![work[w].key] = r]
      BY <2>1 DEF Claim, Record
    <3>4. [work[w] EXCEPT !.generation = Record(w).generation + 1,
                          !.owner = n] \in WorkType
      <4>1. Record(w).generation + 1 \in Nat
        BY <3>1
      <4> QED BY <3>1, <4>1 DEF WorkType
    <3>5. work' = [work EXCEPT ![w] =
                     [work[w] EXCEPT !.generation = Record(w).generation + 1,
                                     !.owner = n]]
      BY <2>1 DEF Claim
    <3>6. [key |-> work[w].key, state |-> "claimed",
           until |-> work[w].moment + IF Lease < Ttl THEN Lease ELSE Ttl]
            \in RunType
      BY <2>0 DEF RunType
    <3>7. /\ records' \in [Keys -> RecordType] /\ work' \in [Workers -> WorkType]
      BY <2>0, <3>2, <3>3, <3>4, <3>5
    <3>8. runs' \in [1..MaxClaims -> RunType]
      BY <2>1, <3>1, <3>6 DEF Claim
    <3> QED BY <2>1, <3>1, <3>7, <3>8 DEF Claim, Stage
  <2>2. CASE Answer(w)
    BY <2>2 DEF Answer, Return, Failed
  <2>3. CASE AcquireLock(w)
    BY <2>3 DEF AcquireLock, Stage
  <2>4. CASE LockRefused(w)
    BY <2>4 DEF LockRefused, Stage
  <2>5. CASE VerifyClaim(w)
    BY <2>5 DEF VerifyClaim, Stage
  <2>6. CASE \E outcome \in Failed : FenceClaim(w, outcome)
    BY <2>6 DEF FenceClaim, Stage
  <2>7. CASE MarkRunning(w)
    <3>1. [Record(w) EXCEPT !.status = "IN_PROGRESS",
             !.updated = work[w].moment,
             !.lease = work[w].moment + Lease] \in RecordType
      <4>1. work[w].moment + Lease \in Nat /\ "IN_PROGRESS" \in Statuses
        BY <2>0 DEF Statuses, Active
      <4> QED BY <2>0, <4>1 DEF RecordType
    <3> QED BY <2>7, <3>1 DEF MarkRunning, Stage, Record
  <2>8. CASE MarkRefused(w)
    BY <2>8 DEF MarkRefused, Stage
  <2>9. CASE StartRun(w)
    <3>1. \A n \in 1..MaxClaims : [runs[n] EXCEPT !.state = "open"] \in RunType
      BY DEF RunType
    <3> QED BY <2>9, <3>1 DEF StartRun, Stage
  <2>10. CASE DeadlinePassed(w) \/ RunFails(w) \/ RunLate(w)
    BY <2>10 DEF DeadlinePassed, RunFails, RunLate, Stage, Failed
  <2>11. CASE RunSucceeds(w) \/ CompletionRefused(w)
    BY <2>11 DEF RunSucceeds, CompletionRefused, Stage
  <2>12. CASE CompleteSuccess(w)
    <3>1. [Record(w) EXCEPT !.status = "COMPLETED",
             !.response = work[w].owner, !.updated = work[w].moment]
            \in RecordType
      BY <2>0 DEF RecordType, Statuses
    <3>2. Record(w).expires \in Nat
      BY <2>0 DEF RecordType
    <3>3. \A n \in 1..MaxClaims :
            [runs[n] EXCEPT !.state = "succeeded",
                            !.until = Record(w).expires] \in RunType
      BY <3>2 DEF RunType
    <3> QED BY <2>12, <3>1, <3>3 DEF CompleteSuccess, Stage, Write, Record
  <2>13. CASE MarkFailure(w)
    <3>1. [Record(w) EXCEPT !.status = failure[w],
             !.response = 0, !.updated = work[w].moment] \in RecordType
      BY <2>0 DEF RecordType, Statuses
    <3>2. \A n \in 1..MaxClaims :
            [runs[n] EXCEPT !.state = "failed"] \in RunType
      BY DEF RunType
    <3>3. records' \in [Keys -> RecordType] /\ runs' \in [1..MaxClaims -> RunType]
      BY <2>13, <3>1, <3>2 DEF MarkFailure, Write, Record
    <3> QED BY <2>13, <3>3 DEF MarkFailure, AfterFailure, Stage, Return, Failed
  <2>14. CASE FailureRefused(w)
    BY <2>14 DEF FailureRefused, AfterFailure, Stage, Return, Failed
  <2>15. CASE Release(w)
    BY <2>15 DEF Release, Return, Failed
  <2> QED BY <1>1, <2>1, <2>2, <2>3, <2>4, <2>5, <2>6, <2>7, <2>8, <2>9,
             <2>10, <2>11, <2>12, <2>13, <2>14, <2>15 DEF WorkerStep
<1>2. ASSUME NEW w \in Workers, NEW k \in Keys, NEW f \in Fingerprints,
             Receive(w, k, f)
      PROVE  TypeOK'
  <2>1. [NoWork EXCEPT !.key = k, !.fingerprint = f, !.moment = now] \in WorkType
    BY DEF WorkType
  <2> QED BY <1>2, <2>1 DEF Receive, Stage
<1>3. ASSUME NEW w \in Workers, Crash(w) PROVE TypeOK'
  BY <1>3 DEF Crash, Return, Failed
<1>4. ASSUME NEW k \in Keys, Recover(k) PROVE TypeOK'
  <2>1. /\ records[k].generation + 1 \in Nat /\ claims + 1 \in 0..MaxClaims
        /\ now \in Nat /\ now + Lease \in Nat /\ 0 \in 0..MaxClaims
        /\ "CLAIMED" \in Statuses
    BY <1>0, <1>4 DEF Recover, Statuses, Active
  <2>2. [records[k] EXCEPT !.status = "CLAIMED",
           !.generation = records[k].generation + 1, !.owner = claims + 1,
           !.updated = now, !.lease = now + Lease, !.response = 0]
          \in RecordType
    BY <1>0, <2>1 DEF RecordType
  <2> QED BY <1>4, <2>1, <2>2 DEF Recover
<1>5. ASSUME NEW k \in Keys, ExpireRecord(k) PROVE TypeOK'
  <2>1. [records[k] EXCEPT !.status = "EXPIRED", !.updated = now] \in RecordType
    BY <1>0 DEF RecordType, Statuses
  <2>2. \A n \in 1..MaxClaims : [runs[n] EXCEPT !.until = now] \in RunType
    BY DEF RunType
  <2> QED BY <1>5, <2>1, <2>2 DEF ExpireRecord
<1>6. ASSUME NEW k \in Keys, Cleanup(k) PROVE TypeOK'
  BY <1>6 DEF Cleanup
<1>7. CASE Tick \/ UNCHANGED vars
  BY <1>7 DEF Tick, vars
<1> QED BY <1>1, <1>2, <1>3, <1>4, <1>5, <1>6, <1>7 DEF Next

(* The lock is with the worker inside it. *)
LEMMA LockStep ==
  ASSUME TypeOK, LockHeld, [Next]_vars PROVE LockHeld'
<1> USE DEF TypeOK, LockHeld, LockedStages, Stage
<1>1. ASSUME NEW w \in Workers, WorkerStep(w) PROVE LockHeld'
  <2>1. CASE \/ Claim(w) \/ Answer(w) \/ AcquireLock(w) \/ LockRefused(w)
             \/ Release(w)
    BY <2>1 DEF Claim, Answer, AcquireLock, LockRefused, Release, Return
  <2>2. CASE \/ VerifyClaim(w) \/ \E outcome \in Failed : FenceClaim(w, outcome)
             \/ MarkRunning(w) \/ MarkRefused(w) \/ StartRun(w)
    BY <2>2 DEF VerifyClaim, FenceClaim, MarkRunning, MarkRefused, StartRun
  <2>3. CASE \/ DeadlinePassed(w) \/ RunFails(w) \/ RunLate(w)
             \/ RunSucceeds(w) \/ CompleteSuccess(w) \/ CompletionRefused(w)
    BY <2>3 DEF DeadlinePassed, RunFails, RunLate, RunSucceeds,
       CompleteSuccess, CompletionRefused
  <2>4. CASE MarkFailure(w) \/ FailureRefused(w)
    BY <2>4 DEF MarkFailure, FailureRefused, AfterFailure, Return
  <2> QED BY <1>1, <2>1, <2>2, <2>3, <2>4 DEF WorkerStep
<1>2. ASSUME NEW w \in Workers, NEW k \in Keys, NEW f \in Fingerprints,
             Receive(w, k, f)
      PROVE  LockHeld'
  BY <1>2 DEF Receive
<1>3. ASSUME NEW w \in Workers, Crash(w) PROVE LockHeld'
  BY <1>3 DEF Crash, Return
<1>4. ASSUME NEW k \in Keys, Recover(k) \/ ExpireRecord(k) \/ Cleanup(k)
      PROVE  LockHeld'
  BY <1>4 DEF Recover, ExpireRecord, Cleanup
<1>5. CASE Tick \/ UNCHANGED vars
  BY <1>5 DEF Tick, vars
<1> QED BY <1>1, <1>2, <1>3, <1>4, <1>5 DEF Next

-----------------------------------------------------------------------------
(* What the invariant adds.                                                *)

(* The components of the state have their types. *)
Fields ==
  /\ now \in Nat /\ claims \in Nat /\ claims <= MaxClaims
  /\ \A k \in Keys :
       /\ records[k].owner \in Nat /\ records[k].generation \in Nat
       /\ records[k].expires \in Nat /\ records[k].lease \in Nat
       /\ records[k].updated \in Nat /\ records[k].status \in Statuses
  /\ \A w \in Workers :
       /\ work[w].key \in Keys /\ work[w].moment \in Nat
       /\ work[w].owner \in Nat /\ work[w].generation \in Nat
  /\ \A n \in 1..MaxClaims :
       runs[n].key \in Keys /\ runs[n].until \in Nat

LEMMA Typed == TypeOK => Fields
<1> SUFFICES ASSUME TypeOK PROVE Fields
  OBVIOUS
<1>1. now \in Nat /\ claims \in Nat /\ claims <= MaxClaims
  BY DEF TypeOK
<1>2. ASSUME NEW k \in Keys
      PROVE  /\ records[k].owner \in Nat /\ records[k].generation \in Nat
             /\ records[k].expires \in Nat /\ records[k].lease \in Nat
             /\ records[k].updated \in Nat /\ records[k].status \in Statuses
  <2>1. records[k] \in RecordType
    BY DEF TypeOK
  <2> QED BY <2>1 DEF RecordType
<1>3. ASSUME NEW w \in Workers
      PROVE  /\ work[w].key \in Keys /\ work[w].moment \in Nat
             /\ work[w].owner \in Nat /\ work[w].generation \in Nat
  <2>1. work[w] \in WorkType
    BY DEF TypeOK
  <2> QED BY <2>1 DEF WorkType
<1>4. ASSUME NEW n \in 1..MaxClaims
      PROVE  runs[n].key \in Keys /\ runs[n].until \in Nat
  <2>1. runs[n] \in RunType
    BY DEF TypeOK
  <2> QED BY <2>1 DEF RunType
<1> QED BY <1>1, <1>2, <1>3, <1>4 DEF Fields

LEMMA TypedNext == TypeOK' => Fields'
BY Typed, PTL

(* Every owner id names one claim. *)
LEMMA OwnersStep ==
  ASSUME TypeOK, TypeOK', OwnersFresh, ClaimCarried, [Next]_vars
  PROVE  OwnersFresh'
<1> USE DEF OwnersFresh, ClaimCarried, Present
<1> USE Typed, TypedNext DEF Fields
<1>1. ASSUME NEW w \in Workers, Passes(w) PROVE OwnersFresh'
  BY <1>1 DEF Passes, Others, Keeps
<1>2. ASSUME NEW w \in Workers, Claims(w) PROVE OwnersFresh'
  <2> DEFINE k == work[w].key
  <2>1. /\ k \in Keys /\ records'[k].owner = claims + 1
        /\ claims' = claims + 1 /\ claims \in Nat
        /\ \A j \in Keys : j # k => records'[j] = records[j]
    BY <1>2 DEF Claims, Elsewhere
  <2>2. \A i, j \in Keys : Present(records'[i]) /\ Present(records'[j]) /\ i # j
          => records'[i].owner # records'[j].owner
    BY <2>1
  <2>3. \A j \in Keys : Present(records'[j]) => records'[j].owner \in 1..claims'
    BY <2>1
  <2>4. \A n \in 1..MaxClaims : n > claims' => runs'[n].state = "none"
    BY <1>2 DEF Claims, OtherRuns
  <2>5. \A u, v \in Workers :
          pc'[u] \in Carrying /\ pc'[v] \in Carrying /\ u # v
            => work'[u].owner # work'[v].owner
    BY <1>2 DEF Claims, Others, Carrying
  <2> QED BY <2>2, <2>3, <2>4, <2>5
<1>3. ASSUME NEW w \in Workers, Marks(w) PROVE OwnersFresh'
  BY <1>3 DEF Marks, Others, Elsewhere, Carrying
<1>4. ASSUME NEW w \in Workers, Starts(w) PROVE OwnersFresh'
  BY <1>4 DEF Starts, Others, OtherRuns, Carrying
<1>5. ASSUME NEW w \in Workers, Concludes(w) PROVE OwnersFresh'
  BY <1>5 DEF Concludes, Others, Elsewhere, OtherRuns, Mine, Record
<1>6. ASSUME NEW k \in Keys, Recovers(k) PROVE OwnersFresh'
  BY <1>6 DEF Recovers, Elsewhere
<1>7. ASSUME NEW k \in Keys, GivesUp(k) PROVE OwnersFresh'
  BY <1>7 DEF GivesUp, Elsewhere, OtherRuns
<1>8. ASSUME NEW k \in Keys, Removes(k) PROVE OwnersFresh'
  BY <1>8, EmptyTyped DEF Removes, Elsewhere
<1>9. CASE Waits
  BY <1>9 DEF Waits
<1> QED BY <1>1, <1>2, <1>3, <1>4, <1>5, <1>6, <1>7, <1>8, <1>9, StepWrites

(* A worker's claim stays its own until it concludes it. *)
LEMMA CarriedStep ==
  ASSUME TypeOK, TypeOK', OwnersFresh, ClaimCarried, [Next]_vars
  PROVE  ClaimCarried'
<1> USE DEF OwnersFresh, ClaimCarried, Mine, Record, Present
<1> USE Typed, TypedNext DEF Fields
<1>1. ASSUME NEW w \in Workers, Passes(w) PROVE ClaimCarried'
  BY <1>1 DEF Passes, Others, Keeps, Unrun
<1>2. ASSUME NEW w \in Workers, Claims(w) PROVE ClaimCarried'
  <2> DEFINE k == work[w].key
             n == claims + 1
             Carries(v) ==
               /\ work[v].moment <= now
               /\ pc[v] \in Carrying =>
                    /\ work[v].owner \in 1..claims
                    /\ runs[work[v].owner].key = work[v].key
                    /\ runs[work[v].owner].state \in {"claimed", "open"}
                    /\ pc[v] \in {"claimed", "locked", "verified", "marked"} =>
                         runs[work[v].owner].state = "claimed"
                    /\ pc[v] \in {"running", "completing"} =>
                         runs[work[v].owner].state = "open"
                    /\ runs[work[v].owner].until <= work[v].moment + Lease
                    /\ runs[work[v].owner].until <= work[v].moment + Ttl
                    /\ Mine(v) => Record(v).expires <= work[v].moment + Ttl
  <2>1. /\ claims' = n /\ now' = now /\ k \in Keys
        /\ \A m \in 1..claims : runs'[m] = runs[m]
    BY <1>2 DEF Claims, OtherRuns
  <2>2. ASSUME NEW v \in Workers, v # w PROVE Carries(v)'
    <3>1. pc'[v] = pc[v] /\ work'[v] = work[v] /\ Carries(v)
      BY <1>2, <2>2 DEF Claims, Others
    <3>2. CASE work[v].key = k
      <4>1. pc[v] \in Carrying => ~Mine(v)'
        BY <1>2, <3>1, <3>2 DEF Claims
      <4> QED BY <2>1, <3>1, <4>1
    <3>3. CASE work[v].key # k
      <4>1. Record(v)' = Record(v)
        BY <1>2, <3>1, <3>3 DEF Claims, Elsewhere
      <4>2. Mine(v)' = Mine(v)
        BY <3>1, <4>1
      <4> QED BY <2>1, <3>1, <4>1, <4>2
    <3> QED BY <3>2, <3>3
  <2>3. Carries(w)'
    <3>1. /\ pc'[w] = "claimed" /\ work'[w].owner = n
          /\ work'[w].key = k /\ work'[w].moment = work[w].moment
          /\ runs'[n].key = k /\ runs'[n].state = "claimed"
          /\ runs'[n].until <= records'[k].expires
          /\ runs'[n].until <= records'[k].lease
          /\ records'[k].expires = work[w].moment + Ttl
          /\ records'[k].lease = work[w].moment + Lease
      BY <1>2 DEF Claims
    <3> QED BY <2>1, <3>1
  <2>4. \A v \in Workers : Carries(v)'
    BY <2>2, <2>3
  <2> QED BY <2>4
<1>3. ASSUME NEW w \in Workers, Marks(w) PROVE ClaimCarried'
  BY <1>3 DEF Marks, Others, Elsewhere, Carrying
<1>4. ASSUME NEW w \in Workers, Starts(w) PROVE ClaimCarried'
  BY <1>4 DEF Starts, Others, OtherRuns, Carrying
<1>5. ASSUME NEW w \in Workers, Concludes(w) PROVE ClaimCarried'
  BY <1>5 DEF Concludes, Others, Elsewhere, OtherRuns
<1>6. ASSUME NEW k \in Keys, Recovers(k) PROVE ClaimCarried'
  BY <1>6 DEF Recovers, Elsewhere
<1>7. ASSUME NEW k \in Keys, GivesUp(k) PROVE ClaimCarried'
  BY <1>7 DEF GivesUp, Elsewhere, OtherRuns
<1>8. ASSUME NEW k \in Keys, Removes(k) PROVE ClaimCarried'
  BY <1>8, EmptyTyped DEF Removes, Elsewhere
<1>9. CASE Waits
  BY <1>9 DEF Waits
<1> QED BY <1>1, <1>2, <1>3, <1>4, <1>5, <1>6, <1>7, <1>8, <1>9, StepWrites

(* Records are stamped in the past and last as long as they count. *)
LEMMA TimesStep ==
  ASSUME TypeOK, TypeOK', ClaimCarried, RecordTimes, [Next]_vars
  PROVE  RecordTimes'
<1> USE DEF RecordTimes, ClaimCarried, Present
<1> USE Typed, TypedNext DEF Fields
<1>1. ASSUME NEW w \in Workers, Passes(w) PROVE RecordTimes'
  BY <1>1 DEF Passes
<1>2. ASSUME NEW w \in Workers, Claims(w) PROVE RecordTimes'
  BY <1>2 DEF Claims, Elsewhere, Carrying
<1>3. ASSUME NEW w \in Workers, Marks(w) PROVE RecordTimes'
  BY <1>3 DEF Marks, Elsewhere, Mine, Record, Present, Carrying
<1>4. ASSUME NEW w \in Workers, Starts(w) PROVE RecordTimes'
  BY <1>4 DEF Starts
<1>5. ASSUME NEW w \in Workers, Concludes(w) PROVE RecordTimes'
  BY <1>5 DEF Concludes, Elsewhere, Mine, Record
<1>6. ASSUME NEW k \in Keys, Recovers(k) PROVE RecordTimes'
  BY <1>6 DEF Recovers, Elsewhere
<1>7. ASSUME NEW k \in Keys, GivesUp(k) PROVE RecordTimes'
  BY <1>7 DEF GivesUp, Elsewhere
<1>8. ASSUME NEW k \in Keys, Removes(k) PROVE RecordTimes'
  BY <1>8, EmptyTyped DEF Removes, Elsewhere
<1>9. CASE Waits
  BY <1>9 DEF Waits
<1> QED BY <1>1, <1>2, <1>3, <1>4, <1>5, <1>6, <1>7, <1>8, <1>9, StepWrites

(* A record stays under a claim whose time is not over. *)
LEMMA StandsStep ==
  ASSUME TypeOK, TypeOK', OwnersFresh, ClaimCarried, RecordTimes, ClaimStands, [Next]_vars
  PROVE  ClaimStands'
<1> USE DEF ClaimStands, Present
<1> USE Typed, TypedNext DEF Fields
<1>1. ASSUME NEW w \in Workers, Passes(w) PROVE ClaimStands'
  BY <1>1 DEF Passes
<1>2. ASSUME NEW w \in Workers, Claims(w) PROVE ClaimStands'
  BY <1>2 DEF Claims, Elsewhere, OtherRuns, Claimable, Expired, Active, ClaimCarried
<1>3. ASSUME NEW w \in Workers, Marks(w) PROVE ClaimStands'
  BY <1>3 DEF Marks, Elsewhere, Mine, Record, Active, ClaimCarried, Carrying
<1>4. ASSUME NEW w \in Workers, Starts(w) PROVE ClaimStands'
  BY <1>4 DEF Starts, OtherRuns, ClaimCarried, Carrying
<1>5. ASSUME NEW w \in Workers, Concludes(w) PROVE ClaimStands'
  BY <1>5 DEF Concludes, Elsewhere, OtherRuns, Mine, Record, ClaimCarried, Active, Failed
<1>6. ASSUME NEW k \in Keys, Recovers(k) PROVE ClaimStands'
  BY <1>6 DEF Recovers, Elsewhere, Active, OwnersFresh
<1>7. ASSUME NEW k \in Keys, GivesUp(k) PROVE ClaimStands'
  BY <1>7 DEF GivesUp, Elsewhere, OtherRuns, Active
<1>8. ASSUME NEW k \in Keys, Removes(k) PROVE ClaimStands'
  BY <1>8, EmptyTyped, RetentionCoversTtl DEF Removes, Elsewhere, Removable, RecordTimes, Active, Failed
<1>9. CASE Waits
  BY <1>9 DEF Waits
<1> QED BY <1>1, <1>2, <1>3, <1>4, <1>5, <1>6, <1>7, <1>8, <1>9, StepWrites

(* No rival appears while the lock is held. *)
LEMMA RivalStep ==
  ASSUME TypeOK, TypeOK', LockHeld, OwnersFresh, ClaimCarried, ClaimStands, NoRival, [Next]_vars
  PROVE  NoRival'
<1> USE DEF NoRival
<1> USE Typed, TypedNext DEF Fields
<1>1. ASSUME NEW w \in Workers, Passes(w) PROVE NoRival'
  BY <1>1 DEF Passes, Others, Keeps, Carrying, ClaimStands, Mine, Record, ClaimCarried
<1>2. ASSUME NEW w \in Workers, Claims(w) PROVE NoRival'
  BY <1>2 DEF Claims, Others, OtherRuns, Carrying, ClaimCarried
<1>3. ASSUME NEW w \in Workers, Marks(w) PROVE NoRival'
  BY <1>3 DEF Marks, Others
<1>4. ASSUME NEW w \in Workers, Starts(w) PROVE NoRival'
  BY <1>4 DEF Starts, Others, OtherRuns, LockHeld, LockedStages
<1>5. ASSUME NEW w \in Workers, Concludes(w) PROVE NoRival'
  BY <1>5 DEF Concludes, Others, OtherRuns, LockHeld, LockedStages, ClaimCarried, ClaimStands, Carrying, Mine, Record
<1>6. ASSUME NEW k \in Keys, Recovers(k) PROVE NoRival'
  BY <1>6 DEF Recovers
<1>7. ASSUME NEW k \in Keys, GivesUp(k) PROVE NoRival'
  BY <1>7 DEF GivesUp, OtherRuns
<1>8. ASSUME NEW k \in Keys, Removes(k) PROVE NoRival'
  BY <1>8 DEF Removes
<1>9. CASE Waits
  BY <1>9 DEF Waits
<1> QED BY <1>1, <1>2, <1>3, <1>4, <1>5, <1>6, <1>7, <1>8, <1>9, StepWrites

(* A stored result stays the result of its own run. *)
LEMMA ReplayStep ==
  ASSUME TypeOK, TypeOK', OwnersFresh, ClaimCarried, ReplayTruthful, [Next]_vars
  PROVE  ReplayTruthful'
<1> USE DEF ReplayTruthful, OwnersFresh, Present
<1> USE Typed, TypedNext DEF Fields
<1>1. ASSUME NEW w \in Workers, Passes(w) PROVE ReplayTruthful'
  BY <1>1 DEF Passes
<1>2. ASSUME NEW w \in Workers, Claims(w) PROVE ReplayTruthful'
  <2>1. ASSUME NEW j \in Keys, Present(records[j])', records'[j].status = "COMPLETED"
        PROVE  j # work[w].key /\ records'[j] = records[j]
    BY <1>2, <2>1 DEF Claims, Elsewhere
  <2>2. ASSUME NEW n \in 1..claims PROVE runs'[n] = runs[n]
    BY <1>2, <2>2 DEF Claims, OtherRuns
  <2> QED BY <2>1, <2>2
<1>3. ASSUME NEW w \in Workers, Marks(w) PROVE ReplayTruthful'
  BY <1>3 DEF Marks, Elsewhere, Mine
<1>4. ASSUME NEW w \in Workers, Starts(w) PROVE ReplayTruthful'
  BY <1>4 DEF Starts, OtherRuns, ClaimCarried, Carrying
<1>5. ASSUME NEW w \in Workers, Concludes(w) PROVE ReplayTruthful'
  <2> DEFINE k == work[w].key
             n == work[w].owner
  <2>1. /\ n \in 1..claims /\ runs[n].key = k
        /\ runs[n].state \in {"claimed", "open"}
    BY <1>5 DEF Concludes, ClaimCarried
  <2>2. ASSUME NEW j \in Keys, j # k, Present(records[j]),
               records[j].status = "COMPLETED"
        PROVE  records[j].owner \in 1..claims /\ records[j].owner # n
    BY <2>1, <2>2
  <2>3. ASSUME NEW m \in 1..claims, m # n PROVE runs'[m] = runs[m]
    BY <1>5, <2>3 DEF Concludes, OtherRuns
  <2>4. records'[k].status = "COMPLETED" =>
          /\ records'[k].response = n /\ records'[k].owner = n
          /\ runs'[n].state = "succeeded" /\ runs'[n].key = k
    BY <1>5, <2>1 DEF Concludes, Failed
  <2>5. \A j \in Keys : j # k => records'[j] = records[j]
    BY <1>5 DEF Concludes, Elsewhere
  <2> QED BY <2>2, <2>3, <2>4, <2>5
<1>6. ASSUME NEW k \in Keys, Recovers(k) PROVE ReplayTruthful'
  BY <1>6 DEF Recovers, Elsewhere
<1>7. ASSUME NEW k \in Keys, GivesUp(k) PROVE ReplayTruthful'
  BY <1>7 DEF GivesUp, Elsewhere, OtherRuns
<1>8. ASSUME NEW k \in Keys, Removes(k) PROVE ReplayTruthful'
  BY <1>8, EmptyTyped DEF Removes, Elsewhere
<1>9. CASE Waits
  BY <1>9 DEF Waits
<1> QED BY <1>1, <1>2, <1>3, <1>4, <1>5, <1>6, <1>7, <1>8, <1>9, StepWrites

-----------------------------------------------------------------------------
(* The types and the invariant hold together. *)
THEOREM Invariance == Spec => [](TypeOK /\ TriggerInv)
<1>1. Init => TypeOK /\ TriggerInv
  <2> SUFFICES ASSUME Init PROVE TypeOK /\ TriggerInv
    OBVIOUS
  <2>1. TypeOK
    BY EmptyTyped DEF Init, TypeOK, Stages, Failed, RunType
  <2>2. \A n \in 1..MaxClaims : runs[n].state = "none"
    BY DEF Init
  <2>3. LockHeld /\ OwnersFresh /\ ClaimCarried
    BY <2>2, EmptyTyped DEF Init, LockHeld, LockedStages, OwnersFresh,
       ClaimCarried, Carrying, Present
  <2>4. RecordTimes /\ ClaimStands /\ NoRival /\ ReplayTruthful
    BY <2>2, EmptyTyped DEF Init, RecordTimes, ClaimStands, NoRival,
       ReplayTruthful, Present
  <2> QED BY <2>1, <2>3, <2>4 DEF TriggerInv
<1>2. TypeOK /\ TriggerInv /\ [Next]_vars => TypeOK' /\ TriggerInv'
  <2> SUFFICES ASSUME TypeOK, TriggerInv, [Next]_vars
               PROVE  TypeOK' /\ TriggerInv'
    OBVIOUS
  <2>1. TypeOK'
    BY TypeStep
  <2>2. /\ LockHeld /\ OwnersFresh /\ ClaimCarried /\ RecordTimes
        /\ ClaimStands /\ NoRival /\ ReplayTruthful
    BY DEF TriggerInv
  <2>3. LockHeld' /\ OwnersFresh' /\ ClaimCarried'
    BY <2>1, <2>2, LockStep, OwnersStep, CarriedStep
  <2>4. RecordTimes' /\ ClaimStands' /\ NoRival' /\ ReplayTruthful'
    BY <2>1, <2>2, TimesStep, StandsStep, RivalStep, ReplayStep
  <2> QED BY <2>1, <2>3, <2>4 DEF TriggerInv
<1> QED BY <1>1, <1>2, PTL DEF Spec

(* Every variable keeps its type in every run. *)
THEOREM TypeCorrect == Spec => []TypeOK
BY Invariance, PTL

(* The strengthening: fresh owners, claims that stand until their time is  *)
(* over, and no rival of a worker that verified its claim under the lock.  *)
THEOREM TriggerInvariant == Spec => []TriggerInv
BY Invariance, PTL

(* The OS lock is with the worker that is between taking and returning it. *)
THEOREM LockNeverLost == Spec => []LockHeld
<1>1. TriggerInv => LockHeld
  BY DEF TriggerInv
<1> QED BY <1>1, Invariance, PTL

(* At most one process runs the monitoring runner.                         *)
THEOREM RunsAlone == Spec => []OneRunner
<1>1. TriggerInv => OneRunner
  BY DEF TriggerInv, LockHeld, OneRunner, LockedStages
<1> QED BY <1>1, Invariance, PTL

(* A replayed result is the result of a successful run of that request.    *)
THEOREM ReplaysTruthfully == Spec => []ReplayTruthful
<1>1. TriggerInv => ReplayTruthful
  BY DEF TriggerInv
<1> QED BY <1>1, Invariance, PTL

(* A claim's run begins in StartRun only, and then no rival's time is      *)
(* running.                                                                *)
LEMMA StartAlone ==
  ASSUME TypeOK, TriggerInv, [Next]_vars,
         NEW n \in 1..MaxClaims, NEW m \in 1..MaxClaims,
         runs[n].state = "claimed", runs'[n].state = "open",
         m # n, runs[m].key = runs[n].key,
         runs[m].state \in {"open", "succeeded"}
  PROVE  runs[m].until <= now
<1>1. ClaimCarried /\ NoRival
  BY DEF TriggerInv
<1>2. PICK w \in Workers : Starts(w) /\ n = work[w].owner
  BY <1>1, StepWrites, Typed
     DEF Fields, Passes, Claims, Marks, Starts, Concludes, OtherRuns,
         Recovers, GivesUp, Removes, Waits
<1>3. runs[n].key = work[w].key /\ pc[w] = "marked"
  BY <1>1, <1>2 DEF Starts, ClaimCarried, Carrying
<1> QED BY <1>1, <1>2, <1>3 DEF NoRival

(* The runner is not invoked again before the earlier run's time is over.  *)
THEOREM NeverRepeats == Spec => NotRepeated
<1>1. TypeOK /\ TriggerInv /\ [Next]_vars =>
        [\A n, m \in 1..MaxClaims :
           /\ runs[n].state = "claimed" /\ runs'[n].state = "open"
           /\ m # n /\ runs[m].key = runs[n].key
           /\ runs[m].state \in {"open", "succeeded"}
           => runs[m].until <= now]_vars
  BY StartAlone
<1> QED BY <1>1, Invariance, PTL DEF Spec, NotRepeated

-----------------------------------------------------------------------------
(* The refinement of MonitoringRuns.                                       *)

AnswerOf(r) == IF Present(r) /\ r.status = "COMPLETED" THEN r.response ELSE 0

(* A step that writes one record changes that request's answer only. *)
LEMMA AnswersMove ==
  ASSUME NEW k \in Keys, Elsewhere(k)
  PROVE  Answers' = [Answers EXCEPT ![k] = AnswerOf(records'[k])]
BY DEF Answers, AnswerOf, Elsewhere, Present

LEMMA AnswersStay == ASSUME records' = records PROVE Answers' = Answers
BY DEF Answers, Present

(* An answer is the result of the claim its record is under. *)
LEMMA AnswerStored ==
  ASSUME TypeOK, ReplayTruthful, NEW k \in Keys, NEW n \in 1..MaxClaims,
         Answers[k] = n
  PROVE  /\ Present(records[k]) /\ records[k].status = "COMPLETED"
         /\ records[k].owner = n
         /\ runs[n].state = "succeeded" /\ runs[n].key = k
BY DEF Answers, ReplayTruthful

(* An answer goes only when its time is over. *)
LEMMA AnswerLapses ==
  ASSUME TypeOK, ReplayTruthful, ReplayTruthful', ClaimStands', now' = now,
         NEW k \in Keys, Elsewhere(k), AnswerOf(records'[k]) = 0,
         \A n \in 1..MaxClaims :
           Answers[k] = n => runs'[n] = runs[n]
  PROVE  Runs!Lapses(k)
<1>1. ASSUME NEW n \in 1..MaxClaims, Answers[k] = n
      PROVE  ~(runs[n].until > now)
  <2>1. runs'[n] = runs[n] /\ runs[n].state = "succeeded" /\ runs[n].key = k
    BY <1>1, AnswerStored
  <2>2. CASE runs[n].until > now
    <3>1. /\ Present(records'[k]) /\ records'[k].status = "COMPLETED"
          /\ records'[k].owner = n
      BY <2>1, <2>2 DEF ClaimStands
    <3>2. records'[k].response = 0
      BY <3>1 DEF AnswerOf
    <3> QED BY <3>1, <3>2 DEF ReplayTruthful
  <2> QED BY <2>2
<1> QED BY <1>1, AnswersMove DEF Runs!Lapses, Runs!Lasts, Runs!Claims, Runs!NoAnswer

(* The runner is busy exactly while a worker is in it. *)
LEMMA RunnerBusy ==
  ASSUME NEW w \in Workers, pc[w] = "running", LockHeld
  PROVE  Running = {work[w].owner}
<1>1. \A v \in Workers : pc[v] = "running" => v = w
  BY DEF LockHeld, LockedStages
<1> QED BY <1>1 DEF Running

LEMMA RunnerIdle ==
  ASSUME \A v \in Workers : pc[v] # "running"
  PROVE  Running = {}
BY DEF Running

(* A step that moves no worker into the runner or out of it. *)
LEMMA RunnerStays ==
  ASSUME \A v \in Workers : /\ pc[v] = "running" <=> pc'[v] = "running"
                            /\ pc[v] = "running" => work'[v] = work[v]
  PROVE  Running' = Running
BY DEF Running

(* The steps of a worker. *)
LEMMA PassesRuns ==
  ASSUME TypeOK, LockHeld, LockHeld', NEW w \in Workers, Passes(w)
  PROVE  Runs!Next \/ UNCHANGED Runs!vars
<1>1. Answers' = Answers /\ runs' = runs /\ now' = now
  BY AnswersStay DEF Passes
<1>2. CASE pc[w] = "running"
  <2>1. Running = {work[w].owner}
    BY <1>2, RunnerBusy
  <2>2. \A v \in Workers : pc'[v] # "running"
    BY <1>2 DEF Passes, Others, LockHeld, LockedStages
  <2>3. Running' = {}
    BY <2>2 DEF Running
  <2>4. Runs!Leave
    BY <1>1, <2>1, <2>3 DEF Runs!Leave
  <2> QED BY <2>4 DEF Runs!Next
<1>3. CASE pc[w] # "running"
  <2>1. Running' = Running
    BY <1>3, RunnerStays DEF Passes, Others
  <2> QED BY <1>1, <2>1 DEF Runs!vars
<1> QED BY <1>2, <1>3

LEMMA ClaimsRuns ==
  ASSUME TypeOK, TypeOK', TriggerInv, TriggerInv',
         NEW w \in Workers, Claims(w)
  PROVE  Runs!Next
<1> DEFINE k == work[w].key
           n == claims + 1
<1>1. k \in Keys /\ n \in 1..MaxClaims /\ n \in Runs!Claims /\ now' = now
  BY Typed DEF Fields, Claims, Runs!Claims
<1>2. runs[n].state = "none"
  BY <1>1, Typed DEF TriggerInv, OwnersFresh, Fields
<1>3. runs'[n] \in RunType /\ runs'[n].key = k /\ runs'[n].state = "claimed"
  BY <1>1 DEF Claims, TypeOK
<1>4. runs'[n] = [key |-> k, state |-> "claimed", until |-> runs'[n].until]
  BY <1>3 DEF RunType
<1>5. runs' = [runs EXCEPT ![n] = [key |-> k, state |-> "claimed",
                                   until |-> runs'[n].until]]
  BY <1>1, <1>4 DEF Claims, OtherRuns, TypeOK
<1>6. Running' = Running
  BY RunnerStays DEF Claims, Others
<1>7. Runs!Lapses(k)
  <2>1. Elsewhere(k) /\ AnswerOf(records'[k]) = 0
    BY DEF Claims, AnswerOf
  <2>2. ASSUME NEW m \in 1..MaxClaims, Answers[k] = m PROVE runs'[m] = runs[m]
    <3>1. runs[m].state = "succeeded"
      BY <1>1, <2>2, AnswerStored DEF TriggerInv
    <3> QED BY <1>2, <3>1 DEF Claims, OtherRuns
  <2> QED BY <1>1, <2>1, <2>2, AnswerLapses DEF TriggerInv
<1>8. Runs!Accept(n, k)
  BY <1>1, <1>2, <1>5, <1>6, <1>7 DEF Runs!Accept
<1> QED BY <1>1, <1>8 DEF Runs!Next

LEMMA StartsRuns ==
  ASSUME TypeOK, TypeOK', TriggerInv, TriggerInv',
         NEW w \in Workers, Starts(w)
  PROVE  Runs!Next
<1> DEFINE n == work[w].owner
<1>1. /\ n \in 1..MaxClaims /\ n \in Runs!Claims /\ now' = now
      /\ runs[n].state = "claimed" /\ runs[n].key = work[w].key
  BY Typed DEF Fields, TriggerInv, ClaimCarried, Carrying, Starts, Runs!Claims
<1>2. \A v \in Workers : pc[v] # "running"
  BY DEF Starts, TriggerInv, LockHeld, LockedStages
<1>3. Running = {}
  BY <1>2, RunnerIdle
<1>4. Running' = {n}
  <2>1. \A v \in Workers : pc'[v] = "running" => v = w
    BY <1>2 DEF Starts, Others
  <2>2. pc'[w] = "running" /\ work'[w].owner = n
    BY DEF Starts
  <2> QED BY <2>1, <2>2 DEF Running
<1>5. runs' = [runs EXCEPT ![n].state = "open"]
  <2>1. runs[n] \in RunType /\ runs'[n] \in RunType
    BY <1>1 DEF TypeOK
  <2>2. runs'[n] = [runs[n] EXCEPT !.state = "open"]
    BY <2>1 DEF RunType, Starts
  <2> QED BY <1>1, <2>2 DEF Starts, OtherRuns, TypeOK
<1>6. \A m \in 1..MaxClaims :
        /\ m # n /\ runs[m].key = runs[n].key
        /\ runs[m].state \in {"open", "succeeded"}
        => ~(runs[m].until > now)
  BY <1>1, Typed DEF Fields, TriggerInv, NoRival, Starts
<1>7. Answers' = Answers
  BY AnswersStay DEF Starts
<1>8. Runs!Start(n)
  BY <1>1, <1>3, <1>4, <1>5, <1>6, <1>7
     DEF Runs!Start, Runs!Lasts, Runs!Claims
<1> QED BY <1>1, <1>8 DEF Runs!Next

LEMMA ConcludesRuns ==
  ASSUME TypeOK, TypeOK', TriggerInv, TriggerInv',
         NEW w \in Workers, Concludes(w)
  PROVE  Runs!Next
<1> DEFINE k == work[w].key
           n == work[w].owner
<1>1. /\ n \in 1..MaxClaims /\ n \in Runs!Claims /\ k \in Keys /\ now' = now
      /\ runs[n].state \in {"claimed", "open"} /\ runs[n].key = k
  BY Typed DEF Fields, TriggerInv, ClaimCarried, Concludes, Runs!Claims
<1>2. Running' = Running /\ n \notin Running
  <2>1. Running' = Running
    BY RunnerStays DEF Concludes, Others, Carrying
  <2>2. ASSUME NEW v \in Workers, pc[v] = "running" PROVE work[v].owner # n
    BY <2>2 DEF Concludes, TriggerInv, OwnersFresh, Carrying
  <2> QED BY <2>1, <2>2 DEF Running
<1>3. runs[n] \in RunType /\ runs'[n] \in RunType /\ runs'[n].key = k
  BY <1>1 DEF TypeOK, Concludes
<1>4. OtherRuns(n) /\ Elsewhere(k)
  BY DEF Concludes
<1>5. Answers[k] = 0
  <2>1. records[k].status # "COMPLETED"
    BY DEF Concludes, Active
  <2> QED BY <1>1, <2>1 DEF Answers
<1>6. Answers' = [Answers EXCEPT ![k] = AnswerOf(records'[k])]
  BY <1>1, <1>4, AnswersMove
<1>7. CASE runs'[n].state = "succeeded"
  <2>1. /\ records'[k].status = "COMPLETED" /\ records'[k].response = n
        /\ pc[w] = "completing" /\ runs'[n].until = records[k].expires
        /\ records'[k].generation = records[k].generation /\ Mine(w)
    BY <1>7 DEF Concludes
  <2>2. AnswerOf(records'[k]) = n
    BY <2>1 DEF AnswerOf, Present, Mine, Record
  <2>3. runs[n].state = "open"
    BY <2>1 DEF TriggerInv, ClaimCarried, Carrying
  <2>4. runs[n].until > now => runs'[n].until >= runs[n].until
    BY <1>1, <2>1, <2>3, Typed DEF Fields, TriggerInv, ClaimStands
  <2>5. runs' = [runs EXCEPT ![n] = [@ EXCEPT !.state = "succeeded",
                                              !.until = runs'[n].until]]
    <3>1. runs'[n] = [runs[n] EXCEPT !.state = "succeeded",
                                     !.until = runs'[n].until]
      BY <1>1, <1>3, <1>7 DEF RunType
    <3> QED BY <1>1, <1>4, <3>1 DEF OtherRuns, TypeOK
  <2>6. Runs!Succeed(n)
    BY <1>1, <1>2, <1>6, <2>2, <2>3, <2>4, <2>5
       DEF Runs!Succeed, Runs!Lasts, Runs!Claims
  <2> QED BY <1>1, <2>6 DEF Runs!Next
<1>8. CASE runs'[n].state # "succeeded"
  <2>1. /\ records'[k].status \in Failed /\ runs'[n].state = "failed"
        /\ runs'[n].until = runs[n].until
    BY <1>8 DEF Concludes
  <2>2. AnswerOf(records'[k]) = 0
    BY <2>1 DEF AnswerOf, Failed
  <2>3. Answers' = Answers
    BY <1>1, <1>5, <1>6, <2>2 DEF Answers
  <2>4. runs' = [runs EXCEPT ![n].state = "failed"]
    <3>1. runs'[n] = [runs[n] EXCEPT !.state = "failed"]
      BY <1>1, <1>3, <2>1 DEF RunType
    <3> QED BY <1>1, <1>4, <3>1 DEF OtherRuns, TypeOK
  <2>5. Runs!Fail(n)
    BY <1>1, <1>2, <1>5, <2>3, <2>4 DEF Runs!Fail, Runs!Claims, Runs!NoAnswer
  <2> QED BY <1>1, <2>5 DEF Runs!Next
<1> QED BY <1>7, <1>8

(* The store's maintenance and the clock. *)
LEMMA KeysRuns ==
  ASSUME TypeOK, TypeOK', TriggerInv, TriggerInv', NEW k \in Keys,
         Recovers(k) \/ GivesUp(k) \/ Removes(k)
  PROVE  Runs!Next \/ UNCHANGED Runs!vars
<1>1. Elsewhere(k) /\ now' = now /\ pc' = pc /\ work' = work
  BY DEF Recovers, GivesUp, Removes
<1>2. Running' = Running
  BY <1>1, RunnerStays
<1>3. AnswerOf(records'[k]) = 0
  BY EmptyTyped DEF AnswerOf, Recovers, GivesUp, Removes, Present
<1>4. Answers' = [Answers EXCEPT ![k] = 0]
  BY <1>1, <1>3, AnswersMove
<1>5. CASE Recovers(k) \/ Removes(k)
  <2>1. runs' = runs
    BY <1>5 DEF Recovers, Removes
  <2>2. Runs!Lapses(k)
    BY <1>1, <1>3, <2>1, AnswerLapses DEF TriggerInv
  <2>3. Runs!Forget(k)
    BY <1>1, <1>2, <2>1, <2>2 DEF Runs!Forget
  <2> QED BY <2>3 DEF Runs!Next
<1>6. CASE GivesUp(k)
  <2> DEFINE n == records[k].owner
  <2>1. /\ n \in 1..MaxClaims /\ n \in Runs!Claims
        /\ runs[n] \in RunType /\ runs'[n] \in RunType
    BY <1>6, Typed DEF GivesUp, TriggerInv, OwnersFresh, Fields, TypeOK,
       Runs!Claims
  <2>2. Answers' = Answers
    BY <1>4, <1>6 DEF GivesUp, Answers, Active
  <2>3. OtherRuns(n)
    BY <1>6 DEF GivesUp
  <2>4. runs'[n].key = runs[n].key /\ runs'[n].state = runs[n].state
    BY <1>6, <2>1 DEF GivesUp
  <2>5. CASE runs'[n].until = runs[n].until
    <3>1. runs'[n] = runs[n]
      BY <2>1, <2>4, <2>5 DEF RunType
    <3>2. runs' = runs
      BY <2>1, <2>3, <3>1 DEF OtherRuns, TypeOK
    <3> QED BY <1>1, <1>2, <2>2, <3>2 DEF Runs!vars
  <2>6. CASE runs'[n].until # runs[n].until
    <3>1. runs[n].until > now /\ runs'[n].until = now
      BY <1>6, <2>1, <2>6 DEF GivesUp
    <3>2. runs[n].state # "succeeded"
      <4>1. Present(records[k]) /\ records[k].status \in Active
        BY <1>6 DEF GivesUp
      <4>2. ASSUME runs[n].state = "succeeded"
            PROVE  FALSE
        <5> DEFINE j == runs[n].key
        <5>1. j \in Keys
          BY <2>1 DEF RunType
        <5>2. /\ Present(records[j]) /\ records[j].owner = n
              /\ records[j].status = "COMPLETED"
          BY <2>1, <3>1, <4>2 DEF TriggerInv, ClaimStands
        <5>3. j # k
          BY <4>1, <5>2 DEF Active
        <5> QED BY <4>1, <5>1, <5>2, <5>3 DEF TriggerInv, OwnersFresh
      <4> QED BY <4>2
    <3>3. runs'[n] = [runs[n] EXCEPT !.until = now]
      BY <2>1, <2>4, <3>1 DEF RunType
    <3>4. runs' = [runs EXCEPT ![n].until = now]
      BY <2>1, <2>3, <3>3 DEF OtherRuns, TypeOK
    <3>5. Runs!GiveUp(n)
      BY <1>1, <1>2, <2>2, <3>1, <3>2, <3>4 DEF Runs!GiveUp, Runs!Lasts
    <3> QED BY <2>1, <3>5 DEF Runs!Next
  <2> QED BY <2>5, <2>6
<1> QED BY <1>5, <1>6

LEMMA RunsStep ==
  ASSUME TypeOK, TypeOK', TriggerInv, TriggerInv', [Next]_vars
  PROVE  Runs!Next \/ UNCHANGED Runs!vars
<1>1. LockHeld /\ ClaimCarried /\ LockHeld'
  BY DEF TriggerInv
<1>2. CASE Waits
  <2>1. Answers' = Answers /\ Running' = Running /\ runs' = runs
    BY <1>2, AnswersStay, RunnerStays DEF Waits
  <2>2. CASE now' = now + 1
    BY <2>1, <2>2 DEF Runs!Next, Runs!Tick
  <2>3. CASE now' = now
    BY <2>1, <2>3 DEF Runs!vars
  <2> QED BY <1>2, <2>2, <2>3 DEF Waits
<1>3. ASSUME NEW w \in Workers,
             Passes(w) \/ Claims(w) \/ Starts(w) \/ Concludes(w)
      PROVE  Runs!Next \/ UNCHANGED Runs!vars
  BY <1>1, <1>3, PassesRuns, ClaimsRuns, StartsRuns, ConcludesRuns
<1>4. ASSUME NEW w \in Workers, Marks(w) PROVE UNCHANGED Runs!vars
  <2> DEFINE k == work[w].key
  <2>1. k \in Keys /\ Elsewhere(k) /\ runs' = runs /\ now' = now
    BY <1>4, Typed DEF Marks, Fields
  <2>2. Running' = Running
    BY <1>4, RunnerStays DEF Marks, Others
  <2>3. Answers[k] = 0 /\ AnswerOf(records'[k]) = 0
    <3>1. records'[k].status # "COMPLETED"
      BY <1>4 DEF Marks
    <3>2. CASE records[k].status = "COMPLETED"
      <4>1. Present(records[k]) /\ records[k].owner = work[w].owner
        BY <1>4 DEF Marks, Mine, Record
      <4>2. runs[work[w].owner].state = "succeeded"
        BY <2>1, <3>2, <4>1 DEF TriggerInv, ReplayTruthful
      <4> QED BY <1>1, <1>4, <4>2 DEF Marks, ClaimCarried, Carrying
    <3> QED BY <2>1, <3>1, <3>2 DEF Answers, AnswerOf
  <2>4. Answers' = [Answers EXCEPT ![k] = AnswerOf(records'[k])]
    BY <2>1, AnswersMove
  <2>5. Answers' = Answers
    BY <2>1, <2>3, <2>4 DEF Answers
  <2> QED BY <2>1, <2>2, <2>5 DEF Runs!vars
<1> QED BY <1>1, <1>2, <1>3, <1>4, StepWrites, KeysRuns

LEMMA RunsInit == ASSUME Init PROVE Runs!Init
<1>1. \A n \in Runs!Claims : runs[n].state = "none"
  BY DEF Init, Runs!Claims
<1>2. Running = {}
  BY DEF Init, Running
<1>3. Answers = [k \in Keys |-> 0]
  BY EmptyTyped DEF Init, Answers, Present
<1> QED BY <1>1, <1>2, <1>3 DEF Init, Runs!Init, Runs!NoAnswer

(* Requests that are sent again see one run at a time, none while an       *)
(* earlier one counts, and its result for as long as it does: the steps of *)
(* the workers, their crashes and the store's maintenance are steps of     *)
(* MonitoringRuns.                                                         *)
THEOREM TriggerRefinesRuns == Spec => ImplementsRuns
<1>1. TypeOK /\ TriggerInv /\ TypeOK' /\ TriggerInv' /\ [Next]_vars =>
        [Runs!Next]_(Runs!vars)
  BY RunsStep
<1>2. Init => Runs!Init
  BY RunsInit
<1> QED BY <1>1, <1>2, Invariance, PTL DEF Spec, ImplementsRuns, Runs!Spec
=============================================================================
