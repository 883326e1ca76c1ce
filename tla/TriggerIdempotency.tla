------------------------- MODULE TriggerIdempotency -------------------------
(***************************************************************************)
(* The Supervisor's manual monitoring trigger: at most one process runs the *)
(* monitoring runner at a time, and a request that is sent again is        *)
(* answered from the stored result instead of being run again.             *)
(*                                                                         *)
(* A worker is one call of MonitoringTriggerCoordinator.coordinate in one  *)
(* server process.  It claims the request in the SQLite store, takes the   *)
(* OS advisory lock, reads its claim again, runs and stores the outcome.   *)
(* Each store operation is one BEGIN IMMEDIATE transaction, so one step; a *)
(* worker may die between any two, and the kernel then drops its lock.     *)
(*                                                                         *)
(* Time is a small clock.  A worker reads it once, when it starts, and     *)
(* stamps every write of its own with that moment.                         *)
(***************************************************************************)
EXTENDS Integers, FiniteSets

CONSTANTS
  Workers, Keys, Fingerprints,
  Free,                \* nobody holds the OS lock
  Ttl,                 \* default_ttl_seconds
  Lease,               \* lease_seconds
  Duration,            \* max_duration_seconds of a run
  CompletedRetention, FailedRetention,
  MaxActiveClaims,
  MaxTime,             \* bound on the clock
  MaxClaims            \* bound on the claims made, the store's owner ids

ASSUME LockValue == Free \notin Workers
ASSUME InputsExist == Keys # {} /\ Fingerprints # {}
ASSUME TimesNatural ==
  /\ Ttl \in Nat /\ Lease \in Nat /\ Duration \in Nat
  /\ CompletedRetention \in Nat /\ FailedRetention \in Nat
  /\ MaxActiveClaims \in Nat /\ MaxTime \in Nat /\ MaxClaims \in Nat
(* A result is kept for as long as it may be replayed. *)
ASSUME RetentionCoversTtl == CompletedRetention >= Ttl

VARIABLES
  records,     \* idempotency_records, by key
  lock,        \* the flock on the trigger's lock file
  pc, work,    \* where each worker is, and the request and claim it is for
  failure,     \* what a worker is to record of a run that did not succeed
  now,
  claims,      \* claims made so far; the last one's number is its owner id
  runs         \* history: what each claim was for and what became of its run

vars == <<records, lock, pc, work, failure, now, claims, runs>>

-----------------------------------------------------------------------------
Active == {"CLAIMED", "IN_PROGRESS"}
Failed == {"FAILED_RETRYABLE", "FAILED_FINAL"}
Statuses == Active \cup Failed \cup {"COMPLETED", "EXPIRED"}

(* generation 0: there is no record of the key.  response is the owner id  *)
(* of the run that produced it, 0 when there is none.                      *)
NoRecord == [status |-> "EXPIRED", fingerprint |-> CHOOSE f \in Fingerprints : TRUE,
             generation |-> 0, owner |-> 0, expires |-> 0, lease |-> 0,
             updated |-> 0, response |-> 0]
Present(r) == r.generation > 0

LockedStages == {"locked", "verified", "marked", "running", "completing",
                 "failing", "releasing"}
Stages == LockedStages \cup {"idle", "received", "claimed", "refused"}

(* A worker without a request. *)
NoWork == [key |-> CHOOSE k \in Keys : TRUE,
           fingerprint |-> NoRecord.fingerprint, moment |-> 0,
           generation |-> 0, owner |-> 0]

Stage(w, from, to) == pc[w] = from /\ pc' = [pc EXCEPT ![w] = to]
Return(w) ==
  /\ pc' = [pc EXCEPT ![w] = "idle"]
  /\ work' = [work EXCEPT ![w] = NoWork]
  /\ failure' = [failure EXCEPT ![w] = "FAILED_RETRYABLE"]
Record(w) == records[work[w].key]

Init ==
  /\ records = [k \in Keys |-> NoRecord]
  /\ lock = Free
  /\ pc = [w \in Workers |-> "idle"]
  /\ work = [w \in Workers |-> NoWork]
  /\ failure = [w \in Workers |-> "FAILED_RETRYABLE"]
  /\ now = 0 /\ claims = 0
  /\ runs = [n \in 1..MaxClaims |->
               [key |-> CHOOSE k \in Keys : TRUE, state |-> "none",
                until |-> 0]]

-----------------------------------------------------------------------------
(* The store.                                                              *)

ActiveClaims == {k \in Keys : Present(records[k]) /\ records[k].status \in Active}

(* Mutant of Expired: a result counts for as long as its claim's lease. *)
ExpiredByLease(r, moment) == r.status = "EXPIRED" \/ moment >= r.lease

Expired(r, moment) == r.status = "EXPIRED" \/ moment >= r.expires

(* claim: a new key within the capacity, or a record of the same request   *)
(* that has expired or failed retryably.  Everything else is answered: a   *)
(* replay, "in progress", a conflict, no capacity.                         *)
Claimable(r, fingerprint, moment) ==
  \/ ~Present(r) /\ Cardinality(ActiveClaims) < MaxActiveClaims
  \/ /\ Present(r)
     /\ r.fingerprint = fingerprint
     /\ Expired(r, moment) \/ r.status = "FAILED_RETRYABLE"

(* Mutant of Claimed: the lease ends before it starts. *)
ClaimedLeaseBackwards(r, fingerprint, moment) ==
  [status |-> "CLAIMED", fingerprint |-> fingerprint,
   generation |-> r.generation + 1, owner |-> claims + 1,
   expires |-> moment + Ttl, lease |-> moment - Lease,
   updated |-> moment, response |-> 0]

(* The record a claim writes: the next generation under a fresh owner.     *)
Claimed(r, fingerprint, moment) ==
  [status |-> "CLAIMED", fingerprint |-> fingerprint,
   generation |-> r.generation + 1, owner |-> claims + 1,
   expires |-> moment + Ttl, lease |-> moment + Lease,
   updated |-> moment, response |-> 0]

(* Mutant of Mine: the generation alone is compared. *)
MineByGeneration(w) ==
  /\ Present(Record(w))
  /\ Record(w).fingerprint = work[w].fingerprint
  /\ Record(w).generation = work[w].generation

(* _transition: the record is this worker's claim, unchanged since.        *)
Mine(w) ==
  /\ Present(Record(w))
  /\ Record(w).fingerprint = work[w].fingerprint
  /\ Record(w).generation = work[w].generation
  /\ Record(w).owner = work[w].owner

Write(w, status, response) ==
  records' = [records EXCEPT ![work[w].key] =
    [@ EXCEPT !.status = status, !.response = response,
              !.updated = work[w].moment]]

-----------------------------------------------------------------------------
(* A worker.                                                               *)

(* The request has passed flags, authorisation, rate limit and validation, *)
(* and its audit record is written; the coordinator's moment is now.       *)
Receive(w, k, f) ==
  /\ Stage(w, "idle", "received")
  /\ work' = [work EXCEPT ![w] =
       [NoWork EXCEPT !.key = k, !.fingerprint = f, !.moment = now]]
  /\ UNCHANGED <<records, lock, failure, now, claims, runs>>

Claim(w) ==
  /\ Stage(w, "received", "claimed")
  /\ claims < MaxClaims
  /\ Claimable(Record(w), work[w].fingerprint, work[w].moment)
  /\ records' = [records EXCEPT ![work[w].key] =
                   Claimed(@, work[w].fingerprint, work[w].moment)]
  /\ claims' = claims + 1
  /\ work' = [work EXCEPT ![w].generation = Record(w).generation + 1,
                          ![w].owner = claims + 1]
  /\ runs' = [runs EXCEPT ![claims + 1] =
       [key |-> work[w].key, state |-> "claimed",
        until |-> work[w].moment + IF Lease < Ttl THEN Lease ELSE Ttl]]
  /\ UNCHANGED <<lock, failure, now>>

(* A replay, a conflict, a run in progress, no capacity, or no store: the  *)
(* request is answered and nothing is written.                             *)
Answer(w) ==
  /\ pc[w] = "received"
  /\ Return(w)
  /\ UNCHANGED <<records, lock, now, claims, runs>>

(* Mutant of AcquireLock: the lock is not exclusive. *)
AcquireLockShared(w) ==
  /\ Stage(w, "claimed", "locked")
  /\ lock' = w
  /\ UNCHANGED <<records, work, failure, now, claims, runs>>

(* flock(LOCK_EX | LOCK_NB) and the owner metadata in the file. *)
AcquireLock(w) ==
  /\ Stage(w, "claimed", "locked")
  /\ lock = Free
  /\ lock' = w
  /\ UNCHANGED <<records, work, failure, now, claims, runs>>

(* The lock is busy, or its file cannot be used. *)
LockRefused(w) ==
  /\ Stage(w, "claimed", "refused")
  /\ UNCHANGED <<records, lock, work, failure, now, claims, runs>>

(* Mutant of VerifyClaim: the record is not read again. *)
VerifyClaimUnread(w) ==
  /\ Stage(w, "locked", "verified")
  /\ UNCHANGED <<records, lock, work, failure, now, claims, runs>>

(* acquire_for_claim reads the record again with the lock held. *)
VerifyClaim(w) ==
  /\ Stage(w, "locked", "verified")
  /\ Mine(w)
  /\ UNCHANGED <<records, lock, work, failure, now, claims, runs>>

(* _fence: the claim is not this worker's any more (final), or the record  *)
(* cannot be read or is gone (retryable).  The lock is dropped first.      *)
FenceClaim(w, outcome) ==
  /\ Stage(w, "locked", "refused")
  /\ outcome = "FAILED_FINAL" => Present(Record(w)) /\ ~Mine(w)
  /\ lock' = Free
  /\ failure' = [failure EXCEPT ![w] = outcome]
  /\ UNCHANGED <<records, work, now, claims, runs>>

(* mark_running, when it applies. *)
MarkRunning(w) ==
  /\ Stage(w, "verified", "marked")
  /\ Mine(w) /\ Record(w).status = "CLAIMED"
  /\ records' = [records EXCEPT ![work[w].key] =
       [@ EXCEPT !.status = "IN_PROGRESS", !.updated = work[w].moment,
                 !.lease = work[w].moment + Lease]]
  /\ UNCHANGED <<lock, work, failure, now, claims, runs>>

(* It is refused, or the store fails: the record keeps what it says. *)
MarkRefused(w) ==
  /\ Stage(w, "verified", "releasing")
  /\ UNCHANGED <<records, lock, work, failure, now, claims, runs>>

(* The budget is not used up: the runner is invoked. *)
StartRun(w) ==
  /\ Stage(w, "marked", "running")
  /\ now - work[w].moment < Duration
  /\ runs' = [runs EXCEPT ![work[w].owner].state = "open"]
  /\ UNCHANGED <<records, lock, work, failure, now, claims>>

DeadlinePassed(w) ==
  /\ Stage(w, "marked", "failing")
  /\ now - work[w].moment >= Duration
  /\ failure' = [failure EXCEPT ![w] = "FAILED_RETRYABLE"]
  /\ UNCHANGED <<records, lock, work, now, claims, runs>>

(* An exception, or a failure status of a run that was in time. *)
RunFails(w) ==
  /\ Stage(w, "running", "failing")
  /\ failure' = [failure EXCEPT ![w] = "FAILED_RETRYABLE"]
  /\ UNCHANGED <<records, lock, work, now, claims, runs>>

(* The runner returns after its deadline: its result is not used. *)
RunLate(w) ==
  /\ Stage(w, "running", "failing")
  /\ now - work[w].moment > Duration
  /\ failure' = [failure EXCEPT ![w] = "FAILED_FINAL"]
  /\ UNCHANGED <<records, lock, work, now, claims, runs>>

RunSucceeds(w) ==
  /\ Stage(w, "running", "completing")
  /\ now - work[w].moment <= Duration
  /\ UNCHANGED <<records, lock, work, failure, now, claims, runs>>

(* complete_success, when it applies. *)
CompleteSuccess(w) ==
  /\ Stage(w, "completing", "releasing")
  /\ Mine(w) /\ Record(w).status \in Active
  /\ Write(w, "COMPLETED", work[w].owner)
  /\ runs' = [runs EXCEPT ![work[w].owner] =
       [@ EXCEPT !.state = "succeeded", !.until = Record(w).expires]]
  /\ UNCHANGED <<lock, work, failure, now, claims>>

(* After a failed run the lock is still to be released; after a lock that  *)
(* was not had the call returns.                                           *)
AfterFailure(w) ==
  \/ /\ Stage(w, "failing", "releasing")
     /\ UNCHANGED <<work, failure>>
  \/ /\ pc[w] = "refused"
     /\ Return(w)

(* _mark_failure, when it applies. *)
MarkFailure(w) ==
  /\ AfterFailure(w)
  /\ Mine(w) /\ Record(w).status \in Active
  /\ Write(w, failure[w], 0)
  /\ runs' = [runs EXCEPT ![work[w].owner].state = "failed"]
  /\ UNCHANGED <<lock, now, claims>>

(* A terminal write is refused, or the store fails; nobody tries again. *)
FailureRefused(w) ==
  /\ AfterFailure(w)
  /\ UNCHANGED <<records, lock, now, claims, runs>>

CompletionRefused(w) ==
  /\ Stage(w, "completing", "releasing")
  /\ UNCHANGED <<records, lock, work, failure, now, claims, runs>>

Release(w) ==
  /\ pc[w] = "releasing"
  /\ Return(w)
  /\ lock' = Free
  /\ UNCHANGED <<records, now, claims, runs>>

(* The process dies, or a claim-only caller leaves with its claim. *)
Crash(w) ==
  /\ pc[w] # "idle"
  /\ Return(w)
  /\ lock' = IF lock = w THEN Free ELSE lock
  /\ UNCHANGED <<records, now, claims, runs>>

-----------------------------------------------------------------------------
(* The store's maintenance operations.                                     *)

(* recover_abandoned_claim.  Its caller brings the evidence: that the lease *)
(* is past, which stays so, and that the lock was free, which need not, so *)
(* nothing is asked of the lock here.  The expiry is not renewed, and the  *)
(* new owner id is told to nobody.                                         *)
Recover(k) ==
  /\ claims < MaxClaims
  /\ k \in ActiveClaims
  /\ records[k].lease <= now
  /\ records' = [records EXCEPT ![k] =
       [records[k] EXCEPT
          !.status = "CLAIMED", !.generation = records[k].generation + 1,
          !.owner = claims + 1, !.updated = now,
          !.lease = now + Lease, !.response = 0]]
  /\ claims' = claims + 1
  /\ UNCHANGED <<lock, pc, work, failure, now, runs>>

(* expire_record: the claim's owner gives it up. *)
ExpireRecord(k) ==
  /\ k \in ActiveClaims
  /\ records' = [records EXCEPT ![k] =
       [@ EXCEPT !.status = "EXPIRED", !.updated = now]]
  /\ runs' = [n \in DOMAIN runs |->
       IF n = records[k].owner /\ runs[n].until > now
       THEN [runs[n] EXCEPT !.until = now] ELSE runs[n]]
  /\ UNCHANGED <<lock, pc, work, failure, now, claims>>

(* Mutant of Removable: completed results are dropped a tick early. *)
RemovableEarly(r) ==
  /\ Present(r) /\ r.status \notin Active
  /\ r.updated + (IF r.status \in Failed THEN FailedRetention
                  ELSE CompletedRetention - 1) <= now

Removable(r) ==
  /\ Present(r) /\ r.status \notin Active
  /\ r.updated + (IF r.status \in Failed THEN FailedRetention
                  ELSE CompletedRetention) <= now

(* cleanup deletes the oldest records of its batch, active ones never.     *)
Cleanup(k) ==
  /\ Removable(records[k])
  /\ records' = [records EXCEPT ![k] = NoRecord]
  /\ UNCHANGED <<lock, pc, work, failure, now, claims, runs>>

Tick ==
  /\ now < MaxTime
  /\ now' = now + 1
  /\ UNCHANGED <<records, lock, pc, work, failure, claims, runs>>

-----------------------------------------------------------------------------
WorkerStep(w) ==
  \/ Claim(w) \/ Answer(w)
  \/ AcquireLock(w) \/ LockRefused(w)
  \/ VerifyClaim(w) \/ (\E outcome \in Failed : FenceClaim(w, outcome))
  \/ MarkRunning(w) \/ MarkRefused(w)
  \/ StartRun(w) \/ DeadlinePassed(w)
  \/ RunFails(w) \/ RunLate(w) \/ RunSucceeds(w)
  \/ CompleteSuccess(w) \/ CompletionRefused(w)
  \/ MarkFailure(w) \/ FailureRefused(w)
  \/ Release(w)

Next ==
  \/ \E w \in Workers :
       \/ \E k \in Keys, f \in Fingerprints : Receive(w, k, f)
       \/ WorkerStep(w)
       \/ Crash(w)
  \/ \E k \in Keys : Recover(k) \/ ExpireRecord(k) \/ Cleanup(k)
  \/ Tick

Spec == Init /\ [][Next]_vars

-----------------------------------------------------------------------------
(* Properties.                                                             *)

RecordType ==
  [status: Statuses, fingerprint: Fingerprints, generation: Nat,
   owner: 0..MaxClaims, expires: Nat, lease: Nat, updated: Nat,
   response: 0..MaxClaims]
WorkType ==
  [key: Keys, fingerprint: Fingerprints, moment: 0..MaxTime,
   generation: Nat, owner: 0..MaxClaims]
RunType == [key: Keys, state: {"none", "claimed", "open", "failed", "succeeded"},
            until: Nat]

(* Every variable has its type. *)
TypeOK ==
  /\ records \in [Keys -> RecordType]
  /\ lock \in Workers \cup {Free}
  /\ pc \in [Workers -> Stages]
  /\ work \in [Workers -> WorkType] /\ failure \in [Workers -> Failed]
  /\ now \in 0..MaxTime /\ claims \in 0..MaxClaims
  /\ runs \in [1..MaxClaims -> RunType]

(* The monitoring runner is in at most one process, whatever processes die *)
(* and whatever claims expire or are recovered while it runs.              *)
OneRunner ==
  \A v, w \in Workers :
    pc[v] = "running" /\ pc[w] = "running" => v = w

(* What a retry is answered with is the result of a run of that very       *)
(* request that succeeded, stored by the claim the record is under.        *)
ReplayTruthful ==
  \A k \in Keys :
    Present(records[k]) /\ records[k].status = "COMPLETED" =>
      /\ records[k].response = records[k].owner
      /\ runs[records[k].owner].state = "succeeded"
      /\ runs[records[k].owner].key = k

(* The runner is not invoked again for a request that ran to success, or   *)
(* whose run ended in a crash or a failed write, before that claim has     *)
(* expired or its lease is over; only a recorded failure is retried sooner. *)
NotRepeated ==
  [][\A n, m \in 1..MaxClaims :
       /\ runs[n].state = "claimed" /\ runs'[n].state = "open"
       /\ m # n /\ runs[m].key = runs[n].key
       /\ runs[m].state \in {"open", "succeeded"}
       => runs[m].until <= now]_vars

(* The OS lock never outlives the call that took it: a fenced, refused,    *)
(* failed or dead worker does not leave the trigger busy for the others.   *)
LockHeld == \A w \in Workers : lock = w <=> pc[w] \in LockedStages

(* Why these hold.  Owner ids are fresh, and each names one claim.         *)
Carrying == {"claimed", "locked", "verified", "marked", "running",
             "completing", "failing", "refused"}
OwnersFresh ==
  /\ \A n \in 1..MaxClaims : n > claims => runs[n].state = "none"
  /\ \A k \in Keys : Present(records[k]) => records[k].owner \in 1..claims
  /\ \A j, k \in Keys :
       Present(records[j]) /\ Present(records[k]) /\ j # k
         => records[j].owner # records[k].owner
  /\ \A v, w \in Workers :
       pc[v] \in Carrying /\ pc[w] \in Carrying /\ v # w
         => work[v].owner # work[w].owner
(* What a worker carries is a claim of its own, not concluded yet, which   *)
(* is run by this worker only, and once.                                   *)
ClaimCarried ==
  \A w \in Workers :
    /\ work[w].moment <= now
    /\ pc[w] \in Carrying =>
         /\ work[w].owner \in 1..claims
         /\ runs[work[w].owner].key = work[w].key
         /\ runs[work[w].owner].state \in {"claimed", "open"}
         /\ pc[w] \in {"claimed", "locked", "verified", "marked"} =>
              runs[work[w].owner].state = "claimed"
         /\ pc[w] \in {"running", "completing"} =>
              runs[work[w].owner].state = "open"
         /\ runs[work[w].owner].until <= work[w].moment + Lease
         /\ runs[work[w].owner].until <= work[w].moment + Ttl
         /\ Mine(w) => Record(w).expires <= work[w].moment + Ttl
(* A record is stamped in the past, and is kept until it has expired.      *)
RecordTimes ==
  \A k \in Keys : Present(records[k]) =>
    /\ records[k].updated <= now
    /\ records[k].expires <= records[k].updated + Ttl
(* Until a claim's time is over the record is still under it.              *)
ClaimStands ==
  \A n \in 1..MaxClaims :
    LET r == records[runs[n].key]
    IN  /\ runs[n].state \in {"claimed", "open"} /\ runs[n].until > now =>
             /\ Present(r) /\ r.owner = n /\ r.status \in Active
             /\ runs[n].until <= r.expires /\ runs[n].until <= r.lease
        /\ runs[n].state = "succeeded" /\ runs[n].until > now =>
             /\ Present(r) /\ r.owner = n /\ r.status = "COMPLETED"
             /\ runs[n].until <= r.expires
(* A worker that found its claim unchanged under the lock has no rival     *)
(* whose time is not over, for as long as it holds the lock.               *)
NoRival ==
  \A w \in Workers : pc[w] \in {"verified", "marked"} =>
    \A m \in 1..MaxClaims :
      /\ m # work[w].owner /\ runs[m].key = work[w].key
      /\ runs[m].state \in {"open", "succeeded"}
      => runs[m].until <= now
TriggerInv ==
  /\ LockHeld /\ OwnersFresh /\ ClaimCarried /\ RecordTimes
  /\ ClaimStands /\ NoRival /\ ReplayTruthful

(* The trigger implements MonitoringRuns: one run at a time, none while an *)
(* earlier one counts, and true answers for as long as they count, across  *)
(* crashes, lost claims, recovery and clean-up.  What is answered is what  *)
(* a replay reads of the record.                                           *)
Running == {work[w].owner : w \in {v \in Workers : pc[v] = "running"}}
Answers ==
  [k \in Keys |->
     IF Present(records[k]) /\ records[k].status = "COMPLETED"
     THEN records[k].response ELSE 0]
Runs == INSTANCE MonitoringRuns WITH running <- Running, answers <- Answers
ImplementsRuns == Runs!Spec
=============================================================================
