--------------------------- MODULE LossGovernance ---------------------------
(***************************************************************************)
(* Money management: the loss state the runtime holds, the checkpoint that *)
(* makes it durable, and the permission a new entry is given from it.      *)
(*                                                                         *)
(* Three threads work on one state.  The feed thread brings trade and      *)
(* balance events to the runtime hook; the gate asks the hook to refresh   *)
(* the authority before it answers an entry; an HTTP call rebases the      *)
(* accounting, repairs a LIVE peak, recovers or changes the configuration. *)
(* The hook has a lock, the update dispatcher has a lock, the store has a  *)
(* lock; the projection that is published has none.                        *)
(*                                                                         *)
(* A fourth thread, the synchronization of cash flows, writes the file     *)
(* too: a state it has built from what it read there earlier.  It takes no *)
(* lock of the others and compares its own checkpoint's revision only.     *)
(*                                                                         *)
(* A risk state is its rank; which rank the metrics evaluate to is left    *)
(* open.  Sequence numbers move with revisions and are not kept apart.     *)
(***************************************************************************)
EXTENDS Integers

CONSTANTS
  Ranks,         \* the risk states that evaluations come to
  FeedKinds,     \* the events the feed brings: of trades, of balances
  MaxClock,      \* bound on the clock
  MaxRebases     \* bound on the authority records of the accounting

(* NORMAL, CAUTION, DEFENSIVE (hold new entries), LOCKED (block).          *)
Normal == 0
Locked == 3
Continues(rank) == rank <= 1

ASSUME RanksOrdered == Ranks \subseteq Normal..Locked /\ Normal \in Ranks
ASSUME FeedKindsKnown == FeedKinds \subseteq {"trade", "balance"}
ASSUME BoundsNatural == MaxClock \in Nat /\ MaxRebases \in Nat

VARIABLES
  app,           \* the lifecycle: running, or stopped; down: no process
  snap,          \* the runtime store's snapshot
  last,          \* the last revision the checkpoint coordinator saved
  file,          \* the loss state on disk
  flow,          \* the commit of cash flows: what it read, its journal
  overwritten,   \* history: such a commit has put back an older state,
                 \* and the runtime has not saved since
  event,         \* the last event adapted; its rank once applied, else 0
  request,       \* the update between the event adapter and the store
  hookStatus,    \* the hook's last dispatch status: none, ok, bad
  published,     \* the public projection
  metrics, clock,  \* when the account's metrics were last observed; the time
  pc,            \* where each thread is
  view,          \* the projection a thread has built and is to publish
  web,           \* what the HTTP call read, and when
  since, heard,  \* history: the revision when the gate began, and the rank
                 \* its refresh rests on
  accepted       \* history: authority records confirmed to a caller, but
                 \* those overwritten when the process ended

storage == <<file, flow, overwritten>>
runtime == <<app, snap, last, storage>>
dispatching == <<event, request>>
history == <<since, heard, accepted>>
vars == <<app, snap, last, storage, event, request, hookStatus, published,
          metrics, clock, pc, view, web, since, heard, accepted>>

-----------------------------------------------------------------------------
Feed == "feed"
Gate == "gate"
Http == "http"
HookThreads == {Feed, Gate}
Threads == HookThreads \cup {Http}

Snapshot(rev, rank, rebases, updated) ==
  [rev |-> rev, rank |-> rank, rebases |-> rebases, updated |-> updated]
Durable(s) == [rank |-> s.rank, rebases |-> s.rebases]
NoFlow == [stage |-> "none", state |-> [rank |-> 0, rebases |-> 0]]
NoEvent == [at |-> 0, kind |-> "none", seq |-> 0, rank |-> 0]
NoRequest == [rev |-> 0, at |-> 0, rank |-> 0, rebases |-> 0,
              relax |-> FALSE, quiet |-> FALSE]
NoView == [rev |-> 0, entry |-> "UNKNOWN"]
NoCall == [kind |-> "none", now |-> 0, rev |-> 0, rank |-> 0, rebases |-> 0]

InHook == {"apply", "applied", "write", "verify"}
Stages == InHook \cup {"idle", "check", "view", "publish", "guard",
                       "invalidate", "update", "dispatch", "ok", "bad"}
HookFree == \A t \in HookThreads : pc[t] \notin InHook
DispatcherFree == \A t \in Threads : pc[t] # "apply"

Stage(t, from, to) == pc[t] = from /\ pc' = [pc EXCEPT ![t] = to]

Init ==
  /\ app = "down"
  /\ snap = Snapshot(1, 0, 0, 0) /\ last = 1
  /\ file = Durable(snap) /\ flow = NoFlow /\ overwritten = FALSE
  /\ event = NoEvent /\ request = NoRequest
  /\ hookStatus = "none" /\ published = NoView
  /\ metrics = 0 /\ clock = 0
  /\ pc = [t \in Threads |-> "idle"]
  /\ view = [t \in Threads |-> NoView]
  /\ web = NoCall
  /\ since = 0 /\ heard = 0 /\ accepted = 0

-----------------------------------------------------------------------------
(* The checkpoint.                                                         *)

(* The runtime's state becomes the file.  A journal that is pending knows   *)
(* the file neither as before its transaction nor as after it, then.       *)
Saves(next) ==
  /\ file' = Durable(next)
  /\ flow' = IF flow.stage = "pending" THEN [NoFlow EXCEPT !.stage = "stuck"]
             ELSE flow
  /\ overwritten' = FALSE

(* Mutant of Checkpoint: the next revision is remembered as saved. *)
CheckpointAhead(next, required, saved) ==
  \/ /\ saved /\ required /\ next.rev = last + 1
     /\ Saves(next) /\ last' = next.rev + 1
  \/ /\ ~saved /\ required /\ next.rev = last + 1
     /\ Saves(next) /\ UNCHANGED last
  \/ /\ ~saved
     /\ UNCHANGED <<storage, last>>

(* The policy asks for one when the update has save triggers.  One that    *)
(* does not follow the last saved revision is a gap and is refused.  A     *)
(* save that reports a failure may still have replaced the file.           *)
Checkpoint(next, required, saved) ==
  \/ /\ saved /\ required /\ next.rev = last + 1
     /\ Saves(next) /\ last' = next.rev
  \/ /\ ~saved /\ required /\ next.rev = last + 1
     /\ Saves(next) /\ UNCHANGED last
  \/ /\ ~saved
     /\ UNCHANGED <<storage, last>>

(* Mutant of Acceptable: a lower rank needs no authority. *)
AcceptableRelaxed(r) ==
  /\ app = "running"
  /\ r.rev = snap.rev
  /\ r.at >= snap.updated

(* The store takes an update of the revision it has, no older than itself, *)
(* and a lower rank only with a validated authority rebase.                *)
Acceptable(r) ==
  /\ app = "running"
  /\ r.rev = snap.rev
  /\ r.at >= snap.updated
  /\ r.rank >= snap.rank \/ r.relax

Updated(r) == Snapshot(snap.rev + 1, r.rank, r.rebases, r.at)

-----------------------------------------------------------------------------
(* The update dispatcher and the event adapter, under the dispatcher lock. *)

(* A later observation than the snapshot's and the last event's, and a     *)
(* sequence the adapter has not used.                                      *)
Adapts(at) ==
  /\ app = "running"
  /\ at > snap.updated /\ at > event.at
  /\ snap.rev + 1 > event.seq

(* What the bridge can come to: the risk state of the metrics; a change of *)
(* the accounting authority, which may relax, or a period rolled over; and *)
(* the same state again, of cached metrics, with nothing to save.          *)
Evaluations(kind) ==
  {[rank |-> rank, rebases |-> snap.rebases, relax |-> FALSE,
    quiet |-> FALSE] : rank \in Ranks}
  \cup {[rank |-> rank, rebases |-> snap.rebases + 1,
         relax |-> rank < snap.rank, quiet |-> FALSE] :
          rank \in {r \in Ranks : snap.rebases < MaxRebases}}
  \cup {[rank |-> rank, rebases |-> snap.rebases, relax |-> FALSE,
         quiet |-> TRUE] :
          rank \in {r \in Ranks \ {Locked} :
                     r = snap.rank /\ kind = "config"}}

(* Where a call to the dispatcher starts, its lock being free.  Those of   *)
(* the hook hold the hook's.                                               *)
MayCall(t) ==
  /\ DispatcherFree
  /\ \/ t \in HookThreads /\ pc[t] = "idle" /\ HookFree /\ app = "running"
     \/ t = Http /\ pc[t] = "dispatch"

Calls(t, kind, at) ==
  /\ MayCall(t)
  /\ \/ t \in HookThreads /\ at = metrics
        /\ kind \in IF t = Feed THEN FeedKinds ELSE {"balance"}
     \/ t = Http /\ web.kind = "config" /\ kind = "config" /\ at = web.now
     \/ t = Http /\ web.kind # "config" /\ kind = "http" /\ at = metrics

(* The gate's question begins with its refresh.                            *)
Asked(t, rank) ==
  IF t = Gate THEN since' = snap.rev /\ heard' = rank
  ELSE UNCHANGED <<since, heard>>

Dispatch(t, kind, at) ==
  /\ Calls(t, kind, at)
  /\ Adapts(at)
  /\ metrics > 0
  /\ \E e \in Evaluations(kind) :
       request' = [rev |-> snap.rev, at |-> at, rank |-> e.rank,
                   rebases |-> e.rebases, relax |-> e.relax,
                   quiet |-> e.quiet]
  /\ event' = [at |-> at, kind |-> kind, seq |-> snap.rev + 1, rank |-> 0]
  /\ pc' = [pc EXCEPT ![t] = "apply"]
  /\ Asked(t, Normal)
  /\ UNCHANGED <<runtime, hookStatus, published, metrics, clock,
                 view, web, accepted>>

(* What the hook records of a dispatch that changed nothing.  Its threads  *)
(* do so under the lock they hold; the HTTP call has yet to get it.  After *)
(* a failure it publishes that the authority is unknown.                   *)
Recorded(t, status) ==
  IF t = Http
  THEN /\ pc' = [pc EXCEPT ![t] = status]
       /\ UNCHANGED <<hookStatus, published>>
  ELSE /\ pc' = [pc EXCEPT ![t] =
                   IF t = Gate /\ status = "ok" THEN "check" ELSE "idle"]
       /\ hookStatus' = status
       /\ published' = IF status = "bad" THEN NoView ELSE published

(* The event of this observation again: idempotent, whatever became of it. *)
DispatchRepeats(t, kind, at) ==
  /\ Calls(t, kind, at)
  /\ app = "running"
  /\ kind # "config" /\ event.kind = kind /\ event.at = at
  /\ Recorded(t, "ok")
  /\ Asked(t, event.rank)
  /\ UNCHANGED <<runtime, dispatching, metrics, clock, view, web, accepted>>

(* Metrics unavailable before the first event: idempotent, on the state as *)
(* it was loaded.                                                          *)
Baseline(t, kind, at) ==
  /\ Calls(t, kind, at)
  /\ app = "running" /\ event.kind = "none"
  /\ Recorded(t, "ok")
  /\ Asked(t, Normal)
  /\ UNCHANGED <<runtime, dispatching, metrics, clock, view, web, accepted>>

(* No metrics, stale metrics, an evaluation or an adaptation that fails:   *)
(* the gate has its answer.                                                *)
DispatchFails(t, kind, at) ==
  /\ Calls(t, kind, at)
  /\ Recorded(t, "bad")
  /\ UNCHANGED <<runtime, dispatching, metrics, clock, view, web, history>>

(* A relaxation supersedes what was evaluated before it.                   *)
Supersedes(t, r) ==
  heard' = IF t = Gate THEN r.rank
           ELSE IF r.relax THEN Normal ELSE heard

Apply(t) ==
  /\ Stage(t, "apply", "applied")
  /\ Acceptable(request)
  /\ snap' = Updated(request)
  /\ \E saved \in BOOLEAN : Checkpoint(snap', ~request.quiet, saved)
  /\ event' = [event EXCEPT !.rank = request.rank]
  /\ request' = NoRequest
  /\ Supersedes(t, request)
  /\ UNCHANGED <<app, hookStatus, published, metrics, clock, view, web,
                 since, accepted>>

(* The adapter keeps the sequence it gave: see the README on what follows. *)
ApplyRefused(t) ==
  /\ pc[t] = "apply" /\ ~Acceptable(request)
  /\ request' = NoRequest
  /\ Recorded(t, "bad")
  /\ IF t = Gate THEN since' = 0 /\ heard' = 0 ELSE UNCHANGED <<since, heard>>
  /\ UNCHANGED <<runtime, event, metrics, clock, view, web, accepted>>

-----------------------------------------------------------------------------
(* The published projection.                                               *)

(* What a projection dispatcher builds: unknown while the lifecycle does   *)
(* not run or the hook's last dispatch failed, else from the snapshot.     *)
Projection(status) ==
  [rev |-> snap.rev,
   entry |-> IF app # "running" \/ status = "bad" THEN "UNKNOWN"
             ELSE IF Continues(snap.rank) THEN "ALLOW" ELSE "BLOCK"]

(* Status and snapshot are read apart; an update between them leaves the   *)
(* projection unknown, at the revision read first.                         *)
Torn == [rev |-> snap.rev, entry |-> "UNKNOWN"]

(* The dispatch of an update that was taken: the hook builds what it is to *)
(* publish from it.                                                        *)
RecordApplied(t) ==
  /\ t \in HookThreads /\ Stage(t, "applied", "write")
  /\ hookStatus' = "ok"
  /\ \E v \in {Projection("ok"), Torn} : view' = [view EXCEPT ![t] = v]
  /\ UNCHANGED <<runtime, dispatching, published, metrics, clock, web,
                 history>>

(* record_evaluation_result, of the HTTP call: it publishes a failure only. *)
RecordHttp ==
  /\ HookFree /\ pc[Http] \in {"ok", "applied", "bad"}
  /\ pc' = [pc EXCEPT ![Http] = "view"]
  /\ IF pc[Http] = "bad" THEN hookStatus' = "bad" /\ published' = NoView
     ELSE hookStatus' = "ok" /\ UNCHANGED published
  /\ UNCHANGED <<runtime, dispatching, metrics, clock, view, web, history>>

(* _publish_applied_authority: write what was built, then read it back.    *)
WriteApplied(t) ==
  /\ t \in HookThreads /\ Stage(t, "write", "verify")
  /\ published' = view[t]
  /\ UNCHANGED <<runtime, dispatching, hookStatus, metrics, clock,
                 view, web, history>>

VerifyApplied(t) ==
  /\ t \in HookThreads
  /\ Stage(t, "verify", IF t = Gate THEN "check" ELSE "idle")
  /\ IF published = view[t] THEN UNCHANGED <<hookStatus, published>>
     ELSE hookStatus' = "bad" /\ published' = NoView
  /\ view' = [view EXCEPT ![t] = NoView]
  /\ UNCHANGED <<runtime, dispatching, metrics, clock, web,
                 history>>

(* A projection dispatcher reads, and then sets the attribute.             *)
View(t) ==
  /\ t \in {Gate, Http} /\ HookFree
  /\ Stage(t, "view", "publish")
  /\ \E v \in {Projection(hookStatus), Torn} :
       view' = [view EXCEPT ![t] = v]
  /\ UNCHANGED <<runtime, dispatching, hookStatus, published, metrics,
                 clock, web, history>>

Publish(t) ==
  /\ t \in {Gate, Http}
  /\ Stage(t, "publish", IF t = Gate THEN "guard" ELSE "idle")
  /\ published' = view[t]
  /\ IF t = Http THEN view' = [view EXCEPT ![t] = NoView] /\ web' = NoCall
     ELSE UNCHANGED <<view, web>>
  /\ UNCHANGED <<runtime, dispatching, hookStatus, metrics, clock,
                 history>>

-----------------------------------------------------------------------------
(* The gate of a new entry.                                                *)

(* The hook is inactive or the lifecycle does not run: no refresh.         *)
GateUnavailable ==
  /\ app # "down" /\ pc[Gate] = "idle" /\ HookFree
  /\ hookStatus' = "none"
  /\ since' = 0 /\ heard' = 0
  /\ UNCHANGED <<runtime, dispatching, published, metrics, clock, pc,
                 view, web, accepted>>

(* The refresh succeeded and nobody has invalidated it since.              *)
Refreshed ==
  /\ HookFree /\ hookStatus = "ok"
  /\ Stage(Gate, "check", "view")
  /\ UNCHANGED <<runtime, dispatching, hookStatus, published, metrics,
                 clock, view, web, history>>

(* Mutant of Admits: the revision is not compared. *)
AdmitsAnyRevision ==
  /\ pc[Gate] = "guard"
  /\ published.entry = "ALLOW"

(* The guard reads the projection that is published, which must be of the  *)
(* revision the gate published itself.                                     *)
Admits ==
  /\ pc[Gate] = "guard"
  /\ published.entry = "ALLOW"
  /\ published.rev = view[Gate].rev

GuardAllows ==
  /\ Admits
  /\ pc' = [pc EXCEPT ![Gate] = "idle"]
  /\ since' = 0 /\ heard' = 0
  /\ view' = [view EXCEPT ![Gate] = NoView]
  /\ UNCHANGED <<runtime, dispatching, hookStatus, published, metrics,
                 clock, web, accepted>>

(* Not refreshed, another revision, a projection that is too old or not    *)
(* for entries, a registration that is not running.                        *)
GateRefuses ==
  /\ pc[Gate] \in {"check", "guard"}
  /\ pc' = [pc EXCEPT ![Gate] = "idle"]
  /\ view' = [view EXCEPT ![Gate] = NoView]
  /\ since' = 0 /\ heard' = 0
  /\ UNCHANGED <<runtime, dispatching, hookStatus, published, metrics,
                 clock, web, accepted>>

-----------------------------------------------------------------------------
(* The HTTP calls.                                                         *)

(* A call reads the time and the snapshot.  A rebase of the accounting     *)
(* keeps the risk state; a peak recovery is of a LOCKED one.               *)
HttpCall(kind) ==
  /\ app = "running"
  /\ Stage(Http, "idle", "invalidate")
  /\ kind # "config" => metrics > 0
  /\ kind \in {"rebase", "peak"} => snap.rebases < MaxRebases
  /\ kind = "peak" => snap.rank = Locked
  /\ IF kind \in {"rebase", "peak"} THEN UNCHANGED clock
     ELSE clock < MaxClock /\ clock' = clock + 1
  /\ web' = IF kind \in {"rebase", "peak"}
            THEN [kind |-> kind, now |-> clock, rev |-> snap.rev,
                  rank |-> IF kind = "peak" THEN 0 ELSE snap.rank,
                  rebases |-> snap.rebases + 1]
            ELSE [NoCall EXCEPT !.kind = kind, !.now = clock']
  /\ UNCHANGED <<runtime, dispatching, hookStatus, published, metrics,
                 view, history>>

(* invalidate_evaluation: only the hook's status, not what is published.   *)
Invalidate ==
  /\ HookFree
  /\ Stage(Http, "invalidate",
           IF web.kind \in {"rebase", "peak"} THEN "update" ELSE "dispatch")
  /\ hookStatus' = "none"
  /\ UNCHANGED <<runtime, dispatching, published, metrics, clock,
                 view, web, history>>

(* Mutant of WebRequest: the repair of a peak leaves no record. *)
WebRequestUnrecorded ==
  [rev |-> web.rev, at |-> web.now, rank |-> web.rank,
   rebases |-> IF web.kind = "peak" THEN snap.rebases ELSE web.rebases,
   relax |-> web.kind = "peak", quiet |-> FALSE]

WebRequest ==
  [rev |-> web.rev, at |-> web.now, rank |-> web.rank,
   rebases |-> web.rebases, relax |-> web.kind = "peak", quiet |-> FALSE]

(* Mutant of Confirms: a checkpoint that is pending is confirmed too. *)
ConfirmsPending(saved) ==
  accepted' = web.rebases

(* The answer confirms the record when its checkpoint has succeeded.       *)
Confirms(saved) ==
  accepted' = IF saved THEN web.rebases ELSE accepted

(* The update goes to the lifecycle directly.  Once it is durable, a rebase *)
(* is evaluated, and a peak recovery is published as it stands.            *)
HttpUpdate(saved) ==
  /\ pc[Http] = "update"
  /\ Acceptable(WebRequest)
  /\ snap' = Updated(WebRequest)
  /\ Checkpoint(snap', TRUE, saved)
  /\ Confirms(saved)
  /\ pc' = [pc EXCEPT ![Http] = IF ~saved THEN "idle"
                                ELSE IF web.kind = "peak" THEN "view"
                                ELSE "dispatch"]
  /\ web' = IF saved THEN web ELSE NoCall
  /\ IF web.kind = "peak"
     THEN heard' = 0 /\ event' = [event EXCEPT !.rank = 0]
     ELSE UNCHANGED <<heard, event>>
  /\ UNCHANGED <<app, request, hookStatus, published, metrics, clock,
                 view, since>>

HttpRefused ==
  /\ Stage(Http, "update", "idle")
  /\ ~Acceptable(WebRequest)
  /\ web' = NoCall
  /\ UNCHANGED <<runtime, dispatching, hookStatus, published, metrics,
                 clock, view, history>>

-----------------------------------------------------------------------------
(* The commit of cash flows.  It has the risk state and the authority      *)
(* records of the loss state it read, whatever the file has become since.  *)
(* (CashFlowTransaction has its own steps and its failures.)               *)

Others == <<app, snap, last, dispatching, hookStatus, published, metrics,
            clock, pc, view, web, history>>

(* The synchronization loads the loss state and asks the exchange.  The    *)
(* shutdown waits five seconds for it, no longer.                          *)
FlowReads ==
  /\ app # "down" /\ flow.stage = "none"
  /\ flow' = [stage |-> "read", state |-> file]
  /\ UNCHANGED <<Others, file, overwritten>>

(* No flow, nothing read, another checkpoint, a journal not written.       *)
FlowGivesUp ==
  /\ flow.stage = "read"
  /\ flow' = NoFlow
  /\ UNCHANGED <<Others, file, overwritten>>

(* The transaction takes the file as it is now for the one before it.      *)
FlowPrepares ==
  /\ flow.stage = "read"
  /\ flow' = [flow EXCEPT !.stage = "pending"]
  /\ UNCHANGED <<Others, file, overwritten>>

(* The file is replaced, by the synchronization or, after a crash, by the  *)
(* composition, before it loads the state.                                 *)
FlowReplaces ==
  /\ flow.stage = "pending" /\ file # flow.state
  /\ file' = flow.state /\ overwritten' = TRUE
  /\ UNCHANGED <<Others, flow>>

FlowEnds ==
  /\ flow.stage = "pending" /\ file = flow.state
  /\ flow' = NoFlow
  /\ UNCHANGED <<Others, file, overwritten>>

-----------------------------------------------------------------------------
(* The process.                                                            *)

(* A new reading of the account's metrics.                                 *)
Observe ==
  /\ clock < MaxClock /\ app # "down"
  /\ clock' = clock + 1 /\ metrics' = clock + 1
  /\ UNCHANGED <<runtime, dispatching, hookStatus, published, pc,
                 view, web, history>>

(* Nothing but the file outlives the process.                              *)
Volatile ==
  /\ event' = NoEvent /\ request' = NoRequest
  /\ metrics' = 0 /\ hookStatus' = "none"
  /\ pc' = [t \in Threads |-> "idle"]
  /\ view' = [t \in Threads |-> NoView]
  /\ web' = NoCall
  /\ since' = 0 /\ heard' = 0

(* The runtime goes on from the file, and what that lacks because a commit *)
(* of cash flows has overwritten it is lost.                               *)
Reloads ==
  /\ snap' = Snapshot(1, file.rank, file.rebases, clock) /\ last' = 1
  /\ overwritten' = FALSE
  /\ accepted' = IF overwritten /\ file.rebases < accepted THEN file.rebases
                 ELSE accepted
  /\ Volatile
  /\ UNCHANGED <<file, clock>>

(* Mutant of Restart: the runtime starts from a state of its own. *)
RestartFresh ==
  /\ app = "down" /\ app' = "running"
  /\ snap' = Snapshot(1, Normal, file.rebases, clock)
  /\ last' = 1
  /\ published' = [rev |-> 1, entry |-> "ALLOW"]
  /\ Volatile
  /\ UNCHANGED <<storage, clock, accepted>>

(* The state is loaded, unless a transaction is pending; its checkpoint    *)
(* metadata is revision 1; the boundary publishes it when it is registered. *)
Restart ==
  /\ app = "down" /\ flow.stage = "none"
  /\ app' = "running"
  /\ Reloads
  /\ published' = [rev |-> 1,
                   entry |-> IF Continues(file.rank) THEN "ALLOW"
                             ELSE "BLOCK"]
  /\ UNCHANGED flow

(* The composition cannot finish the transaction: no money management.     *)
RestartRefused ==
  /\ app = "down" /\ flow.stage \in {"pending", "stuck"}
  /\ UNCHANGED vars

(* The server has finished its requests; the gate and the hook are         *)
(* unregistered, which waits for the hook's lock; the lifecycle stops the  *)
(* store, with a mandatory checkpoint.                                     *)
Stop ==
  /\ app = "running" /\ app' = "stopped"
  /\ pc[Http] = "idle" /\ HookFree

Shutdown ==
  /\ Stop
  /\ snap' = [snap EXCEPT !.rev = snap.rev + 1]
  /\ \E saved \in BOOLEAN : Checkpoint(snap', TRUE, saved)
  /\ UNCHANGED <<dispatching, hookStatus, published, metrics, clock, pc,
                 view, web, history>>

ShutdownFails ==
  /\ Stop
  /\ UNCHANGED <<snap, last, storage, dispatching, hookStatus, published,
                 metrics, clock, pc, view, web, history>>

(* The process ends, or dies at any point.                                 *)
Crash ==
  /\ app # "down" /\ app' = "down"
  /\ Reloads
  /\ published' = NoView
  /\ flow' = IF flow.stage = "read" THEN NoFlow ELSE flow

-----------------------------------------------------------------------------
Kinds == {"trade", "balance", "http", "config"}

ThreadStep(t) ==
  \/ MayCall(t) /\ \E kind \in Kinds, at \in 0..MaxClock :
       \/ Dispatch(t, kind, at) \/ DispatchRepeats(t, kind, at)
       \/ Baseline(t, kind, at) \/ DispatchFails(t, kind, at)
  \/ Apply(t) \/ ApplyRefused(t)
  \/ RecordApplied(t)
  \/ WriteApplied(t) \/ VerifyApplied(t)
  \/ View(t) \/ Publish(t)

Next ==
  \/ \E t \in Threads : ThreadStep(t)
  \/ RecordHttp
  \/ GateUnavailable \/ Refreshed \/ GuardAllows \/ GateRefuses
  \/ \E kind \in {"rebase", "peak", "recover", "config"} : HttpCall(kind)
  \/ Invalidate
  \/ (\E saved \in BOOLEAN : HttpUpdate(saved)) \/ HttpRefused
  \/ FlowReads \/ FlowGivesUp \/ FlowPrepares \/ FlowReplaces \/ FlowEnds
  \/ Observe \/ Restart \/ RestartRefused
  \/ Shutdown \/ ShutdownFails \/ Crash

Spec == Init /\ [][Next]_vars
-----------------------------------------------------------------------------
(* Properties.                                                             *)

SnapType == [rev: Nat, rank: Ranks, rebases: 0..MaxRebases, updated: Nat]
ViewType == [rev: Nat, entry: {"ALLOW", "BLOCK", "UNKNOWN"}]

(* Every variable has its type, and the revision saved last is one the     *)
(* runtime has had.                                                        *)
TypeOK ==
  /\ app \in {"running", "stopped", "down"}
  /\ snap \in SnapType /\ last \in 1..snap.rev
  /\ file \in [rank: Ranks, rebases: 0..MaxRebases]
  /\ flow \in [stage: {"none", "read", "pending", "stuck"},
               state: [rank: Ranks, rebases: 0..MaxRebases]]
  /\ overwritten \in BOOLEAN
  /\ event \in [at: Nat, kind: Kinds \cup {"none"}, seq: Nat, rank: Ranks]
  /\ request \in [rev: Nat, at: Nat, rank: Ranks, rebases: 0..MaxRebases,
                 relax: BOOLEAN, quiet: BOOLEAN]
  /\ hookStatus \in {"none", "ok", "bad"} /\ published \in ViewType
  /\ metrics \in 0..MaxClock /\ clock \in 0..MaxClock
  /\ pc \in [Threads -> Stages]
  /\ view \in [Threads -> ViewType]
  /\ web \in [kind: {"none", "rebase", "peak", "recover", "config"},
             now: Nat, rev: Nat, rank: Ranks, rebases: 0..MaxRebases]
  /\ since \in Nat /\ heard \in Ranks
  /\ accepted \in 0..MaxRebases

(* An entry is allowed under a revision the runtime had after the gate was *)
(* asked, and not under one whose risk state holds or blocks entries, for  *)
(* all the stale projections other threads may publish meanwhile.          *)
AdmissionTruthful ==
  Admits =>
    /\ published.rev >= since
    /\ published.rev = snap.rev => Continues(snap.rank)

(* An entry is not allowed when the gate's own refresh evaluated the       *)
(* metrics to a state that holds or blocks entries and the runtime took    *)
(* it, unless an authority record has superseded it since.                 *)
AdmissionHeedsMetrics == Admits => Continues(heard)

(* An authority record whose update was confirmed to the operator is on    *)
(* disk, whatever saves fail and whenever the process dies; only a commit  *)
(* of cash flows takes it from there, and then the runtime still has it,   *)
(* to save it again unless the process ends first.  (A rebase that is      *)
(* asked for again is answered from memory: no confirmation.)              *)
RebaseDurable ==
  accepted <= IF overwritten THEN snap.rebases ELSE file.rebases

(* The runtime never runs on a state less restrictive than the one on      *)
(* disk, unless by an authority record that the disk does not have yet.    *)
NeverLessRestrictive ==
  app = "running" =>
    snap.rebases > file.rebases \/ snap.rank >= file.rank

(* A LOCKED state on disk is relaxed by an authority record, or by a       *)
(* commit of cash flows that puts back what its synchronization had read:  *)
(* no restart, lost save or later evaluation makes the file less strict.   *)
LockOutlivesRestart ==
  [][file'.rank < file.rank =>
       \/ file'.rebases > file.rebases
       \/ flow.stage = "pending" /\ file' = flow.state]_vars

(* Memory and file implement LossRecord, whatever saves fail, updates and  *)
(* commits are built from a state that is no longer there, and processes   *)
(* die.                                                                    *)
Committing == flow.stage \in {"read", "pending"}
ReadEarlier == IF Committing THEN {flow.state} ELSE {}
Record ==
  INSTANCE LossRecord WITH held <- Durable(snap), disk <- file,
                           read <- ReadEarlier, confirmed <- accepted
ImplementsRecord == Record!Spec

(* Why these hold.  An update in flight adds to the authority records of   *)
(* the revision it was made from, and relaxes only by adding to them.      *)
RequestCurrent ==
  (\E t \in Threads : pc[t] = "apply") =>
    /\ request.rev <= snap.rev
    /\ request.rev = snap.rev =>
         /\ request.rebases >= snap.rebases
         /\ request.relax => request.rebases > snap.rebases
WebCurrent ==
  web.kind \in {"rebase", "peak"} /\ pc[Http] \in {"invalidate", "update"} =>
    /\ web.rev <= snap.rev
    /\ web.rev = snap.rev =>
         /\ web.rebases > snap.rebases
         /\ web.kind = "rebase" => web.rank >= snap.rank
(* What a commit may put back is a state the file had, and has superseded. *)
FlowBehind ==
  Committing =>
    \/ file.rebases > flow.state.rebases
    \/ file.rebases = flow.state.rebases /\ file.rank >= flow.state.rank
UpdateKind == pc[Http] = "update" => web.kind \in {"rebase", "peak"}
DurableInv ==
  /\ file.rebases <= snap.rebases /\ accepted <= snap.rebases
  /\ FlowBehind
  /\ RequestCurrent /\ WebCurrent /\ UpdateKind
  /\ RebaseDurable /\ NeverLessRestrictive

(* A projection that permits entries is true of the revision it names, if  *)
(* the runtime is still there; what the gate heard is no more restrictive  *)
(* than what the runtime took, so no permission of the revision the gate   *)
(* looked at contradicts it.                                               *)
Permits(p, rev) == p.entry = "ALLOW" /\ p.rev = rev
PermitsTruly(p) ==
  /\ p.rev <= snap.rev
  /\ Permits(p, snap.rev) => Continues(snap.rank)
Looked == pc[Gate] \in {"publish", "guard"}
AgreesWithGate(p) ==
  Looked /\ Permits(p, view[Gate].rev) => Continues(heard)
AdmissionInv ==
  /\ PermitsTruly(published) /\ AgreesWithGate(published)
  /\ \A t \in Threads : PermitsTruly(view[t]) /\ AgreesWithGate(view[t])
  /\ since <= snap.rev
  /\ Looked => since <= view[Gate].rev
  /\ event.rank <= snap.rank /\ heard <= snap.rank
=============================================================================
