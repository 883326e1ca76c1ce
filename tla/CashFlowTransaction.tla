------------------------ MODULE CashFlowTransaction ------------------------
(***************************************************************************)
(* External cash flows: transfers into and out of the account are          *)
(* separated from the trading result.  The synchronization reads the       *)
(* exchange's ledger and commits the loss state and its own checkpoint, two *)
(* files, through a journal that a restart completes.                      *)
(*                                                                         *)
(* The loss state has a second writer: the runtime, which loads it once    *)
(* and checkpoints what it has.  Neither holds a lock of the other; both   *)
(* write through the same temporary file.                                  *)
(*                                                                         *)
(* A loss state is the flows it has separated, counted, and its time of    *)
(* capture.  A commit adds at least one flow and a runtime save is later   *)
(* than the one before, so two states that are equal here have the same    *)
(* digest there.                                                           *)
(***************************************************************************)
EXTENDS Integers, FiniteSets

CONSTANTS
  Transfers,     \* completed transfers of the Futures ledger
  MaxClock       \* bound on the time

ASSUME TransfersFinite == IsFiniteSet(Transfers)
ASSUME ClockBound == MaxClock \in Nat \ {0}

VARIABLES
  clock, happened,   \* the time; when a transfer happened, once it completed
  loss, lossTemp,    \* the loss state's file; its temporary file, if any
  checkpoint,        \* the file of processed transfers
  checkpointTemp,    \* its temporary file is there
  journal,           \* the transaction pending, if any
  journalTemp,       \* its temporary file is there
  app,               \* down, composing, up
  runtime,           \* the state the runtime holds
  pc,                \* where the two writers are
  sync,              \* what the synchronization has read
  intent,            \* the transaction it is about to write
  dropped            \* history: flows a save of the runtime took away

files == <<loss, lossTemp, checkpoint, checkpointTemp, journal, journalTemp>>
vars == <<clock, happened, loss, lossTemp, checkpoint, checkpointTemp, journal,
          journalTemp, app, runtime, pc, sync, intent, dropped>>

-----------------------------------------------------------------------------
Sync == "sync"
Runtime == "runtime"
Writers == {Sync, Runtime}

State(flows, at) == [flows |-> flows, at |-> at]
Processed(ids, rev, at) == [ids |-> ids, rev |-> rev, at |-> at]
NoFlows == [e \in Transfers |-> 0]
Unread ==
  [now |-> 0, state |-> State(NoFlows, 0), seen |-> Processed({}, 0, 0),
   events |-> {}, again |-> FALSE]

Stages == {"idle", "loaded", "prepare", "journal", "check", "state",
           "stateTemp", "point", "pointTemp", "verify", "unlink", "fresh",
           "freshTemp", "failed", "cleanup"}

Go(w, from, to) == pc[w] = from /\ pc' = [pc EXCEPT ![w] = to]
At(stages) == pc[Sync] \in stages
Has(state, e) == state.flows[e] > 0

Init ==
  /\ clock = 1 /\ happened = [e \in Transfers |-> 0]
  /\ loss = State(NoFlows, 0) /\ lossTemp = {}
  /\ checkpoint = Processed({}, 0, 0) /\ checkpointTemp = FALSE
  /\ journal = {} /\ journalTemp = FALSE
  /\ app = "down" /\ runtime = loss
  /\ pc = [w \in Writers |-> "idle"]
  /\ sync = Unread /\ intent = {}
  /\ dropped = {}

-----------------------------------------------------------------------------
(* One synchronization, and what ends it.                                  *)

(* An exception ends the synchronization; in the composition it ends the   *)
(* start, and the application has no money management.                     *)
Abandon ==
  /\ pc' = [pc EXCEPT ![Sync] = "idle"]
  /\ app' = IF app = "composing" THEN "down" ELSE app
  /\ sync' = Unread /\ intent' = {}

StartSync ==
  /\ app = "up" /\ Go(Sync, "idle", "loaded")
  /\ sync' = [Unread EXCEPT !.now = clock, !.state = loss,
                            !.seen = checkpoint]
  /\ UNCHANGED <<clock, happened, files, app, runtime, intent, dropped>>

(* The transfers of the ledger from the state's capture up to now that are *)
(* not processed.                                                          *)
Eligible(state, seen, now) ==
  {e \in Transfers : /\ happened[e] \in 1..now
                     /\ happened[e] >= state.at
                     /\ e \notin seen.ids}

ReadLedger ==
  /\ pc[Sync] = "loaded"
  /\ LET events == Eligible(sync.state, sync.seen, sync.now) IN
       /\ sync' = [sync EXCEPT !.events = events,
                               !.again = events # {} /\ journal # {}]
       /\ pc' = [pc EXCEPT ![Sync] = IF events = {} THEN "fresh"
                                     ELSE IF journal # {} THEN "check"
                                     ELSE "prepare"]
  /\ UNCHANGED <<clock, happened, files, app, runtime, intent, dropped>>

(* The ledger, the account or a page of them cannot be read.               *)
ReadFails ==
  /\ pc[Sync] = "loaded"
  /\ Abandon
  /\ UNCHANGED <<clock, happened, files, runtime, dropped>>

-----------------------------------------------------------------------------
(* The transaction.                                                        *)

(* Mutant of Built: captured one unit later. *)
BuiltLate ==
  State([e \in Transfers |-> sync.state.flows[e]
                               + IF e \in sync.events THEN 1 ELSE 0],
        sync.now + 1)

Built ==
  State([e \in Transfers |-> sync.state.flows[e]
                               + IF e \in sync.events THEN 1 ELSE 0],
        sync.now)

(* What is processed from now on.  (The code keeps the last 4096 ids: see  *)
(* the README on what that bounds.)                                        *)
Advanced ==
  Processed(sync.seen.ids \cup sync.events,
            sync.seen.rev + Cardinality(sync.events), sync.now)

(* Mutant of Validates: against the checkpoint the caller has read. *)
ValidatesItself(current) ==
  /\ sync.events \cap sync.seen.ids = {}
  /\ Advanced.rev = sync.seen.rev + Cardinality(sync.events)

(* The revision the caller read is the current one, and no event of it has *)
(* been committed.                                                         *)
Validates(current) ==
  /\ sync.seen.rev = current.rev
  /\ sync.events \cap current.ids = {}
  /\ Advanced.rev = current.rev + Cardinality(sync.events)

(* The loss state is not compared with the one the new state is built from. *)
Prepare ==
  /\ Validates(checkpoint)
  /\ journal = {} /\ ~journalTemp
  /\ Go(Sync, "prepare", "journal")
  /\ journalTemp' = TRUE
  /\ intent' = {[old |-> loss, new |-> Built,
                 oldPoint |-> checkpoint, newPoint |-> Advanced]}
  /\ UNCHANGED <<clock, happened, loss, lossTemp, checkpoint, checkpointTemp,
                 journal, app, runtime, sync, dropped>>

PrepareRefused ==
  /\ pc[Sync] = "prepare"
  /\ ~Validates(checkpoint) \/ journal # {} \/ journalTemp
  /\ Abandon
  /\ UNCHANGED <<clock, happened, files, runtime, dropped>>

(* The journal replaces its temporary file, or writing it fails; it may be *)
(* there when a failure is reported.                                       *)
WriteJournal(failed) ==
  /\ pc[Sync] = "journal"
  /\ journalTemp' = FALSE
  /\ journal' = intent
  /\ IF failed THEN Abandon
     ELSE /\ pc' = [pc EXCEPT ![Sync] = "check"]
          /\ UNCHANGED <<app, sync, intent>>
  /\ UNCHANGED <<clock, happened, loss, lossTemp, checkpoint, checkpointTemp,
                 runtime, dropped>>

JournalFails ==
  /\ pc[Sync] = "journal"
  /\ journalTemp' = FALSE
  /\ Abandon
  /\ UNCHANGED <<clock, happened, loss, lossTemp, checkpoint, checkpointTemp,
                 journal, runtime, dropped>>

(* _finish: both files are as before the transaction or as after it.       *)
Resumable(p) ==
  loss \in {p.old, p.new} /\ checkpoint \in {p.oldPoint, p.newPoint}

Check ==
  /\ pc[Sync] = "check"
  /\ \E p \in journal :
       /\ Resumable(p)
       /\ pc' = [pc EXCEPT ![Sync] = IF loss # p.new THEN "state"
                                     ELSE IF checkpoint # p.newPoint
                                     THEN "point" ELSE "verify"]
  /\ UNCHANGED <<clock, happened, files, app, runtime, sync, intent, dropped>>

CheckFails ==
  /\ pc[Sync] = "check"
  /\ \A p \in journal : ~Resumable(p)
  /\ Abandon
  /\ UNCHANGED <<clock, happened, files, runtime, dropped>>

-----------------------------------------------------------------------------
(* save_loss_state, of either writer.  It refuses when the temporary file  *)
(* is there, and then removes it, whoever's it is.                         *)

Temp(w, state) == [by |-> w, state |-> state]

(* The synchronization's save: the state of the journal. *)
SaveState ==
  /\ lossTemp = {}
  /\ Go(Sync, "state", "stateTemp")
  /\ \E p \in journal : lossTemp' = {Temp(Sync, p.new)}
  /\ UNCHANGED <<clock, happened, loss, checkpoint, checkpointTemp, journal,
                 journalTemp, app, runtime, sync, intent, dropped>>

SaveStateRefused ==
  /\ lossTemp # {}
  /\ Go(Sync, "state", "failed")
  /\ UNCHANGED <<clock, happened, files, app, runtime, sync, intent, dropped>>

(* A save of the runtime: an update, with the flows it loaded. *)
SaveRuntime(at) ==
  /\ app = "up" /\ pc[Runtime] = "idle"
  /\ at \in runtime.at + 1..clock
  /\ runtime' = State(runtime.flows, at)
  /\ IF lossTemp = {}
     THEN /\ lossTemp' = {Temp(Runtime, runtime')}
          /\ pc' = [pc EXCEPT ![Runtime] = "stateTemp"]
     ELSE /\ pc' = [pc EXCEPT ![Runtime] = "cleanup"]
          /\ UNCHANGED lossTemp
  /\ UNCHANGED <<clock, happened, loss, checkpoint, checkpointTemp, journal,
                 journalTemp, app, sync, intent, dropped>>

(* What of the file a save of the runtime takes away. *)
Lost(temp) ==
  {e \in Transfers : temp.by = Runtime /\ Has(loss, e) /\ ~Has(temp.state, e)}

(* The temporary file becomes the file, whoever's it is.                   *)
Replaces ==
  \E temp \in lossTemp :
    /\ loss' = temp.state /\ lossTemp' = {}
    /\ dropped' = dropped \cup Lost(temp)

ReplaceState ==
  /\ Go(Sync, "stateTemp", IF \E p \in journal : checkpoint = p.newPoint
                           THEN "verify" ELSE "point")
  /\ Replaces
  /\ UNCHANGED <<clock, happened, checkpoint, checkpointTemp, journal,
                 journalTemp, app, runtime, sync, intent>>

(* The save reports a failure, the file replaced or not.                   *)
ReplaceStateFails ==
  /\ Go(Sync, "stateTemp", "failed")
  /\ Replaces \/ UNCHANGED <<loss, lossTemp, dropped>>
  /\ UNCHANGED <<clock, happened, checkpoint, checkpointTemp, journal,
                 journalTemp, app, runtime, sync, intent>>

SaveStateFailed ==
  /\ pc[Sync] = "failed"
  /\ lossTemp' = {}
  /\ Abandon
  /\ UNCHANGED <<clock, happened, loss, checkpoint, checkpointTemp, journal,
                 journalTemp, runtime, dropped>>

ReplaceRuntime ==
  /\ Go(Runtime, "stateTemp", "cleanup")
  /\ Replaces \/ UNCHANGED <<loss, lossTemp, dropped>>
  /\ UNCHANGED <<clock, happened, checkpoint, checkpointTemp, journal,
                 journalTemp, app, runtime, sync, intent>>

CleanupRuntime ==
  /\ Go(Runtime, "cleanup", "idle")
  /\ lossTemp' = {}
  /\ UNCHANGED <<clock, happened, loss, checkpoint, checkpointTemp, journal,
                 journalTemp, app, runtime, sync, intent, dropped>>

-----------------------------------------------------------------------------
(* save_cash_flow_checkpoint: nothing removes its temporary file.          *)

SavePoint ==
  /\ ~checkpointTemp
  /\ Go(Sync, "point", "pointTemp") \/ Go(Sync, "fresh", "freshTemp")
  /\ checkpointTemp' = TRUE
  /\ UNCHANGED <<clock, happened, loss, lossTemp, checkpoint, journal,
                 journalTemp, app, runtime, sync, intent, dropped>>

SavePointRefused ==
  /\ checkpointTemp
  /\ At({"point", "fresh"})
  /\ Abandon
  /\ UNCHANGED <<clock, happened, files, runtime, dropped>>

(* A transaction's checkpoint, which may be there when a failure is        *)
(* reported.                                                               *)
ReplacePoint(failed) ==
  /\ pc[Sync] = "pointTemp"
  /\ \E p \in journal : checkpoint' = p.newPoint
  /\ checkpointTemp' = FALSE
  /\ IF failed THEN Abandon
     ELSE /\ pc' = [pc EXCEPT ![Sync] = "verify"]
          /\ UNCHANGED <<app, sync, intent>>
  /\ UNCHANGED <<clock, happened, loss, lossTemp, journal, journalTemp,
                 runtime, dropped>>

(* Without events only its freshness moves.                                *)
ReplaceFresh ==
  /\ pc[Sync] = "freshTemp"
  /\ checkpoint' = Processed(sync.seen.ids, sync.seen.rev, sync.now)
  /\ checkpointTemp' = FALSE
  /\ Abandon
  /\ UNCHANGED <<clock, happened, loss, lossTemp, journal, journalTemp,
                 runtime, dropped>>

ReplacePointFails ==
  /\ At({"pointTemp", "freshTemp"})
  /\ Abandon
  /\ UNCHANGED <<clock, happened, files, runtime, dropped>>

-----------------------------------------------------------------------------
(* Mutant of Complete: the loss state is taken to be there. *)
CompleteUnread(p) == checkpoint = p.newPoint

Complete(p) == loss = p.new /\ checkpoint = p.newPoint

(* Both files are read again before the journal goes.                      *)
Verify ==
  /\ \E p \in journal : Complete(p)
  /\ Go(Sync, "verify", "unlink")
  /\ UNCHANGED <<clock, happened, files, app, runtime, sync, intent, dropped>>

VerifyFails ==
  /\ pc[Sync] = "verify"
  /\ ~\E p \in journal : Complete(p)
  /\ Abandon
  /\ UNCHANGED <<clock, happened, files, runtime, dropped>>

(* The transaction is over.  One recovered by a commit gives way to it, one *)
(* recovered by the composition to the load.  A failure may be reported    *)
(* with the journal gone or not.                                           *)
Unlink(failed) ==
  /\ pc[Sync] = "unlink"
  /\ journal' = {} \/ (failed /\ UNCHANGED journal)
  /\ IF failed THEN Abandon
     ELSE IF sync.again
     THEN /\ pc' = [pc EXCEPT ![Sync] = "prepare"]
          /\ sync' = [sync EXCEPT !.again = FALSE]
          /\ UNCHANGED <<app, intent>>
     ELSE /\ pc' = [pc EXCEPT ![Sync] = "idle"]
          /\ sync' = Unread /\ intent' = {}
          /\ UNCHANGED app
  /\ UNCHANGED <<clock, happened, loss, lossTemp, checkpoint, checkpointTemp,
                 journalTemp, runtime, dropped>>

-----------------------------------------------------------------------------
(* The process.                                                            *)

(* The composition recovers what is pending before anything is loaded.     *)
Compose ==
  /\ app = "down" /\ app' = "composing"
  /\ pc' = [pc EXCEPT ![Sync] = IF journal = {} THEN "idle" ELSE "check"]
  /\ UNCHANGED <<clock, happened, files, runtime, sync, intent, dropped>>

(* Mutant of Loadable: nothing waits for the recovery. *)
LoadableEarly == TRUE

Loadable == pc[Sync] = "idle" /\ journal = {}

Load ==
  /\ app = "composing" /\ app' = "up"
  /\ Loadable
  /\ pc' = [pc EXCEPT ![Sync] = "idle"]
  /\ runtime' = loss
  /\ UNCHANGED <<clock, happened, files, sync, intent, dropped>>

(* The process ends or dies; temporary files stay.                         *)
Crash ==
  /\ app # "down" /\ app' = "down"
  /\ pc' = [w \in Writers |-> "idle"]
  /\ sync' = Unread /\ intent' = {}
  /\ UNCHANGED <<clock, happened, files, runtime, dropped>>

(* A transfer may complete after the time it carries.                      *)
Transfer(e, at) ==
  /\ happened[e] = 0
  /\ happened' = [happened EXCEPT ![e] = at]
  /\ UNCHANGED <<clock, files, app, runtime, pc, sync, intent, dropped>>

Tick ==
  /\ clock < MaxClock /\ clock' = clock + 1
  /\ UNCHANGED <<happened, files, app, runtime, pc, sync, intent, dropped>>

-----------------------------------------------------------------------------
Synchronize == StartSync \/ ReadLedger \/ ReadFails

Commit ==
  \/ Prepare \/ PrepareRefused
  \/ (\E failed \in BOOLEAN : WriteJournal(failed)) \/ JournalFails
  \/ Check \/ CheckFails
  \/ SaveState \/ SaveStateRefused \/ ReplaceState \/ ReplaceStateFails
  \/ SaveStateFailed
  \/ SavePoint \/ SavePointRefused
  \/ (\E failed \in BOOLEAN : ReplacePoint(failed))
  \/ ReplaceFresh \/ ReplacePointFails
  \/ Verify \/ VerifyFails
  \/ \E failed \in BOOLEAN : Unlink(failed)

Save ==
  \/ \E at \in 1..MaxClock : SaveRuntime(at)
  \/ ReplaceRuntime \/ CleanupRuntime

Next ==
  \/ Synchronize \/ Commit \/ Save
  \/ Compose \/ Load \/ Crash
  \/ \E e \in Transfers, at \in 1..clock : Transfer(e, at)
  \/ Tick

Spec == Init /\ [][Next]_vars
-----------------------------------------------------------------------------
(* Properties.                                                             *)

StateType == [flows: [Transfers -> Nat], at: 0..MaxClock]
PointType == [ids: SUBSET Transfers, rev: Nat, at: 0..MaxClock]
IntentType == [old: StateType, new: StateType,
               oldPoint: PointType, newPoint: PointType]

(* Every variable has its type; there is one transaction at a time, and    *)
(* one temporary file.                                                     *)
TypeOK ==
  /\ clock \in 1..MaxClock /\ happened \in [Transfers -> 0..MaxClock]
  /\ loss \in StateType
  /\ lossTemp \subseteq [by: Writers, state: StateType]
  /\ checkpoint \in PointType /\ checkpointTemp \in BOOLEAN
  /\ journal \subseteq IntentType /\ journalTemp \in BOOLEAN
  /\ app \in {"down", "composing", "up"} /\ runtime \in StateType
  /\ pc \in [Writers -> Stages]
  /\ sync \in [now: 0..MaxClock, state: StateType, seen: PointType,
               events: SUBSET Transfers, again: BOOLEAN]
  /\ intent \subseteq IntentType /\ dropped \subseteq Transfers
  /\ \A p, q \in journal : p = q
  /\ \A p, q \in intent : p = q
  /\ \A s, t \in lossTemp : s = t

(* No transfer is separated from the trading result twice, whatever fails, *)
(* dies or is tried again between the two files.                           *)
FlowOnce == \A e \in Transfers : loss.flows[e] <= 1 /\ runtime.flows[e] <= 1

(* A flow in the loss state that the checkpoint does not know is one of    *)
(* the transaction pending: the two files are never apart without it.      *)
JournalCovers ==
  \A e \in Transfers \ checkpoint.ids :
    Has(loss, e) => \E p \in journal : e \in p.newPoint.ids

(* A processed transfer is in the loss state, unless a later save of the   *)
(* runtime, which does not know of it, took it away, or the transaction    *)
(* that processed it is still pending, and the composition refuses to      *)
(* start.                                                                  *)
ProcessedAccounted ==
  \A e \in checkpoint.ids :
    \/ Has(loss, e) \/ e \in dropped
    \/ \E p \in journal : e \in p.newPoint.ids

(* The runtime starts from a committed state: its flows are processed.     *)
RuntimeCommitted ==
  app = "up" => \A e \in Transfers : Has(runtime, e) => e \in checkpoint.ids

-----------------------------------------------------------------------------
(* The inductive invariant of the transaction.                             *)

Counts(point) == point.rev = Cardinality(point.ids)
Once(state) == \A e \in Transfers : state.flows[e] <= 1

(* What the files know of: processed, or to be by the transaction pending. *)
Known(e) == e \in checkpoint.ids \/ \E p \in journal : e \in p.newPoint.ids
Covered(state) == \A e \in Transfers : Has(state, e) => Known(e)

(* A transaction takes what is processed further, and processes all that   *)
(* its state separates.                                                    *)
Forward(p) ==
  /\ checkpoint.ids \subseteq p.newPoint.ids
  /\ Counts(p.newPoint) /\ Once(p.new)
  /\ \A e \in Transfers : Has(p.new, e) => e \in p.newPoint.ids

(* Every state anyone holds separates a flow once, and only flows the files *)
(* know of; the checkpoint is never ahead of the transaction pending.      *)
CommitInv ==
  /\ Counts(checkpoint) /\ Counts(sync.seen)
  /\ sync.seen.ids \subseteq checkpoint.ids
  /\ At({"loaded", "fresh", "freshTemp"}) => sync.seen.ids = checkpoint.ids
  /\ At({"journal"}) => journal = {}
  /\ At({"journal"}) => \A p \in intent : Forward(p)
  /\ \A p \in journal : Forward(p)
  /\ At({"unlink"}) => \A p \in journal : p.newPoint = checkpoint
  /\ Once(loss) /\ Once(runtime) /\ Once(sync.state)
  /\ \A temp \in lossTemp : Once(temp.state)
  /\ Covered(loss) /\ Covered(sync.state)
  /\ \A temp \in lossTemp : Covered(temp.state)
  /\ \A e \in Transfers : Has(runtime, e) => e \in checkpoint.ids

(* The two files, their journal and the two writers implement FlowAccount, *)
(* where a transaction is one: it is pending from its journal to the end   *)
(* of its journal, whatever of it the files have.                          *)
Stage(e) ==
  IF \E p \in journal : e \in p.newPoint.ids \ p.oldPoint.ids THEN "pending"
  ELSE IF e \in checkpoint.ids THEN "processed" ELSE "open"
Flows ==
  INSTANCE FlowAccount WITH stage <- [e \in Transfers |-> Stage(e)],
                            separated <- loss.flows, known <- runtime.flows
ImplementsFlows == Flows!Spec
=============================================================================
