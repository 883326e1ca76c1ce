# TLA+ verification of the trading bot

This directory holds a TLA+ model of the parts of the trading bot in which a
mistake of ordering loses money or a record: who may open a position, how a human
request and the BOT pipeline share the engine, how LIVE entries and closes get
along with an exchange that may not answer, what an emergency stop achieves beside
them, how the active symbol is switched
under a running bot, how a loss limit becomes a refusal of new entries and
survives a crash, how external transfers are committed to two files, and how a
monitoring request is run once. TLC checks the modules on small instances; TLAPS
proves the main results for every value of the constants.

Source paths below are relative to `src/`. `PROJECT.json` maps each definition
to the lines it translates.

## 1. Inventory

### Entry boundary of the bot manager (`backend/bot_manager/bot_manager.py`)

*State.* `control_authority` (BOT or MANUAL) and its revision;
`execution_authority_lock`; `execution_admission_reservation`;
`close_reservation`; the request ledger `manual_trade_requests`;
`lifecycle_state`, `loop_state`, `execution_enabled`, the emergency state.

*Operations.* The feed callback runs the strategy pipeline under the lock and
then `engine.on_price` outside it. `execute_manual_trade` runs on an HTTP thread
under the lock: it answers a recorded request id, or denies, enters or closes.
`set_execution_control` passes control under the lock. `start_loop`,
`stop_loop`, `set_execution_enabled` and the emergency routes take no lock.

*Hard.* Handlers of `bot_api.py` are plain functions and run concurrently on the
threadpool; those of `governance.py` are coroutines that never await, so they
are serial with one another and concurrent with everything else. An automatic
exit takes `close_authority_lock` only. Clients retry.

*Correct when* an order is committed by the side in control, under the control
revision it was admitted at; control never leaves the side whose position is
open; a request id acts once at most and its answer is true; the lock is always
given back; auto trade is on only with the loop; a close never reverses.

### Execution engine (`Bot/engine/execution_engine.py`)

*State.* `actual_position`, `pending_order`, `trade_history`, the live close
latch. *Operations.* `try_entry` (authority guard, sizing, the commit under the
engine's admission lock, the PAPER or LIVE fill), `close_position`, `on_price`
(SL, TP and strategy exits). *Hard.* Exits race manual closes; the LIVE paths
talk to an exchange that may answer late or not at all. *Correct when* one
position is open at a time and an accepted order is never reported as denied.

### Safe symbol switch (`backend/auto_market_selection/safe_switch.py`, `bot_manager_switch_runtime.py`)

*State.* `symbol_switch_lock`, its transaction id, the pause; the active symbol,
`active_runtime_id` and `ws`; the prepared feed. *Operations.* Revalidate, pause
new entries, subscribe a new feed, wait for its first snapshot, revalidate,
commit, synchronise the engine and the order book, stop the old feed, resume;
a cleanup for a failure before the commit and none after it. *Hard.* The
transaction runs beside the feed callbacks, `stop`, `start` and a second
coordinator; every step can fail. *Correct when* the pause has one owner and
ends, the feed whose updates are accepted is the running one of the active
symbol, no old-symbol data is left, and nothing is exposed on the old symbol.

### Bot lifecycle (`bot_manager.py`, `start`, `stop`, `shutdown`)

*State.* `_running`, `lifecycle_state`, engine, feed, threads. *Operations.*
`start` calls `stop` and builds everything anew without a lock, one attribute after
another; `stop` holds `shutdown_lock` and checks residual risk. *Hard.* A stop while an
entry or a switch is in flight, a start beside a switch that outlived the stop, a stop
beside a start, two starts at once. *Correct when* STOPPED means no feed, no order and
no position left behind, and RUNNING that engine, feed and runtime id belong to the
active symbol.

### Emergency governance (`backend/runtime/governance_runtime.py`, `backend/api/governance.py`)

*State.* The governance record (emergency state, operation, results) and the last
observation of the account. *Operations.* Stop; orchestrate: if a recent observation
shows an empty account do nothing, else list and cancel the open orders, read, flatten
and read the position; stop the bot; report LOCKED or ACTION_REQUIRED; retry; unlock.
*Hard.* It takes none of the trading locks, so an entry past its check, a close
or a fill falls between any two of its steps; each request can fail. *Correct when*
LOCKED means no position and no order on the exchange.

### Market feeds (`backend/market/exchanges/kucoin_market_ws.py`)

*State.* The order book and its sequence, the connection. *Operations.*
Snapshot, delta, reconnect, stop. *Hard.* Reordered deltas, a stop that does not
join the callback thread. *Correct when* the published book is one the exchange
had, and a stopped feed publishes nothing.

### Exchange adapters (`backend/execution/`, `backend/utils/order.py`)

Orders, cancels and flattening with retries. *Correct when* a retry never
doubles an order and an unknown outcome stays unknown.

### AUTO market selection (`backend/auto_market_selection/`)

A cycle with a lock of its own scans, ranks and proposes a symbol, then calls the
safe switch; a limited LIVE loop builds a second coordinator. *Correct when* one
cycle runs at a time and a stop never interrupts a switch.

### Money management: loss governance (`backend/money_management/loss_*.py`)

*State.* The runtime snapshot (risk state, revision, authority records) in
`LossGovernanceRuntimeStore`; the checkpoint coordinator's last saved revision and
the loss state's file; the event adapter's last event; the hook's dispatch status;
the published projection; the account metrics and their time. *Operations.* The
feed brings trade and balance events; the gate of an entry refreshes the
authority, reads the projection and compares revisions; HTTP calls rebase the
accounting, repair a LIVE peak, recover, change the configuration; start, stop. *Hard.*
Three threads, three locks, and a projection that has none; a save may fail with
the file replaced or not; the process may die between memory and file; the
synchronization of cash flows replaces the same file with a state built from one it
read earlier. *Correct when* no entry is allowed on a state that holds or blocks
entries, the runtime never relaxes without a record, and what was locked or confirmed
outlives the process, as far as the file's second writer leaves it there.

### Money management: external cash flows (`cash_flow_*.py`, `external_cash_flow.py`)

*State.* Two files, the loss state and the checkpoint of processed transfers, and a
journal; each has a temporary file. *Operations.* Synchronize (read the ledger,
prepare, write the journal, the two files, verify, unlink), recover at the
composition, and the runtime's own saves of the loss state. *Hard.* The two
writers share a temporary file and no lock; every write can fail or be cut off
by a crash. *Correct when* no transfer is separated from the trading result
twice and the files are apart only under a journal.

### Supervisor: the monitoring trigger (`backend/supervisor/monitoring_trigger_*.py`)

*State.* A SQLite table of idempotency records, an OS advisory lock. *Operations.*
Claim, lock, verify, run, complete, fail, replay, expire, recover, clean up. *Hard.*
Several server processes; a process may die anywhere; a claim expires by the
clock while its owner still runs. *Correct when* one process runs the monitor at a
time, a repeated request is not run again while its claim or result is valid, and
a replay is the result of that very request.

### Other parts

| Part | State and behaviour | Property |
|---|---|---|
| Supervisor's snapshot builder, system monitor | reports | none: they only read |
| Parameters (`backend/strategy`) | versions, promotion | an order uses one version throughout |
| Stores (`paper_account_store.py`, `backend/storage`) | atomic files | a crash leaves the old or the new record |
| API, auth (`backend/api`, `backend/auth`) | sessions | routes do nothing without a session |
| Recorder, evidence, aggregation, AI advisors, frontend, deployment | observation, advice, display | none that trading rests on |

### How they interact

The feed thread calls `BotManager.on_update`, which calls the execution runtime
(pipeline) and the engine. The engine calls back into the manager to be
authorised (`_authorize_bot_execution_entry`, `_authorize_manual_execution_entry`).
HTTP threads call the manager. The AUTO thread calls the safe switch, whose
runtime writes the manager's symbol, feed and pause, which the entry boundary
reads. Only the manager's attributes are shared; there is no message queue.
The entry boundary asks the gate of money management before an entry; the feed
thread calls its hook; the cash-flow synchronization and the loss runtime meet only
in the loss state's file, which both replace. The trigger shares nothing with the bot but the host.

## 2. Modules

| Module | What it is |
|---|---|
| `TradingDesk` | abstract: what the entry boundary promises about control, the position and the answers |
| `EntryAdmission` | the entry boundary with the PAPER engine: one feed thread, any number of HTTP threads, the operator |
| `EntryAdmissionProofs` | its theorems, with the refinement of `TradingDesk` |
| `SymbolAuthority` | abstract: what the switch promises about the symbol, the engine's symbol and the pause |
| `SafeSwitch` | the switch transactions, start and stop, feeds and callbacks |
| `SafeSwitchProofs` | its theorems, with the refinement of `SymbolAuthority` |
| `EntryDuringSwitch` | `EntryAdmission` and an instance of `SafeSwitch` over the shared pause and symbols |
| `EntryDuringSwitchProofs` | its theorems |
| `LiveAccount` | abstract: what LIVE trading promises about the account and what the engine believes of it |
| `LiveTrade` | LIVE entries and closes of one session, with the exchange |
| `LiveTradeProofs` | its theorems, with the refinement of `LiveAccount` |
| `EmergencyStop` | `LiveTrade` and the emergency routes and orchestrator beside it |
| `EmergencyStopProofs` | its theorems: `LiveAccount` is implemented beside an emergency too |
| `MonitoringRuns` | abstract: what the trigger promises whoever sends a request again |
| `TriggerIdempotency` | the Supervisor's trigger: claims, the OS lock, runs, replays, crashes |
| `TriggerIdempotencyProofs` | its theorems, with the refinement of `MonitoringRuns` |
| `LossRecord` | abstract: what money management promises about the loss state in memory and on disk |
| `LossGovernance` | the loss state in memory and on disk with both writers of its file, its projection, the gate of an entry, authority records |
| `LossGovernanceProofs` | its theorems, with the refinement of `LossRecord` |
| `FlowAccount` | abstract: what a commit of transfers promises the trading result |
| `CashFlowTransaction` | the journalled commit of external transfers beside the runtime's saves |
| `CashFlowTransactionProofs` | its theorems, with the refinement of `FlowAccount` |
| `MC...` | symmetry sets and bounds for TLC |

### EntryAdmission

`pc[t]` says where a thread is in its code. A step of a thread is the code
between two places where another thread's step can matter to it:

    feed:   idle -ObserveMarket-> observed -ReserveBotEntry-> reserved
            -DecideBotEntry-> gated -Authorize-> authorized -CommitEntry->
            committed -FillEntry / RejectEntry-> settling -EndBotAdmission->
            pricing -OnPrice-> idle
    human:  idle -Submit / Resend-> submitted -ReserveManualEntry-> reserved ...
            settling -SettleManualEntry-> idle
            submitted -ReserveManualClose-> closing -ManualClose-> closed
            -SettleManualClose-> idle

`lockHolder` is `execution_authority_lock`; the stages from `reserved` to
`settling`, `closing` and `closed` run with it held. `SetExecutionControl` is one
step because the whole handler holds the lock. `CheckEnable` and `WriteEnable`
are the two halves of `set_execution_enabled(True)`, which holds none.
`reservation` is the admission reservation together with the side and symbol
its order takes. `effects` counts the fills and closes each request id caused:
it is a history variable that the code does not have. `shownSide` in a request
is what the operator saw; the frontend displays it and does not send it.

The strategy's signal, preflight, cooldown, sizing and price checks are free
choices (`DecideBotEntry`, `AbandonEntry`, `Deny`): the properties hold whatever
they say. The module follows one PAPER session.

`TradingDesk` sees of it the control authority, the side that owns the position, and of a
request whether it is open, has acted, or is answered as executed or denied (`Status`, read
off `effects` and the ledger). The lock, the reservation and the order on its way are gone
there: a fill or a close and the answer to it are one step each.

### SafeSwitch

A transaction is named by the runtime id its feed gets. `phase[n]` is the
position in `_execute_locked`. Each step has its failure: `PrepareFeedFails`,
`Refuse` (stale proposal, missing or wrong snapshot, mode), the refusing branch of
`CommitActiveSymbol`, `SyncFails`, `CleanupOldFeedFails`. A failure before the
commit goes through `CleanupNewFeed` and `ResumeEntries`; one after it ends in
`halted` and never resumes. `BeginStop`, `DropFeed` and `FinishStop` are the
stages of `stop` that touch the symbol, with its one-second sleep between the
first two. `Start` is `start`, a step for each write another thread can fall between:

    none -SetActiveSymbol-> symbol -MakeBook-> book -MakeEngine-> engine
    -SetEngineSymbol-> traded -SetRuntime-> runtime -MakeFeed-> made
    -HoldFeed-> held -StartFeed-> started -Run-> none;  any -StartFails-> none

The engine gets the symbol `start` has chosen (`startSymbol`); the feed gets the active
symbol and the runtime id as they are when it is made (`target`, `carries`); the feed
that is started is whichever `ws` then refers to. None of this touches the
pause. A transaction that outlived the stop may take any of its steps in between, and
another thread's stop may begin there. `torn` is history: whether a commit or a stop
overtook the last start before it used what it had read or written, `"engine"` for the
engine's symbol and `"feed"` for runtime id, feed and reference.
`AcceptUpdate` is the authority check of `on_update` and `PublishUpdate` the write
of the order book that follows it on the same thread.

`SymbolAuthority` sees the active symbol, the engine's, the pause and whether a restart
is under way (`Restart`): a restart is a beginning, which changes the symbol, and an end,
from which on the engine trades it again; entries may be reopened in between. A switch
that moves the symbol in between leaves the restart torn.

### EntryDuringSwitch

Both modules share `symbolSwitchPaused`, `activeSymbol` and `engineSymbol`.
`SwitchStep` gives the switch what `revalidate_switch` reads: position, pending
order and emergency state. The money-management freshness stays free.

### LiveTrade

    entry:  idle -SizeEntry-> sized -CommitEntry-> committed -PostEntry->
            ordering -EntryAnswered-> accepted -AdoptPosition-> adopted
            -ClearLatch-> finishing -FinishEntry-> idle
            ordering -EntryLost-> finishing, accepted -FetchFails-> finishing
    close:  idle -RequestClose-> requested (human) -BeginClose-> closing
            -ReadPosition-> flattening -PostClose-> posted -CloseAccepted->
            reconciling -ReconcilePosition-> flat -ReconcileOrders-> idle
            any stage -Unconfirmed-> idle

`authority` is `execution_authority_lock`, held from sizing to the end of an entry
and during a human's close; `closer` is `close_authority_lock`. An SL or TP on the
feed thread takes the second one only, so it runs beside a human's entry that
has published its position and not yet returned. `held` is that the engine has an
`actual_position`, `latch` is `live_close_in_flight`.

An order is a record: its kind, its size, its state at the exchange, and whether
its sender stopped waiting while it was on the wire (`late`). The exchange accepts
or rejects it when it arrives, fills a market order in one step, cancels a
reduceOnly order when there is nothing to reduce, and may close the position
itself. `AccountFlat` is what sizing reads from the account: it runs before the
commit and again inside `create_order`. Prices, quantities, margin and leverage
are left out: an entry is of size one. The position that `engine.start` finds is
left out too: the session starts flat.

`LiveAccount` sees two things of this: `Exposure`, what the exchange has of the account
(flat, an entry on its way, exposed; lost once an entry's request was), and `held`. A
second open entry, or one beside a position, is `"doubled"`, a value the abstract
specification does not have.

### EmergencyStop

    idle -Begin-> begun -KnownZero / BreaksOff-> concluded
    begun -ListOrders-> cancelling (-CancelListed->) -FindPosition-> found
    -PostFlatten-> posted -FlattenAccepted-> answered -VerifyFlat-> concluded
    -StopBot-> stopped -Complete-> idle
    cancelling -FindPosition-> concluded, found / posted -FlattenFails-> concluded
    begun -NoEngine-> stopped

`Trades` is `LiveTrade`'s `Next` under what admission (`Admits`) and the engine's last
check (`LiveOrderAllowed`) ask of the emergency state. Check and commit are one step:
from the one to the other the thread holds the authority lock and the engine holds no
position, so nothing another thread does depends on which of the two it has reached.
`session` says whether the lifecycle is RUNNING and whether the manager still has
an engine; an unlock sets it to STOPPED, a stop drops the engine, but a thread inside
either goes on. `known` is what the published observation of the account says, which
may be as old as its TTL. `clean` becomes false with the first failure; `checked` is a
history variable: the orders were listed when no entry was past its check.
The whole LIVE path is there; the PAPER path is one locked call of the engine.

### TriggerIdempotency

    idle -Receive-> received -Claim-> claimed -AcquireLock-> locked
    -VerifyClaim-> verified -MarkRunning-> marked -StartRun-> running
    -RunSucceeds-> completing -CompleteSuccess-> releasing -Release-> idle

A worker is one call of `coordinate` in one process. `Answer` stands for every
reply that writes nothing: a replay, a conflict, a run in progress, no capacity.
`LockRefused`, `FenceClaim`, `MarkRefused`, `DeadlinePassed`, `RunFails`, `RunLate`,
`CompletionRefused` and `FailureRefused` are the ways out. Each store operation is one
`BEGIN IMMEDIATE` transaction, hence one step. `Crash` may follow any step and drops
the OS lock, as the kernel does. `Recover`, `ExpireRecord` and `Cleanup` are the
store's maintenance. `claims` numbers the owner ids, which the code draws at random;
`runs` is history: what became of the run of each claim.

`MonitoringRuns` sees those runs, who is in the runner (`Running`) and what a replay would
read (`Answers`); records, locks, owners, leases and workers are gone.

### LossGovernance

`Dispatch` is the update dispatcher and the event adapter, `Apply` the coordinator's
update with its `Checkpoint`, `RecordApplied`, `WriteApplied` and `VerifyApplied` what
the hook publishes, `View` and `Publish` a projection dispatcher, `Refreshed`,
`GuardAllows` and `GateRefuses` the gate, `HttpCall` to `HttpRefused` the HTTP routes.
Which risk state the metrics evaluate to is left open (`Evaluations`), so what is
shown does not rest on the arithmetic of drawdowns. `Checkpoint` has three outcomes: saved,
reported failed with the file replaced, failed; and the refusal of a revision that
does not follow the last saved one. `Stop` waits for the server's requests and the hook.
`Crash` may come anywhere; `Restart` reads the file.

The file has a second writer, the synchronization of cash flows. `FlowReads` is its
reading of the loss state before it asks the exchange, `FlowPrepares` the journal, which
takes the file of that moment for the one before the transaction and does not compare it
with what was read; `FlowReplaces` puts back the rank and the authority records that were
read, by the synchronization or by the recovery of the next start, and `FlowEnds` removes
the journal. A save of the runtime while the journal is there makes it `stuck`: the file
is then neither of the two it knows, and the next start is refused (`RestartRefused`). A
commit runs on after the lifecycle has stopped, since the shutdown waits five seconds only.
`overwritten` is history: the file was put back by a commit and the runtime has not saved
since. What the file then lacks is lost when the process ends (`Reloads`), and only then.
The flows themselves, the checkpoint and the temporary files are `CashFlowTransaction`'s.

`ApplyRefused` keeps the adapter's event: the code gives an event its sequence
before the store refuses the update, and the next event of that sequence is
stale. See the observations in section 4.

`LossRecord` sees of it the rank and the authority records of the snapshot and of the file,
the state a commit of cash flows has read (`ReadEarlier`), whether one was put back, and
the records confirmed to an operator. Requests in flight, views and the gate are gone
there: an update is one step with its save, a commit a reading and a putting back, a crash
and the next start another step.

### CashFlowTransaction

`pc["sync"]` is where the synchronization or the recovery is, `pc["runtime"]` where a
save of the runtime is. One step per file operation: `Prepare` reads both files and
writes the journal's temporary file, `WriteJournal` renames it; `Check` is `_finish`'s
look at both files; `SaveState`/`ReplaceState` and `SavePoint`/`ReplacePoint` are the two
saves; `Verify` reads both again; `Unlink` ends it. A failure is reported before
or after the rename (`failed`). `SaveRuntime`, `ReplaceRuntime` and `CleanupRuntime` are
the runtime's save through the same temporary file. `Crash` may come anywhere and
leaves the temporary files; `Compose` and `Load` are the next start. A state is which
flows it has separated and when it was captured; amounts are left out.

`FlowAccount` sees of it the stage of each transfer (open; pending while a journal holds
it; processed), and what the file and the runtime have separated. A transaction is one
thing there, begun by the rename of the journal and ended by its unlink.

## 3. Runs

| Run | Result | Instance | What it shows |
|---|---|---|---|
| `entry_boundary` | pass | 1 HTTP thread, 2 ids, 2 positions, a ledger of 1, 1 control switch | requests that open and close, sent again and evicted, against BOT entries, exits and control switches: `AtMostOnce`, `AnswerTruthful`, `CommitUnderAuthority`, `RecordedNeverActs`, that the boundary implements `TradingDesk` (and so `OwnerInControl`), `AdmissionInv` (the invariant the proofs rest on) and under fairness `LockReleased` |
| `entry_reversal` | violation | 1 HTTP thread, 2 ids | `CloseIntentNeverReverses`: finding 1 |
| `switch_safety` | pass | 2 transactions, 2 sessions, 2 symbols, few updates | beside stops and starts that are cut up write by write: `PauseOwned`, `AuthoritativeFeedRuns`, the proofs' invariant `SwitchInv`, that `SafeSwitch` implements `SymbolAuthority`, and under fairness `PauseEnds` |
| `switch_old_book` | violation | 1 transaction | `NoOldSymbolBook`: finding 2 |
| `switch_stop` | violation | 1 transaction | `StoppedBotHasNoFeed`: finding 3 |
| `switch_pause` | pass | 1 HTTP thread, 2 ids, 1 transaction, 2 symbols | over the composition: `PauseHolds`, and `NoFalseExecution`, that no client is told of a fill or close that was not its own |
| `switch_exposure` | violation | the same | `ExposureOnActiveSymbol`: finding 4 |
| `emergency` | pass | the feed thread, 1 HTTP thread, 3 orders | `LiveTrade` beside the emergency orchestrator: that together they implement `LiveAccount`, `ConfirmedCloseFlat`, `LockedFlat`, the proofs' invariant `StopInv` (which contains `LiveInv` and so `OneExposure`), and under fairness `CloseEnds` |
| `emergency_locked` | violation | the same, 2 orders | `LockedEmpty`: finding 5 |
| `trigger` | pass | 2 workers, 1 key, 2 payloads, 3 claims, a clock to 3 | `OneRunner`, `NotRepeated`, `ReplayTruthful`, that the trigger implements `MonitoringRuns`, and the proofs' invariant `TriggerInv` (with `LockHeld`) |
| `loss_governance` | pass | the feed, the gate, one HTTP call, commits of cash flows, ranks NORMAL and LOCKED, a clock to 2, 1 authority record | `AdmissionTruthful`, `AdmissionHeedsMetrics`, `NeverLessRestrictive`, `RebaseDurable`, `LockOutlivesRestart`, and that memory and file implement `LossRecord` |
| `cash_flow` | pass | 2 transfers, a clock to 3 | `FlowOnce`, `ProcessedAccounted`, that the two files and their journal implement `FlowAccount`, and the proofs' invariant `CommitInv` |

*Why the bounds are enough.* One HTTP thread sends a request, sends it again and
sends another; more threads wait for the same lock, which the proofs cover for
any number of them. A request that closes needs an id besides the one that
opened. Two ids and a ledger of one record is the smallest instance in which an
id is evicted and sent again; what an evicted id did is forgotten with it
(`effects`), since for such an id the code promises nothing. With
`MaxPositions = 2` one position can be opened, closed by an exit and opened again under
the same request. With `MaxRevision = 1` a control switch can fall at any step of an
entry. `MaxRevision` and `MaxPositions` bound `SetExecutionControl` and `FillEntry`.

Two transactions are what a race for the pause needs, and two sessions let one
transaction outlive a restart. The runs of `SafeSwitch` fix which session and which
symbol come first (`MCSpec`): neither is special, so every behaviour is a renaming
of one that is checked, and unlike `SYMMETRY` this is sound for liveness. In
`switch_safety` only the first feed has updates, before any transaction (`FewUpdates`):
what an update changes is the book, which those properties do not read; the runs of
findings 2 and 3 have all updates. Three
orders are an entry with a close and the orchestrator's flatten beside it, or two
entries and a close: an order of one lifecycle can arrive in the next one. They are
taken in turn, since none is special (`InTurn`). A second HTTP thread would only
wait for `authority`. After the first emergency route another one is called once
trading has settled (`RoutesApart`): a retry then finds a stopped engine or none.

Two workers and one key are what a takeover needs; with three claims it can
be taken over twice. `MaxTime`, `MaxClaims` bound `Tick`, `Claim` and `Recover`; the
clock runs past a claim's expiry, its lease and its retention. Two ranks are what
the gate tells apart, entries continue or not; an HTTP call in between is a
rebase, a peak repair, a recovery or a configuration. `MaxClock` bounds `Observe` and
`HttpCall`: two observations let a stale one meet a later one. One authority record can
be confirmed, lost, or overtaken. `FewCommits` keeps the gate and the calls that recover
or configure out of the time of a commit of cash flows: the gate reads no file, and those
calls add no record; feed, rebase, peak repair, stop, crash and restart remain beside it.
The proofs have neither bound. The feed's kind is
one, because trades and balances differ only in whether the same observation
repeats. Two transfers can be committed by two transactions or by one; a clock to 3 lets
the runtime save before, between and after them. Symmetry is used only in
runs without liveness.

*Deadlock.* The runs of `SafeSwitch` set `CHECK_DEADLOCK FALSE`: a finite set of
transactions and sessions is used up, and a stopped bot without a further
session stays stopped. So do the runs of `EmergencyStop`: its orders are used up,
and a session whose close is latched neither enters nor closes any more. So does the
run of `CashFlowTransaction`: its clock ends. The other runs check deadlock.

*Fairness.* `EntryAdmission!FairSpec` has weak fairness of each thread's steps
while it holds the lock: the code between taking and releasing it has no wait
for another thread (a PAPER order is simulated in the process).
`SafeSwitch!FairSpec` has weak fairness of each transaction's steps: its only
wait, for the first snapshot, has a timeout, and `symbol_switch_lock` is taken
without waiting. `LiveTrade!FairSpec` (and with it
`EmergencyFairness`) has weak fairness of a close's steps and of
its giving up: each of its requests has a timeout and its attempts are
counted. It has none for entries, whose request has no timeout. No fairness is
assumed of feeds, clients or the operator. The other modules state safety only: what
they wait for is a retry, a restart or a clock that nobody promises.

## 4. Findings

1. **A close that reverses** (`bot_manager.py:3440`). A close pressed on an open
   position is classified again when the lock is free; if an exit came first, it
   is an entry on the opposite side.
2. **Old book after a switch** (`bot_manager.py:6909`). A callback checks its
   authority once, and publishes after the switch has replaced its feed.
3. **Stop forgets a feed** (`bot_manager.py:13484`). A switch commits while `stop`
   sleeps; `stop` then drops the reference to the new, running feed.
4. **Exposure on the old symbol** (`safe_switch.py:197`). An entry admitted before
   the pause commits its order after the last look at the pending order.
5. **LOCKED beside a position** (`bot_manager.py:13340`). The orchestrator goes by an
   observation of the account that an entry has overtaken, cancels and flattens
   nothing, and reports LOCKED, which the display calls stopped safely. An entry past
   its check may also post its order after the flatten (`LockedFlat` excepts it).

Further observations are seen in the passing runs and are no findings of a run.

*Auto trade.* `set_execution_enabled(True)` checks the loop and writes the flag without a
lock (`bot_manager.py:2655`): a `stop_loop` between the two leaves auto trade on with the
loop stopped. `EntryAdmission` has both halves; nothing trades until the loop starts again.

*Emergency.* The orchestrator stops the bot whatever it has reached, and the stop drops
the engine: a retry of a stop that failed then finds no engine and can only fail again
(`NoEngine`), unless it was the engine's own stop that failed. An unlock makes the
emergency READY with a position or an order left, and warns.

*Start beside a switch.* `start` and a transaction that outlived the stop take no common
lock. A commit after `start` wrote the symbol (`bot_manager.py:6499`) and before it sets the
engine's (6716) is undone for the engine: the transaction synchronises it and reopens the
entries, then `start` sets it to the symbol it had chosen, and the bot trades one symbol on
another's market. A commit between the runtime id (7244) and the reference to the feed
(7255) leaves the manager on a feed whose updates nobody accepts. A stop that overlaps a
start can end before it: the bot then reports RUNNING with no runtime id or no engine. The
model reaches all three. `AuthoritativeFeedRuns`, `SwitchInv` and `SymbolAuthority` except
these starts by name (`torn`), until the next start, and say that nothing else breaks the
engine's symbol or the authority of the feed.

*Switch and LIVE trading.* A failed switch after its commit leaves entries paused until the
process ends, since neither `stop` nor `start` releases `symbol_switch_lock`
(`PauseOwned` says whose pause it is, `PauseEnds` excepts it); and the
specification's post-commit contract asks for just that. `LiveTrade` reaches a
state with two close orders open: the feed thread's close is latched after an
entry has published its position and before it clears the latch
(`execution_engine.py:3143`), against the comment at 3538. And a rejected LIVE close
latches like an unconfirmed one, after which no close of that position is sent
by hand or by SL: the SL finds the latch, the human `pending_order`.

*Switch and manual entries.* While entries are paused a feed callback skips the pipeline
(`bot_manager.py:3378`) and so does not wait for `execution_authority_lock`; its `on_price`
(7059) may exit the position that a manual entry, admitted before the pause, has just
opened and has not yet read (3789). The filled request is then recorded as not filled:
under `SharedSpec` of `EntryDuringSwitch` `AnswerTruthful` does not hold. The other half
of it, `NoFalseExecution`, does, and is checked and proved there: what is recorded as
filled or closed was.

*Loss governance.* A rebase whose checkpoint failed stays in memory; asked for again
it is answered as accepted and persisted from memory (`loss_accounting_rebase.py:149`),
so `RebaseDurable` speaks of the answer to the update itself. After one failed save
the next revision is two ahead of the last saved one, and each later checkpoint is
refused as a gap until a restart: the file then keeps the older state, which is
never stricter than the runtime's unless a record relaxed that (`NeverLessRestrictive`). An automatic relaxation that
the store refuses has used its sequence number, so later events are stale until
another update moves the revision.

*Cash flows.* A save of the runtime in the middle of a transaction makes the
loss state neither the old nor the new one: the journal can then not be finished, and no
composition starts money management again (it fails closed). A crash between the
checkpoint's temporary file and its rename leaves a file that nothing removes and
that refuses every later commit. The runtime's save drops a flow committed since its
start. A commit overwrites a lock or a confirmed authority record saved since the
synchronization read the loss state (`cash_flow_runtime.py:233`): it compares the revision
of its own checkpoint only. The runtime, which still has it in memory, writes it again
with its next save; if the process ends first, it is lost. `LossGovernance` has this, and
`RebaseDurable` and `LockOutlivesRestart` except exactly it. Of the processed ids the last
4096 are kept (`external_cash_flow.py:167`): an older transfer that the exchange still
reports would be taken for a new one. A
transfer that completes late, with a time before the last capture, is never separated.

*Trigger.* A recovered claim's owner is told to nobody, so the claim waits for its
expiry; recovery has no caller in production.

## 5. Proofs

The only assumptions are the named `ASSUME`s on the constants: the feed thread
and the free lock are no HTTP thread, `NoRequest` is no request id, the bounds are
natural numbers and the ledger holds at least one record; transactions,
sessions and `None` are distinct.

*EntryAdmission.* `TypeCorrect` proves `TypeOK`. `AdmissionInvariant` proves
`AdmissionInv`, the conjunction of

- `LockExclusive`: a thread is in a locked stage exactly when it holds the lock;
- `AuthorityHeld`: the reservation of an authorised entry is current. It needs
  `LockExclusive`, because a control switch requires the lock and no reservation;
- `RequestUnanswered`: the reservation is the holder's own and its request has
  no answer. It needs `LockExclusive`, because another thread's answer would
  have to be recorded under the lock;
- `OwnerInControl`: not inductive without `AuthorityHeld`, from which the fill
  inherits its owner.

`CommitAuthority`, `OwnershipStable` and `RetriesNeverAct` (the action property
`RecordedNeverActs`) follow from it. `ActsAtMostOnce` proves `AtMostOnce` with a
further invariant, `ActedOnce`: an id that has acted is in the ledger or its thread is
about to record it, so by `RequestUnanswered` no other step acts for it.

That answers are true is proved in two halves. `SoundInv`: nobody is told of a fill or a
close that did not happen for it (`NoFalseExecution`). It needs that an id has one record
in the ledger (`LedgerIds`), and that a thread inside the lock will read its answer off
what its own request left (`AnswersDue`): an entry starts flat, and of the position a
close is about, only an exit can have been first. `TruthInv`: whose request acted is told so
(`Told`). It needs that a position just opened is still there when its thread reads it
(`EntriesKept`), since it is newer than any price the feed may still exit on, and the feed's
next callback waits for the lock. While a symbol switch pauses entries it does not wait
(*Switch and manual entries*, section 4), so `AnswersTrue`, which states `AnswerTruthful`,
is a theorem of the bot without a switch; the first half holds with it too.

`BoundaryRefinesDesk` proves that the boundary implements `TradingDesk`, for the same bot. That a fill
or a manual close is of the side in control follows from `AuthorityHeld` and
`LockExclusive` (lemma `ControlHeld`); that control passes only while nobody owns the
position, from the guard of the switch. A request acts while it is open by `RequestUnanswered`
and `ActedOnce`, and its record is of what it did by `AnswersTrue`. When the ledger drops
a record for a new one, the dropped request is open again in the same step.

*SafeSwitch.* `SwitchInvariant` proves `SwitchInv`. `PauseOwned` and
`AuthoritativeFeedRuns` are the properties; they are inductive only with
`FeedOwned` (a transaction's feed runs from its preparation to its commit, and is
the manager's only after it), `PreviousApart` (the feed about to be stopped was there
when the transaction prepared its own, so it is neither that nor one a later start
makes), `ProposalMoves`, `StartGoesOn` (how far a start that was not overtaken has got:
runtime id, feed, reference and engine are its own, the symbol is the one it chose), and
`Synchronised`, which the refinement needs when entries reopen and when a start ends. A
step of a transaction keeps `StartGoesOn` because a commit is recorded in `torn` exactly
while a start has yet to use what the commit replaces. `SwitchRefinesAuthority` proves
that initial states map to initial states and each step to a step of `SymbolAuthority`
or a stutter, where `Entries` is the refinement mapping of the pause and `Restart` that of
the start.

*EntryDuringSwitch.* The two specifications interfere: the switch writes the pause and
the symbols the entries read, and reads their position and pending order.
`SwitchUndisturbed` proves that a behaviour of the composition is one of
`SafeSwitch!Spec`, so what is proved of the switch holds beside entries. The other
direction does not hold (`EntryAdmission!Spec` never pauses), so `SharedInvariant` proves again
that each step keeps `EntryInv`, the entry boundary's invariants, from the lemmas of
`EntryAdmissionProofs`: none of them rests on the pause, and of the switch they only
need that it leaves the entry's variables alone. From it follow `SwitchKeepsAdmission`
(authority at the commit and one action per request), `SwitchNeverActs` and
`AnswersSound`. `PauseClosesDoor` proves `PauseHolds`: during a pause, once every thread that
was inside has left, nobody enters.

*LiveTrade.* `Invariance` proves `TypeOK` with `LiveInv`, the conjunction of

- `Locks`: whoever is in an entry or a close is the only holder of its lock;
- `Holding`: the engine holds no position from the commit of an entry to its
  answer, and holds one during a close;
- `EntriesAwaited`: an entry order on the wire has a thread that waits for it,
  unless its request was lost. Without it `AccountFlat`, which sees only orders that
  have arrived, would not keep a second entry out;
- `OneExposure`, which needs the two locks and `EntriesAwaited`;
- `SeenFlat`: no entry order is open while the engine holds a position, so what a
  close saw flat stays flat until it has looked at the orders too. It needs
  `Holding` and `OneExposure`;
- `Sized`: a close about to be sent has a quantity.

`SingleExposure` and `ForgetsOnlyFlat` (the action property `ConfirmedCloseFlat`)
follow from it. Both properties except a session that lost an entry request on the wire:
that order may arrive at any time. `TradeRefinesAccount` proves that `LiveTrade` implements
`LiveAccount`: each step moves `Exposure` and `held` as one of its steps does, or neither.
That an entry is sent only while no other is open needs `Locks` and `EntriesAwaited`, that it
is sent only while nothing is held `Holding`; that no fill doubles `OneExposure`; that only
a flat account is forgotten `SeenFlat`.

*EmergencyStop.* A step of the operator or of the operation leaves `LiveTrade`'s
variables alone (lemma `AsideApart`) or touches orders so that no entry begins
(`TouchesOrders`); a step of trading is one of `LiveTrade`. So `LiveTrade`'s lemmas give
`SingleExposureBeside` and `ForgetsOnlyFlatBeside`, and `StopRefinesAccount`: with
the operator cancelling and flattening in the same account, the two together still
implement `LiveAccount`. `StopInvariant` proves `StopInv`, which adds
that an operation keeps the emergency on; that after its listing no entry is or gets past
its check (`CheckedTrades`); that the entries which could still fill are those
it has listed and not yet cancelled - by `EntriesAwaited`, for an entry on the wire would have
a thread past its check (`ListsEntries`); and that an account seen flat after that stays
flat. `LockedIsFlat` follows from it, for operations that have not failed and a session
that has not lost an entry request.

*TriggerIdempotency.* `Invariance` proves `TypeOK` with `TriggerInv`, the conjunction of

- `LockHeld`: a worker holds the OS lock exactly in the stages between taking and
  releasing it;
- `OwnersFresh`: owner ids are not used twice, nor shared by two records, so `Mine`, which
  compares the record's generation and owner with the worker's, tells whose claim it is;
- `ClaimCarried` and `RecordTimes`: what a worker carries is a claim of its own not yet
  concluded, whose run is open exactly when it has begun, and no time stamp lies in
  the future;
- `ClaimStands`: until a claim's time is over, the record is still under it;
- `NoRival`: a worker that found its claim unchanged under the lock has no
  rival whose time is not over. It needs `ClaimStands`, and the lock: any step
  that could create a rival needs the lock or an expired record;
- `ReplayTruthful`.

`RunsAlone` (`OneRunner`) needs `LockHeld` only, `NeverRepeats` (`NotRepeated`)
needs `NoRival`. `TriggerRefinesRuns` proves that the trigger implements `MonitoringRuns`,
a step for a step: a run starts only beside no other (`LockHeld`) and beside no counted one
of its request (`NoRival`); its success replaces the answer because the record is
its own (`OwnersFresh`, `ClaimCarried`); and an answer is dropped, by expiry, clean-up, a new
claim or recovery, only after its time (`ClaimStands`). The assumption `RetentionCoversTtl`,
that results are kept at least as long as they may be replayed, is the configuration's
default (`ClaimStands` fails without it).

*LossGovernance.* `DurabilityInvariant` proves `DurableInv`: the file never has a record
that memory lacks, and an update in flight adds to the records of the revision it was
made from (`RequestCurrent`, `WebCurrent`) - which is what the store's comparison of
revisions is for - and what a commit of cash flows may put back is a state the file had
and has superseded (`FlowBehind`), so that it never brings the file ahead of memory.
`ConfirmedRecordsAreDurable` (`RebaseDurable`: a confirmed record is on disk, or was
overwritten by a commit and is still in memory), `RuntimeNeverLessRestrictive` and
`WhatRelaxesTheFile` (`LockOutlivesRestart`: an authority record, or a commit that puts back
what it read) follow from it. So does `UpdatesRefineRecord`, that memory and file
implement `LossRecord`: whatever an update was built from, it supersedes the state the store
holds when it is accepted, and the file is left alone or takes the new state (lemma
`TakesSupersede`); an operator is told of a record in the step that saves it; a commit puts
back only what it read (`FlowBehind`); a crash or a restart reads the file, and gives up
only confirmed records that a commit has overwritten. `AdmissionInvariant` proves `AdmissionInv`: every
projection anybody published or is about to publish, if it permits entries at the
current revision, is true of the runtime's state (`PermitsTruly`), and does not contradict
what the gate's refresh was told (`AgreesWithGate`). It has to speak of the views of all
threads, since any of them may be published next. `AdmissionsAreTruthful` and
`AdmissionsHeedMetrics` follow from it.

*CashFlowTransaction.* `CommitInvariant` proves `CommitInv`: the revision counts the
processed transfers (`Counts`), so that comparing revisions in `Prepare` is comparing
sets (lemma `SameRevision`); the transaction of the journal takes the checkpoint
further (`Forward`); and every state in the files, the temporary file, the runtime and
the synchronization separates a flow at most once (`Once`) and only flows that are
processed or will be by the journal (`Covered`). It has to include the temporary file
and the readers, since either writer may put them in place. `NeverTwice` follows from it,
and two properties no run lists beside `CommitInv`: `ApartOnlyByJournal`, that the files
are apart only under a journal, and `RuntimeOnCommitted`, that the runtime works on
committed flows. `CommitRefinesFlows` proves that the files, the journal and both writers implement
`FlowAccount`: every step of a file operation is a stutter there, or the one step of its
transaction (lemma `NextEffects` lists the four kinds). It needs `AccInv` below, since
`Finish` promises that each pending flow is separated or was taken away by a save, and
`BeganInv`: a transaction began on processed transfers, and adds some, so its stages are
read off its journal while the checkpoint already has them. `ProcessedHeld` proves
`ProcessedAccounted` with four more invariants (`AccInv`). Its hard case: a
synchronization finds a transaction pending, completes it, and goes on with the loss state
it read before. It loses that transaction's flows unless its revision check fails, or the
transaction had already reached the loss state when it read. `PointsLate` gives the
latter: once the checkpoint is the transaction's, the loss state is never again the one
before it. This holds because the runtime's saves have ever later times and, while a
transaction is pending, no flow of it (`SavesInv`), and because a stale temporary file is
removed before it can be put in place (`LiveTemp`).

*Only model-checked.* `LockReleased`, `PauseEnds` and `CloseEnds` are liveness
properties, which this prover does not reach. Every safety property of a passing run
and every refinement has a theorem.

## 6. Limits

- One feed thread in `EntryAdmission` and in the composition, though for a moment
  the old feed's thread and the new one's run side by side after a switch.
- `SafeSwitch` has one `start` at a time, cut up at the writes other threads read; a stop
  may begin beside it. After a start that failed early an update may still be accepted that
  the code would drop. `sync_downstream` is one step, or a failure part of the way.
- The composition does not stop the bot, so an entry beside `stop` dropping the engine
  (13444) is not there, and `EntryAdmission` leaves RUNNING only by an emergency unlock.
- `EntryAdmission` is PAPER, and `LiveTrade` is not composed with it: which side may
  trade is not followed in LIVE.
- In `LiveTrade` and `EmergencyStop` nobody else opens positions on the account, a market
  order fills at once or not at all, and the session is not started again. Whether real
  orders are armed is left open: the observation is refreshed only while they are not, and
  the operator may arm them at any time after it.
- That an emergency operation ends is not checked: every step of it has a timeout.
- The initial symbol commit, which has no previous feed, is not modelled.
- A crash of the bot's process loses everything in `EntryAdmission`, `SafeSwitch` and
  `LiveTrade` but the control authority; the crash and restart steps are in
  `TriggerIdempotency`, `LossGovernance` and `CashFlowTransaction`, which have durable state.
- `LossGovernance` leaves out switching management off and on by configuration,
  exceptions inside the projection dispatcher, and a start that asks for recovery because
  the file is missing or corrupt. It has one synchronization of cash flows at a time, whose
  temporary file and failed writes are `CashFlowTransaction`'s.
- `CashFlowTransaction` leaves out the eviction of the oldest of 4096 processed ids
  (`external_cash_flow.py:167`), so all it says of processed transfers, `FlowOnce` included,
  is of an account with at most that many. It leaves out amounts, a temporary file that is
  written in part, the risk state the loss state also carries (see `LossGovernance`),
  missing or corrupt files, and the order of the shutdown (every end is a `Crash`).
- `TriggerIdempotency` leaves out authorisation, rate limits and what the monitoring
  runner does.

### Not modelled

Market scanning, ranking and calibration, the strategies and the aggregation compute
numbers without shared state: what they propose is an arbitrary symbol or side here. The
recorder, evidence, diagnostics, advisors, frontend and tools observe and display. The HTTP
routes are thin, and their threading is in the modules they call. The limited LIVE switch, the
parameter store, the paper account's files, the market feed's sequence repair and the
exchange adapters other than KuCoin are listed in the plan or out of reach.

## 7. Plan

Done: `EntryAdmission`, `SafeSwitch`, `EntryDuringSwitch`, `LiveTrade`, `EmergencyStop`,
`TriggerIdempotency`, `LossGovernance`, `CashFlowTransaction`, the abstract `TradingDesk`,
`SymbolAuthority`, `LiveAccount`, `MonitoringRuns`, `LossRecord` and `FlowAccount`, and their
proofs. Next, in this order:

1. `EmergencyStop`: the shutdown with its residual-risk check, arming, the sync at
   `engine.start`, and an entry answered as failed though the exchange has its position.
2. `OrderBookSync`: snapshot, deltas and their sequence numbers, reconnect; the
   published book implements the exchange's.
3. `SelectionCycle`: the cycle lock, the AUTO lifecycle and its stop, composed with
   `SafeSwitch`.
4. `PaperStore`: the atomic file replacement under crashes.
5. `EntryAdmission` with several feed threads.

Proofs planned: the refinement of the order book, and of `SelectionCycle` beside the switch.
