----------------------------- MODULE SafeSwitch -----------------------------
(***************************************************************************)
(* The safe symbol switch of AUTO market selection: SafeSymbolSwitch over  *)
(* BotManagerSwitchRuntime, with the exchange feeds whose callbacks run    *)
(* beside it.                                                              *)
(*                                                                         *)
(* A transaction is identified by the runtime id its new feed gets; two    *)
(* transactions may run at once (the AUTO cycle and the limited LIVE       *)
(* control loop each build their own coordinator), and symbol_switch_lock  *)
(* decides between them.  Whether trading is quiet (FLAT, no pending       *)
(* order, Money Management fresh, no emergency) is the caller's to say: it *)
(* is a parameter of the steps that ask.                                   *)
(*                                                                         *)
(* stop() never waits for a transaction, and start() takes no lock: it     *)
(* writes the symbol, the order book, the engine and its symbol, the       *)
(* runtime id and the feed one after the other, each a step of its own     *)
(* here, and a transaction that outlived the stop may commit between any   *)
(* two of them, as another thread's stop() may begin there.                *)
(***************************************************************************)
EXTENDS Naturals

CONSTANTS
  Transactions,   \* switch transactions, each also the runtime id of a feed
  Sessions,       \* runtime ids of the feeds that start() makes
  None,           \* no transaction, no feed
  Symbols

ASSUME RuntimesDistinct ==
  /\ Transactions \cap Sessions = {}
  /\ None \notin Transactions \cup Sessions

VARIABLES
  phase,              \* where each transaction is
  from,               \* the active symbol its proposal was made for
  target,             \* the symbol of each runtime's feed
  previous,           \* manager.ws when its feed was prepared
  switchOwner,        \* symbol_switch_transaction_id, holder of the lock
  symbolSwitchPaused, \* _symbol_switch_entry_paused
  activeSymbol, engineSymbol,
  bot,                \* the lifecycle
  starting, stopping, \* what start() has done last; how far stop() is
  startSymbol,        \* start()'s active_symbol, None outside it
  session,            \* the runtime id start() makes up, None outside it
  engine,             \* manager.engine exists
  activeRuntime,      \* active_runtime_id
  ws,                 \* manager.ws, the feed that stop() will stop
  feeds,              \* the state of each runtime's feed
  carries,            \* the runtime id each feed's updates bring
  marketSymbol,       \* whose order book ob_manager holds, if it is there
  callback,           \* where each feed's callback thread is
  torn                \* history: what of the last start() a commit or a stop
                      \* overtook, "engine" (its symbol), "feed"

transactionVars == <<phase, from, target, previous>>
lockVars == <<switchOwner, symbolSwitchPaused>>
symbolVars == <<activeSymbol, engineSymbol, activeRuntime, ws>>
botVars ==
  <<bot, starting, stopping, startSymbol, session, engine, carries, torn>>
feedVars == <<feeds, callback, marketSymbol>>
startVars == <<starting, stopping, startSymbol, session>>
vars == <<transactionVars, lockVars, symbolVars, botVars, feedVars>>

Runtimes == Transactions \cup Sessions
Phases == {"unborn", "preparing", "pausing", "subscribing", "validating",
           "committing", "syncing", "cleanup", "resuming", "aborting",
           "releasing", "completed", "failed", "halted"}
Running(n) == phase[n] \notin {"unborn", "completed", "failed", "halted"}
Committed == {"syncing", "cleanup", "resuming", "halted"}

(* start() has yet to set the engine's symbol, or to refer to its feed.    *)
BeforeEngineSymbol == {"symbol", "book", "engine"}
BeforeFeed == {"runtime", "made"}

Go(n, a, b) == phase[n] = a /\ phase' = [phase EXCEPT ![n] = b]

(* Mutant of FeedAfterStop: a feed that is not there is stopped too. *)
FeedAfterStopUnchecked(r, state) ==
  feeds' = [x \in DOMAIN feeds \cup {r} |-> IF x = r THEN state ELSE feeds[x]]

(* The feed of a runtime has stopped, or its stop() raised and it runs on. *)
FeedAfterStop(r, state) ==
  feeds' = IF r = None THEN feeds ELSE [feeds EXCEPT ![r] = state]

Init ==
  \E first \in Sessions, symbol \in Symbols :
    /\ phase = [n \in Transactions |-> "unborn"]
    /\ from = [n \in Transactions |-> symbol]
    /\ target = [r \in Runtimes |-> symbol]
    /\ previous = [n \in Transactions |-> None]
    /\ switchOwner = None /\ symbolSwitchPaused = FALSE
    /\ activeSymbol = symbol /\ engineSymbol = symbol
    /\ bot = "running" /\ starting = "none" /\ stopping = "none"
    /\ startSymbol = None /\ session = None
    /\ engine = TRUE
    /\ activeRuntime = first /\ ws = first
    /\ feeds = [r \in Runtimes |-> IF r = first THEN "running" ELSE "none"]
    /\ carries = [r \in Runtimes |-> r]
    /\ callback = [r \in Runtimes |-> "idle"]
    /\ marketSymbol = symbol
    /\ torn = {}

-----------------------------------------------------------------------------
(* The transaction, SafeSymbolSwitch._execute_locked.                      *)

Propose(n, symbol) ==
  /\ Go(n, "unborn", "preparing")
  /\ bot = "running"
  /\ symbol # activeSymbol
  /\ from' = [from EXCEPT ![n] = activeSymbol]
  /\ target' = [target EXCEPT ![n] = symbol]
  /\ UNCHANGED <<previous, lockVars, symbolVars, botVars, feedVars>>

(* revalidate_switch: before the pause, and again before the commit.       *)
Revalidate(n, quiet) ==
  /\ LET ok == quiet /\ activeSymbol = from[n]
     IN  \/ Go(n, "preparing", IF ok THEN "pausing" ELSE "failed")
         \/ Go(n, "validating", IF ok THEN "committing" ELSE "aborting")
  /\ UNCHANGED <<from, target, previous, lockVars, symbolVars, botVars,
                 feedVars>>

(* Mutant of PauseEntries: the lock is not asked for. *)
PauseEntriesUnlocked(n) ==
  /\ Go(n, "pausing", "subscribing")
  /\ switchOwner' = n /\ symbolSwitchPaused' = TRUE
  /\ UNCHANGED <<from, target, previous, symbolVars, botVars, feedVars>>

(* pause_new_entries: symbol_switch_lock is taken without waiting.         *)
PauseEntries(n) ==
  /\ IF switchOwner = None
     THEN /\ Go(n, "pausing", "subscribing")
          /\ switchOwner' = n /\ symbolSwitchPaused' = TRUE
     ELSE /\ Go(n, "pausing", "failed")
          /\ UNCHANGED lockVars
  /\ UNCHANGED <<from, target, previous, symbolVars, botVars, feedVars>>

PrepareFeed(n) ==
  /\ Go(n, "subscribing", "validating")
  /\ feeds' = [feeds EXCEPT ![n] = "running"]
  /\ previous' = [previous EXCEPT ![n] = ws]
  /\ UNCHANGED <<from, target, lockVars, symbolVars, botVars, callback,
                 marketSymbol>>

(* Mutant of PrepareFeedFails: the failure ends the transaction at once. *)
PrepareFeedFailsPaused(n) ==
  /\ Go(n, "subscribing", "failed")
  /\ UNCHANGED <<from, target, previous, lockVars, symbolVars, botVars,
                 feedVars>>

(* No feed was made: there is no handle to clean up. *)
PrepareFeedFails(n) ==
  /\ Go(n, "subscribing", "releasing")
  /\ UNCHANGED <<from, target, previous, lockVars, symbolVars, botVars,
                 feedVars>>

(* The proposal is stale; the snapshot is missing, late, for another       *)
(* symbol or not a book; or the runtime's mode refuses the commit.         *)
Refuse(n) ==
  /\ Go(n, "validating", "aborting") \/ Go(n, "committing", "aborting")
  /\ UNCHANGED <<from, target, previous, lockVars, symbolVars, botVars,
                 feedVars>>

(* The commit overtakes a start() that has read or written what it is yet  *)
(* to use: the engine's symbol is set to the old one, or the feed is made  *)
(* of one symbol and another's runtime id.                                 *)
Overtakes ==
  {p \in {"engine", "feed"} :
     starting \in IF p = "engine" THEN BeforeEngineSymbol ELSE BeforeFeed}

CommitActiveSymbol(n) ==
  /\ IF symbolSwitchPaused /\ switchOwner = n /\ activeSymbol = from[n]
     THEN /\ Go(n, "committing", "syncing")
          /\ activeSymbol' = target[n]
          /\ activeRuntime' = n /\ ws' = n
          /\ torn' = torn \cup Overtakes
     ELSE /\ Go(n, "committing", "aborting")
          /\ UNCHANGED <<activeSymbol, activeRuntime, ws, torn>>
  /\ UNCHANGED <<from, target, previous, lockVars, engineSymbol, bot,
                 startVars, engine, carries, feedVars>>

(* sync_downstream: the engine's symbol, then the market intelligence.     *)
SyncDownstream(n) ==
  /\ Go(n, "syncing", "cleanup")
  /\ engine /\ marketSymbol # "absent"
  /\ activeSymbol = target[n] /\ activeRuntime = n
  /\ engineSymbol' = target[n]
  /\ marketSymbol' = target[n]
  /\ UNCHANGED <<from, target, previous, lockVars, activeSymbol,
                 activeRuntime, ws, botVars, feeds, callback>>

(* Mutant of SyncFails: the switch is taken for done and entries resume. *)
SyncFailsResuming(n) ==
  /\ Go(n, "syncing", "resuming")
  /\ UNCHANGED <<from, target, previous, lockVars, symbolVars, botVars,
                 feedVars>>

(* It finds no engine or another authority, or raises on the way. *)
SyncFails(n) ==
  /\ Go(n, "syncing", "halted")
  /\ \/ UNCHANGED <<engineSymbol, marketSymbol>>
     \/ /\ engine
        /\ engineSymbol' = target[n]
        /\ \/ UNCHANGED marketSymbol
           \/ marketSymbol # "absent" /\ marketSymbol' = target[n]
  /\ UNCHANGED <<from, target, previous, lockVars, activeSymbol,
                 activeRuntime, ws, botVars, feeds, callback>>

(* Mutant of CleanupOldFeed: the feed the manager refers to is stopped. *)
CleanupCurrentFeed(n) ==
  /\ Go(n, "cleanup", "resuming")
  /\ FeedAfterStop(ws, "stopped")
  /\ UNCHANGED <<from, target, previous, lockVars, symbolVars, botVars,
                 callback, marketSymbol>>

CleanupOldFeed(n) ==
  /\ Go(n, "cleanup", "resuming")
  /\ FeedAfterStop(previous[n], "stopped")
  /\ UNCHANGED <<from, target, previous, lockVars, symbolVars, botVars,
                 callback, marketSymbol>>

CleanupOldFeedFails(n) ==
  /\ Go(n, "cleanup", "halted")
  /\ previous[n] # None
  /\ \E state \in {"running", "stopped"} : FeedAfterStop(previous[n], state)
  /\ UNCHANGED <<from, target, previous, lockVars, symbolVars, botVars,
                 callback, marketSymbol>>

(* _precommit_failure stops the new feed; an exception there is swallowed. *)
CleanupNewFeed(n) ==
  /\ Go(n, "aborting", "releasing")
  /\ \E state \in {"running", "stopped"} : FeedAfterStop(n, state)
  /\ UNCHANGED <<from, target, previous, lockVars, symbolVars, botVars,
                 callback, marketSymbol>>

(* Mutant of ResumeEntries: the lock is released, the pause stays. *)
ResumeEntriesPaused(n) ==
  /\ switchOwner = n
  /\ Go(n, "resuming", "completed") \/ Go(n, "releasing", "failed")
  /\ switchOwner' = None
  /\ UNCHANGED <<from, target, previous, symbolSwitchPaused, symbolVars,
                 botVars, feedVars>>

(* resume_new_entries, after a commit or after a failure before it.        *)
ResumeEntries(n) ==
  /\ IF symbolSwitchPaused /\ switchOwner = n
     THEN /\ Go(n, "resuming", "completed") \/ Go(n, "releasing", "failed")
          /\ switchOwner' = None /\ symbolSwitchPaused' = FALSE
     ELSE /\ Go(n, "resuming", "halted") \/ Go(n, "releasing", "failed")
          /\ UNCHANGED lockVars
  /\ UNCHANGED <<from, target, previous, symbolVars, botVars, feedVars>>

TransactionStep(n, quiet) ==
  \/ Revalidate(n, quiet)
  \/ PauseEntries(n)
  \/ PrepareFeed(n) \/ PrepareFeedFails(n)
  \/ Refuse(n)
  \/ CommitActiveSymbol(n)
  \/ SyncDownstream(n) \/ SyncFails(n)
  \/ CleanupOldFeed(n) \/ CleanupOldFeedFails(n)
  \/ CleanupNewFeed(n)
  \/ ResumeEntries(n)

-----------------------------------------------------------------------------
(* BotManager.stop and start, as far as they touch the symbol and feeds.   *)

(* No callback is accepted any more; the current feed is told to stop, and *)
(* forgotten a second later unless that raised.                            *)
TellFeedToStop ==
  /\ stopping = "none"
  /\ stopping' \in IF ws = None THEN {"clearing"}
                    ELSE {"sleeping", "clearing"}
  /\ bot' = "stopping"
  /\ activeRuntime' = None
  /\ FeedAfterStop(ws, "stopped")
  /\ UNCHANGED <<transactionVars, lockVars, activeSymbol, engineSymbol, ws,
                 engine, carries, callback, marketSymbol>>

(* One stop() at a time, also while start() is under way. *)
BeginStop ==
  /\ TellFeedToStop
  /\ torn' = IF starting = "none" THEN torn ELSE torn \cup {"feed"}
  /\ UNCHANGED <<starting, startSymbol, session>>

(* The manager forgets the feed, the order book and the engine.            *)
DropFeed ==
  /\ stopping \in {"sleeping", "clearing"} /\ stopping' = "dropped"
  /\ ws' = IF stopping = "sleeping" THEN None ELSE ws
  /\ engine' = FALSE /\ marketSymbol' = "absent"
  /\ UNCHANGED <<transactionVars, lockVars, activeSymbol, engineSymbol,
                 activeRuntime, bot, starting, startSymbol, session, carries,
                 torn, feeds, callback>>

(* Residual state is no stop: the lifecycle stays at STOPPING. *)
FinishStop ==
  /\ stopping = "dropped" /\ stopping' = "none"
  /\ bot' = IF ws = None /\ ~engine THEN "stopped" ELSE "stopping"
  /\ UNCHANGED <<transactionVars, lockVars, symbolVars, starting,
                 startSymbol, session, engine, carries, torn, feedVars>>

(* Starting begins when its own stop() has succeeded, and leaves a pause   *)
(* alone.  One start at a time.                                            *)
SetActiveSymbol(id, symbol) ==
  /\ bot = "stopped" /\ starting = "none" /\ feeds[id] = "none"
  /\ bot' = "starting" /\ starting' = "symbol"
  /\ activeSymbol' = symbol
  /\ startSymbol' = symbol /\ session' = id
  /\ torn' = {}
  /\ UNCHANGED <<transactionVars, lockVars, engineSymbol, activeRuntime, ws,
                 stopping, engine, carries, feedVars>>

Started(a, b) ==
  /\ starting = a /\ starting' = b
  /\ UNCHANGED <<phase, from, previous, lockVars, stopping, torn, callback>>

MakeBook ==
  /\ Started("symbol", "book")
  /\ marketSymbol' = "empty"
  /\ UNCHANGED <<target, symbolVars, bot, startSymbol, session, engine,
                 carries, feeds>>

MakeEngine ==
  /\ Started("book", "engine")
  /\ engine' = TRUE /\ engineSymbol' = None
  /\ UNCHANGED <<target, activeSymbol, activeRuntime, ws, bot, startSymbol,
                 session, carries, feeds, marketSymbol>>

(* The symbol the engine gets is the one start() chose, not the active one. *)
SetEngineSymbol ==
  /\ engine
  /\ Started("engine", "traded")
  /\ engineSymbol' = startSymbol
  /\ UNCHANGED <<target, activeSymbol, activeRuntime, ws, bot, startSymbol,
                 session, engine, carries, feeds, marketSymbol>>

SetRuntime ==
  /\ Started("traded", "runtime")
  /\ activeRuntime' = session
  /\ UNCHANGED <<target, activeSymbol, engineSymbol, ws, bot, startSymbol,
                 session, engine, carries, feeds, marketSymbol>>

(* The feed is made for the active symbol and the authoritative runtime,   *)
(* as they are now.                                                        *)
MakeFeed ==
  /\ Started("runtime", "made")
  /\ feeds' = [feeds EXCEPT ![session] = "made"]
  /\ target' = [target EXCEPT ![session] = activeSymbol]
  /\ carries' = [carries EXCEPT ![session] = activeRuntime]
  /\ UNCHANGED <<symbolVars, bot, startSymbol, session, engine,
                 marketSymbol>>

HoldFeed ==
  /\ Started("made", "held")
  /\ ws' = session
  /\ UNCHANGED <<target, activeSymbol, engineSymbol, activeRuntime, bot,
                 startSymbol, session, engine, carries, feeds, marketSymbol>>

(* The feed that is started is the one the manager refers to.              *)
StartFeed ==
  /\ ws # None
  /\ Started("held", "started")
  /\ feeds' = [feeds EXCEPT ![ws] = "running"]
  /\ UNCHANGED <<target, symbolVars, bot, startSymbol, session, engine,
                 carries, marketSymbol>>

Run ==
  /\ Started("started", "none")
  /\ bot' = "running"
  /\ startSymbol' = None /\ session' = None
  /\ UNCHANGED <<target, symbolVars, engine, carries, feeds, marketSymbol>>

(* Any exception on the way: start() calls stop().                         *)
StartFails ==
  /\ starting # "none" /\ starting' = "none"
  /\ TellFeedToStop
  /\ startSymbol' = None /\ session' = None
  /\ torn' = IF starting \in BeforeEngineSymbol THEN torn \cup {"engine"}
             ELSE torn

Start ==
  \/ \E id \in Sessions, symbol \in Symbols : SetActiveSymbol(id, symbol)
  \/ MakeBook \/ MakeEngine \/ SetEngineSymbol
  \/ SetRuntime \/ MakeFeed \/ HoldFeed \/ StartFeed \/ Run
  \/ StartFails

-----------------------------------------------------------------------------
(* The feeds' callback threads.                                            *)

(* on_update lets an update through when its feed is authoritative, its    *)
(* symbol active and its session the manager's: start() counts the session *)
(* first and makes the new session's on_update before the runtime id.      *)
AcceptUpdate(r) ==
  /\ feeds[r] = "running"
  /\ callback[r] = "idle"
  /\ activeRuntime = carries[r] /\ activeSymbol = target[r]
  /\ starting \notin BeforeEngineSymbol
  /\ callback' = [callback EXCEPT ![r] = "accepted"]
  /\ UNCHANGED <<transactionVars, lockVars, symbolVars, botVars, feeds,
                 marketSymbol>>

(* ... and publishes its book later, also when the feed was stopped since. *)
PublishUpdate(r) ==
  /\ callback[r] = "accepted"
  /\ callback' = [callback EXCEPT ![r] = "idle"]
  /\ marketSymbol' = IF marketSymbol = "absent" THEN "absent" ELSE target[r]
  /\ UNCHANGED <<transactionVars, lockVars, symbolVars, botVars, feeds>>

Next ==
  \/ \E n \in Transactions, symbol \in Symbols : Propose(n, symbol)
  \/ \E n \in Transactions, quiet \in BOOLEAN : TransactionStep(n, quiet)
  \/ BeginStop \/ DropFeed \/ FinishStop
  \/ Start
  \/ \E r \in Runtimes : AcceptUpdate(r) \/ PublishUpdate(r)

(* A transaction that has begun runs on: its one wait, for the first       *)
(* snapshot, has a timeout.                                                *)
Fairness ==
  \A n \in Transactions :
    WF_vars(\E quiet \in BOOLEAN : TransactionStep(n, quiet))

Spec == Init /\ [][Next]_vars
FairSpec == Spec /\ Fairness

-----------------------------------------------------------------------------
(* Properties.                                                             *)

(* Every variable has its type.                                            *)
TypeOK ==
  /\ phase \in [Transactions -> Phases]
  /\ from \in [Transactions -> Symbols]
  /\ target \in [Runtimes -> Symbols]
  /\ previous \in [Transactions -> Runtimes \cup {None}]
  /\ switchOwner \in Transactions \cup {None}
  /\ symbolSwitchPaused \in BOOLEAN
  /\ activeSymbol \in Symbols /\ engineSymbol \in Symbols \cup {None}
  /\ bot \in {"running", "starting", "stopping", "stopped"}
  /\ starting \in {"none", "symbol", "book", "engine", "traded", "runtime",
                   "made", "held", "started"}
  /\ stopping \in {"none", "sleeping", "clearing", "dropped"}
  /\ startSymbol \in Symbols \cup {None} /\ session \in Sessions \cup {None}
  /\ starting # "none" => startSymbol \in Symbols /\ session \in Sessions
  /\ engine \in BOOLEAN
  /\ activeRuntime \in Runtimes \cup {None} /\ ws \in Runtimes \cup {None}
  /\ feeds \in [Runtimes -> {"none", "made", "running", "stopped"}]
  /\ carries \in [Runtimes -> Runtimes \cup {None}]
  /\ callback \in [Runtimes -> {"idle", "accepted"}]
  /\ marketSymbol \in Symbols \cup {"absent", "empty"}
  /\ torn \subseteq {"engine", "feed"}

(* While the bot runs, whatever failed, whichever of two transactions won  *)
(* and whatever transaction outlived a restart, the feed whose updates are *)
(* accepted is running, carries the active symbol and is the one stop()    *)
(* would stop, and there is an engine: unless its start() was overtaken,   *)
(* by a commit between the runtime id and the reference to the feed, or by *)
(* a stop().                                                               *)
FeedHeld ==
  /\ activeRuntime # None /\ ws = activeRuntime
  /\ target[activeRuntime] = activeSymbol
AuthoritativeFeedRuns ==
  bot = "running" /\ "feed" \notin torn =>
    FeedHeld /\ feeds[activeRuntime] = "running" /\ engine

(* Entries are paused on behalf of exactly the transaction that still owes *)
(* a resume, or that failed after its commit and must never resume; a stop *)
(* or a restart of the bot does not lift its pause.                        *)
Paused(n) ==
  phase[n] \in Committed \cup {"subscribing", "validating", "committing",
                               "aborting", "releasing"}
PauseOwned ==
  /\ symbolSwitchPaused <=> switchOwner # None
  /\ \A n \in Transactions : Paused(n) <=> switchOwner = n

(* While entries are open, and from the synchronisation until they reopen, *)
(* the engine trades the active symbol: unless start() has yet to give the *)
(* engine its symbol, or a commit overtook it before it did.               *)
Synchronised ==
  \/ engineSymbol = activeSymbol
  \/ switchOwner # None /\ phase[switchOwner] \in {"syncing", "halted"}
  \/ starting \in BeforeEngineSymbol \/ "engine" \in torn

(* Why these hold: a proposal changes the symbol; a transaction's feed runs *)
(* from its preparation to its commit, is the manager's only after it, and *)
(* is not the feed the transaction replaces, which was made before it; and *)
(* start() goes by what it chose until it is overtaken.                    *)
Settled == {"syncing", "cleanup", "resuming", "halted", "completed"}
NotPrepared == {"unborn", "preparing", "pausing", "subscribing"}
ProposalMoves ==
  \A n \in Transactions : Running(n) => target[n] # from[n]
FeedOwned ==
  \A n \in Transactions :
    /\ phase[n] \in NotPrepared => feeds[n] = "none"
    /\ phase[n] \in {"validating", "committing"} => feeds[n] = "running"
    /\ n \in {activeRuntime, ws} => phase[n] \in Settled
PreviousApart ==
  /\ \A n \in Transactions :
       /\ previous[n] # None =>
            previous[n] # n /\ feeds[previous[n]] # "none"
       /\ phase[n] \in {"syncing", "cleanup"} /\ previous[n] # None =>
            activeRuntime # previous[n]
  /\ \A r \in Runtimes : r = ws => feeds[r] # "none"
StartGoesOn ==
  /\ starting \in BeforeEngineSymbol \cup {"traded", "runtime"} =>
       feeds[session] = "none"
  /\ starting = "made" => feeds[session] # "none"
  /\ starting \in BeforeEngineSymbol /\ "engine" \notin torn =>
       activeSymbol = startSymbol
  /\ bot = "stopped" => stopping = "none"
  /\ "feed" \notin torn =>
       /\ starting # "none" => bot = "starting"
       /\ bot \in {"starting", "running"} => stopping = "none"
       /\ starting \notin {"none", "symbol", "book"} => engine
       /\ starting \in BeforeFeed => activeRuntime = session
       /\ starting = "made" =>
            feeds[session] = "made" /\ target[session] = activeSymbol
       /\ starting \in {"held", "started"} => FeedHeld
       /\ starting = "held" => feeds[activeRuntime] \in {"made", "running"}
       /\ starting = "started" => feeds[activeRuntime] = "running"
SwitchInv ==
  /\ PauseOwned /\ AuthoritativeFeedRuns /\ Synchronised
  /\ ProposalMoves /\ FeedOwned /\ PreviousApart /\ StartGoesOn

(* The rest of the system sees a symbol authority: see SymbolAuthority.    *)
Entries ==
  CASE switchOwner = None -> "open"
    [] switchOwner # None /\ phase[switchOwner] = "halted" -> "blocked"
    [] switchOwner # None
         /\ phase[switchOwner] \in Committed \ {"halted"} -> "moved"
    [] OTHER -> "paused"
Restart ==
  CASE "engine" \in torn -> "torn"
    [] "engine" \notin torn /\ starting \in BeforeEngineSymbol -> "begun"
    [] OTHER -> "none"
Authority == INSTANCE SymbolAuthority
               WITH symbol <- activeSymbol, traded <- engineSymbol,
                    entries <- Entries, restart <- Restart, NoSymbol <- None
ImplementsAuthority == Authority!Spec

(* A pause ends, unless its transaction failed after the commit.           *)
PauseEnds ==
  symbolSwitchPaused ~>
    (~symbolSwitchPaused \/ \E n \in Transactions : phase[n] = "halted")

(* While entries are open, the book the strategy reads is the active       *)
(* symbol's: none of the old symbol's data is left in it.                  *)
NoOldSymbolBook ==
  bot = "running" /\ ~symbolSwitchPaused =>
    marketSymbol \in {activeSymbol, "empty"}

(* When stop() has reported STOPPED and no transaction is under way, the   *)
(* manager refers to no feed and accepts no feed's updates.                *)
StoppedBotHasNoFeed ==
  bot = "stopped" /\ (\A n \in Transactions : ~Running(n))
    => ws = None /\ activeRuntime = None
=============================================================================
