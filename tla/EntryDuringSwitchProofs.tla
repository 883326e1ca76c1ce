----------------------- MODULE EntryDuringSwitchProofs -----------------------
(***************************************************************************)
(* The entry boundary and the symbol switch together, for any number of    *)
(* threads, requests, symbols and transactions: the switch still follows   *)
(* its own specification, the entry boundary keeps what does not rest on   *)
(* the absence of a pause, and the pause closes the door to entries.       *)
(***************************************************************************)
EXTENDS EntryDuringSwitch, EntryAdmissionProofs

-----------------------------------------------------------------------------
(* The switch inside the composition.                                      *)

(* A step of the entry boundary stutters for the switch: the symbols and   *)
(* the pause are the switch's to change.                                   *)
LEMMA EntryLeavesSymbols ==
  ASSUME Next PROVE UNCHANGED symbolVars
<1>1. ASSUME NEW t \in Threads, TryEntry(t) PROVE UNCHANGED symbolVars
  BY <1>1 DEF TryEntry, Authorize, CommitEntry, AbandonEntry, FillEntry,
     RejectEntry
<1>2. CASE BotStep
  BY <1>1, <1>2 DEF Threads, BotStep, ObserveMarket, ReserveBotEntry,
     DecideBotEntry, EndBotAdmission, OnPrice
<1>3. ASSUME NEW h \in Humans, HumanStep(h) PROVE UNCHANGED symbolVars
  BY <1>1, <1>3 DEF Threads, HumanStep, Submit, Resend, AnswerRecorded, Deny,
     ReserveManualEntry, DecideManualEntry, SettleManualEntry,
     ReserveManualClose, ManualClose, ManualCloseRaises, SettleManualClose
<1>4. CASE OperatorStep
  BY <1>4 DEF OperatorStep, SetExecutionControl, StartLoop, StopLoop,
     CheckEnable, WriteEnable, DisableExecution, EmergencyStop,
     EmergencyUnlock
<1> QED BY <1>2, <1>3, <1>4 DEF Next

(* Beside the entry boundary, whatever it makes the switch wait for, the   *)
(* switch takes only steps of its own specification: what SafeSwitch       *)
(* guarantees (whose pause it is, which feed is authoritative) it          *)
(* guarantees here.                                                        *)
THEOREM SwitchUndisturbed == SharedSpec => Switch!Spec
<1>1. SharedInit => Switch!Init
  BY DEF SharedInit
<1>2. [SharedNext]_sharedVars => [Switch!Next]_(Switch!vars)
  <2>1. CASE Next /\ UNCHANGED switchOnlyVars
    BY <2>1, EntryLeavesSymbols
       DEF switchOnlyVars, symbolVars, Switch!vars, Switch!transactionVars,
           Switch!lockVars, Switch!symbolVars, Switch!botVars,
           Switch!feedVars, Switch!startVars
  <2>2. ASSUME NEW n \in Transactions, NEW symbol \in Symbols,
               ProposeSwitch(n, symbol)
        PROVE  Switch!Next
    BY <2>2 DEF ProposeSwitch, Switch!Next
  <2>3. ASSUME NEW n \in Transactions, NEW fresh \in BOOLEAN,
               SwitchStep(n, fresh)
        PROVE  Switch!Next
    <3>1. (fresh /\ Quiet) \in BOOLEAN
      OBVIOUS
    <3> QED BY <2>3, <3>1 DEF SwitchStep, Switch!Next
  <2>4. CASE UNCHANGED sharedVars
    BY <2>4 DEF sharedVars, vars, symbolVars, switchOnlyVars, Switch!vars,
       Switch!transactionVars, Switch!lockVars, Switch!symbolVars,
       Switch!botVars, Switch!feedVars, Switch!startVars
  <2> QED BY <2>1, <2>2, <2>3, <2>4 DEF SharedNext
<1> QED BY <1>1, <1>2, PTL DEF SharedSpec, Switch!Spec

-----------------------------------------------------------------------------
(* The entry boundary beside the switch.                                   *)

EntryInv == TypeOK /\ AdmissionInv /\ ActedOnce /\ SoundInv
SharedInv == EntryInv /\ target \in [Switch!Runtimes -> Symbols]

(* A step of the switch moves the symbols and the pause, to symbols that   *)
(* were proposed, and nothing an admission, a request or an answer holds.  *)
LEMMA SwitchLeavesEntries ==
  ASSUME SharedInv, UNCHANGED entryOnlyVars,
         target' \in [Switch!Runtimes -> Symbols],
         symbolSwitchPaused' \in BOOLEAN,
         activeSymbol' \in Symbols, engineSymbol' \in Symbols
  PROVE  SharedInv'
<1> USE DEF entryOnlyVars, controlVars, admissionVars, feedVars, clientVars,
            operatorVars, engineVars
<1>1. TypeOK'
  BY DEF SharedInv, EntryInv, TypeOK
<1>2. AdmissionInv'
  BY AdmissionFrame DEF SharedInv, EntryInv
<1>3. ActedOnce'
  BY ActedFrame DEF SharedInv, EntryInv
<1>4. SoundInv'
  BY SoundFrame DEF SharedInv, EntryInv
<1> QED BY <1>1, <1>2, <1>3, <1>4 DEF SharedInv, EntryInv

LEMMA TransactionStepTyped ==
  ASSUME SharedInv, NEW n \in Transactions, NEW quiet \in BOOLEAN,
         Switch!TransactionStep(n, quiet)
  PROVE  /\ target' \in [Switch!Runtimes -> Symbols]
         /\ symbolSwitchPaused' \in BOOLEAN
         /\ activeSymbol' \in Symbols /\ engineSymbol' \in Symbols
<1> USE DEF Switch!transactionVars, Switch!lockVars, Switch!symbolVars,
            Switch!botVars, Switch!feedVars
<1>1. /\ target \in [Switch!Runtimes -> Symbols] /\ target[n] \in Symbols
      /\ symbolSwitchPaused \in BOOLEAN
      /\ activeSymbol \in Symbols /\ engineSymbol \in Symbols
  BY DEF SharedInv, EntryInv, TypeOK, Switch!Runtimes
<1>2. CASE Switch!CommitActiveSymbol(n)
  BY <1>1, <1>2 DEF Switch!CommitActiveSymbol
<1>3. CASE Switch!SyncDownstream(n) \/ Switch!SyncFails(n)
  BY <1>1, <1>3 DEF Switch!SyncDownstream, Switch!SyncFails
<1>4. CASE Switch!PauseEntries(n) \/ Switch!ResumeEntries(n)
  BY <1>1, <1>4 DEF Switch!PauseEntries, Switch!ResumeEntries
<1>5. CASE \/ Switch!Revalidate(n, quiet) \/ Switch!Refuse(n)
           \/ Switch!PrepareFeed(n) \/ Switch!PrepareFeedFails(n)
           \/ Switch!CleanupOldFeed(n) \/ Switch!CleanupOldFeedFails(n)
           \/ Switch!CleanupNewFeed(n)
  BY <1>1, <1>5 DEF Switch!Revalidate, Switch!Refuse, Switch!PrepareFeed,
     Switch!PrepareFeedFails, Switch!CleanupOldFeed,
     Switch!CleanupOldFeedFails, Switch!CleanupNewFeed
<1> QED BY <1>2, <1>3, <1>4, <1>5 DEF Switch!TransactionStep

LEMMA SharedStep ==
  ASSUME SharedInv, [SharedNext]_sharedVars PROVE SharedInv'
<1>1. CASE Next /\ UNCHANGED switchOnlyVars
  BY <1>1, TypeStep, AdmissionStep, ActedStep, SoundStep
     DEF SharedInv, EntryInv, switchOnlyVars
<1>2. ASSUME NEW n \in Transactions, NEW symbol \in Symbols,
             ProposeSwitch(n, symbol)
      PROVE  SharedInv'
  <2>1. target' \in [Switch!Runtimes -> Symbols]
    BY <1>2 DEF ProposeSwitch, Switch!Propose, SharedInv
  <2>2. UNCHANGED <<symbolSwitchPaused, activeSymbol, engineSymbol>>
    BY <1>2 DEF ProposeSwitch, Switch!Propose, Switch!lockVars,
                Switch!symbolVars
  <2> QED BY <1>2, <2>1, <2>2, SwitchLeavesEntries
          DEF ProposeSwitch, SharedInv, EntryInv, TypeOK
<1>3. ASSUME NEW n \in Transactions, NEW fresh \in BOOLEAN,
             SwitchStep(n, fresh)
      PROVE  SharedInv'
  <2>1. (fresh /\ Quiet) \in BOOLEAN
    OBVIOUS
  <2> QED BY <1>3, <2>1, TransactionStepTyped, SwitchLeavesEntries
          DEF SwitchStep
<1>4. CASE UNCHANGED sharedVars
  BY <1>4, TypeStep, AdmissionStep, ActedStep, SoundStep
     DEF SharedInv, EntryInv, sharedVars, switchOnlyVars
<1> QED BY <1>1, <1>2, <1>3, <1>4 DEF SharedNext

THEOREM SharedInvariant == SharedSpec => []SharedInv
<1>1. SharedInit => SharedInv
  <2> SUFFICES ASSUME SharedInit PROVE SharedInv
    OBVIOUS
  <2>1. EntryInv
    BY TypeInit, AdmissionInit, ActedInit, SoundInit DEF SharedInit, EntryInv
  <2>2. target \in [Switch!Runtimes -> Symbols]
    BY DEF SharedInit, Switch!Init
  <2> QED BY <2>1, <2>2 DEF SharedInv
<1> QED BY <1>1, SharedStep, PTL DEF SharedSpec

(* Also while a switch pauses entries and a feed callback passes the lock  *)
(* by, no client is told of a fill or a close that did not happen for it.  *)
THEOREM AnswersSound == SharedSpec => []NoFalseExecution
<1>1. SharedInv => NoFalseExecution
  BY DEF SharedInv, EntryInv, SoundInv
<1> QED BY <1>1, SharedInvariant, PTL

(* A switch takes nothing from the authority an order in flight has, lets  *)
(* no request act twice, and lets none act that the ledger has.            *)
THEOREM SwitchKeepsAdmission ==
  SharedSpec => [](AdmissionInv /\ CommitUnderAuthority /\ AtMostOnce)
<1>1. SharedInv => AdmissionInv /\ CommitUnderAuthority /\ AtMostOnce
  BY DEF SharedInv, EntryInv, AdmissionInv, AuthorityHeld,
         CommitUnderAuthority, ActedOnce, AtMostOnce
<1> QED BY <1>1, SharedInvariant, PTL

THEOREM SwitchNeverActs == SharedSpec => RecordedNeverActs
<1>1. SharedInv /\ [SharedNext]_sharedVars =>
        [\A id \in RequestIds :
           effects'[id] > effects[id] => ~Recorded(id)]_vars
  <2> SUFFICES ASSUME SharedInv, [SharedNext]_sharedVars,
                      NEW id \in RequestIds, effects'[id] > effects[id]
               PROVE  ~Recorded(id)
    OBVIOUS
  <2>1. CASE Next \/ UNCHANGED vars
    BY <2>1, EffectsNeedNoAnswer DEF SharedInv, EntryInv
  <2>2. CASE UNCHANGED entryOnlyVars
    <3>1. effects[id] \in Nat /\ effects' = effects
      BY <2>2 DEF SharedInv, EntryInv, TypeOK, entryOnlyVars, clientVars
    <3> QED BY <3>1
  <2> QED BY <2>1, <2>2 DEF SharedNext, ProposeSwitch, SwitchStep, sharedVars
<1> QED BY <1>1, SharedInvariant, PTL DEF SharedSpec, RecordedNeverActs

-----------------------------------------------------------------------------
(* The door.                                                               *)

USE DEF Threads, Stages, Stage, EntryStages

(* No step takes a thread inside while entries are paused and nobody is:   *)
(* a thread enters through ObserveMarket or ReserveManualEntry, which look *)
(* at the pause, and goes on from a stage inside.                          *)
LEMMA DoorStaysClosed ==
  ASSUME TypeOK, [SharedNext]_sharedVars, symbolSwitchPaused, NobodyInside
  PROVE  NobodyInside'
<1> USE DEF NobodyInside, Inside
<1> pc \in [Threads -> Stages]
  BY DEF TypeOK
<1>1. ASSUME NEW t \in Threads, TryEntry(t) PROVE FALSE
  BY <1>1 DEF TryEntry, Authorize, CommitEntry, AbandonEntry, FillEntry,
     RejectEntry
<1>2. CASE BotStep
  <2>1. CASE ObserveMarket
    BY <2>1 DEF ObserveMarket
  <2>2. CASE ReserveBotEntry
    BY <2>2 DEF ReserveBotEntry
  <2>3. ASSUME NEW side \in Sides, DecideBotEntry(side) PROVE NobodyInside'
    BY <2>3 DEF DecideBotEntry
  <2>4. ASSUME NEW exit \in BOOLEAN, EndBotAdmission \/ OnPrice(exit)
        PROVE  NobodyInside'
    BY <2>4 DEF EndBotAdmission, OnPrice
  <2> QED BY <1>1, <1>2, <2>1, <2>2, <2>3, <2>4 DEF BotStep
<1>3. ASSUME NEW h \in Humans, HumanStep(h) PROVE NobodyInside'
  <2>1. ~ReserveManualEntry(h)
    BY DEF ReserveManualEntry, Admissible
  <2>2. ~DecideManualEntry(h)
    BY DEF DecideManualEntry
  <2> QED BY <1>1, <1>3, <2>1, <2>2 DEF HumanStep, Submit, Resend,
          AnswerRecorded, Deny, SettleManualEntry, ReserveManualClose,
          ManualClose, ManualCloseRaises, SettleManualClose
<1>4. CASE OperatorStep
  BY <1>4 DEF OperatorStep, SetExecutionControl, StartLoop, StopLoop,
     CheckEnable, WriteEnable, DisableExecution, EmergencyStop,
     EmergencyUnlock
<1>5. CASE UNCHANGED pc
  BY <1>5
<1> QED BY <1>2, <1>3, <1>4, <1>5
        DEF SharedNext, Next, ProposeSwitch, SwitchStep, entryOnlyVars,
            sharedVars, vars

(* Once the threads that were inside have left, no entry begins before the *)
(* switch resumes entries.                                                 *)
THEOREM PauseClosesDoor == SharedSpec => PauseHolds
<1>1. SharedInv /\ [SharedNext]_sharedVars =>
        [symbolSwitchPaused /\ NobodyInside => NobodyInside']_sharedVars
  BY DoorStaysClosed DEF SharedInv, EntryInv
<1> QED BY <1>1, SharedInvariant, PTL DEF SharedSpec, PauseHolds
=============================================================================
