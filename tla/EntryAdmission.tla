--------------------------- MODULE EntryAdmission ---------------------------
(***************************************************************************)
(* The entry boundary of BotManager during one running PAPER session: the  *)
(* WebSocket thread that runs the BOT pipeline and the automatic exits,    *)
(* the HTTP threads that carry human BUY/SELL requests, and the operator   *)
(* handlers that change who may open a position.                           *)
(*                                                                         *)
(* execution_authority_lock is held by the BOT pipeline, by a manual trade *)
(* and by a control switch.  The operator's loop, auto-trade and emergency *)
(* handlers and the automatic exits do not take it, so they interleave     *)
(* with every step of an entry.  A step of a thread reads and writes what  *)
(* its code reads and writes between two points where another thread's     *)
(* step can matter to it.                                                  *)
(*                                                                         *)
(* activeSymbol, engineSymbol and symbolSwitchPaused belong to the symbol  *)
(* switch transaction: this module only reads them.                        *)
(***************************************************************************)
EXTENDS Integers, Sequences

CONSTANTS
  Humans,         \* HTTP threads that submit manual trades
  WsThread,       \* the exchange feed's callback thread
  RequestIds,     \* the requestId values clients send
  NoRequest,      \* no request: the position was opened by the BOT
  Symbols,
  MaxRevision,    \* bound on control switches
  MaxPositions,   \* bound on positions opened
  LedgerLimit     \* MANUAL_TRADE_REQUEST_LIMIT

ASSUME ThreadsDistinct ==
  /\ WsThread \notin Humans
  /\ "FREE" \notin Humans \cup {WsThread}
ASSUME NoRequestDistinct == NoRequest \notin RequestIds
ASSUME BoundsNatural ==
  /\ MaxRevision \in Nat
  /\ MaxPositions \in Nat
  /\ LedgerLimit \in Nat \ {0}

VARIABLES
  controlAuthority, controlRevision,
  lockHolder,     \* execution_authority_lock
  reservation,    \* execution_admission_reservation, with what its entry binds
  pc,             \* where each thread is
  observed,       \* active_symbol the feed callback captured
  priced,         \* positions opened before the feed callback's price
  request,        \* the request each HTTP thread carries
  ledger,         \* manual_trade_requests, oldest first
  lifecycleState, loopState,
  executionEnabled,
  enablePending,  \* set_execution_enabled(True) has checked, not yet written
  emergencyState,
  closeReservation,
  position,       \* engine.actual_position
  pendingOrder,   \* engine.pending_order
  lastClose,      \* last record of engine.trade_history
  opened,         \* positions opened so far
  effects,        \* history: fills and closes each request id brought about
                  \* since its record was last dropped from the ledger
  symbolSwitchPaused, activeSymbol, engineSymbol

controlVars == <<controlAuthority, controlRevision>>
admissionVars == <<lockHolder, reservation>>
feedVars == <<observed, priced>>
clientVars == <<request, ledger, effects>>
operatorVars ==
  <<lifecycleState, loopState, executionEnabled, enablePending,
    emergencyState>>
engineVars == <<position, pendingOrder, lastClose, opened, closeReservation>>
symbolVars == <<symbolSwitchPaused, activeSymbol, engineSymbol>>
vars == <<controlVars, admissionVars, pc, feedVars, clientVars, operatorVars,
          engineVars, symbolVars>>

-----------------------------------------------------------------------------
Threads == Humans \cup {WsThread}
Free == "FREE"
Owners == {"BOT", "MANUAL"}
Sides == {"BUY", "SELL"}

Stages == {"idle", "observed", "submitted", "reserved", "gated", "authorized",
           "committed", "settling", "closing", "closed", "pricing"}
(* The stages a thread goes through with execution_authority_lock held. *)
LockedStages == Stages \ {"idle", "observed", "submitted", "pricing"}

NoPosition == [id |-> 0, side |-> "NONE", owner |-> "NONE",
               request |-> NoRequest, symbol |-> "NONE"]
NoReservation == [source |-> "NONE", revision |-> 0, symbol |-> "NONE",
                  request |-> NoRequest, side |-> "NONE",
                  orderSymbol |-> "NONE"]

(* A request quotes the control revision, symbol and position the operator *)
(* was shown when the button was pressed; shownSide is the side of that    *)
(* position, which the frontend displays and does not send.                *)
NoRequestSent == [id |-> NoRequest, action |-> "NONE", revision |-> 0,
                  symbol |-> "NONE", expectedPosition |-> 0,
                  shownSide |-> "NONE"]

NewReservation(source, id) ==
  [source |-> source, revision |-> controlRevision, symbol |-> activeSymbol,
   request |-> id, side |-> "NONE", orderSymbol |-> "NONE"]

Flat == position = NoPosition
Opposite(side) == IF side = "BUY" THEN "SELL" ELSE "BUY"
Stage(t, from, to) == pc[t] = from /\ pc' = [pc EXCEPT ![t] = to]

EmergencyReady == emergencyState = "READY"
Running == lifecycleState = "RUNNING"
Recorded(id) == \E i \in 1..Len(ledger) : ledger[i].request.id = id

Init ==
  /\ controlAuthority = "BOT" /\ controlRevision = 0
  /\ lockHolder = Free
  /\ reservation = NoReservation
  /\ pc = [t \in Threads |-> "idle"]
  /\ observed \in Symbols /\ priced = 0
  /\ request = [h \in Humans |-> NoRequestSent]
  /\ ledger = <<>>
  /\ lifecycleState = "RUNNING" /\ loopState = "STOPPED"
  /\ executionEnabled = FALSE /\ enablePending = FALSE
  /\ emergencyState = "READY"
  /\ closeReservation = 0
  /\ position = NoPosition /\ pendingOrder = FALSE
  /\ lastClose = [id |-> 0, reason |-> "NONE"] /\ opened = 0
  /\ effects = [r \in RequestIds |-> 0]
  /\ symbolSwitchPaused = FALSE
  /\ activeSymbol = observed /\ engineSymbol = observed

-----------------------------------------------------------------------------
(* The feed callback: observe the market, then the BOT pipeline.           *)

(* on_update publishes its price; _observe_runtime_decision reads the pause *)
(* before the lock is taken and skips the pipeline while it is set.        *)
ObserveMarket ==
  /\ Stage(WsThread, "idle",
           IF symbolSwitchPaused THEN "pricing" ELSE "observed")
  /\ observed' = activeSymbol
  /\ priced' = opened
  /\ UNCHANGED <<controlVars, admissionVars, clientVars, operatorVars,
                 engineVars, symbolVars>>

(* _process_runtime_with_bot_admission: take the lock, reserve the entry.  *)
ReserveBotEntry ==
  /\ Stage(WsThread, "observed", "reserved")
  /\ lockHolder = Free
  /\ lockHolder' = WsThread
  /\ reservation' = NewReservation("BOT", NoRequest)
  /\ UNCHANGED <<controlVars, feedVars, clientVars, operatorVars, engineVars,
                 symbolVars>>

(* The pipeline decides: a direction, preflight, governance and execution  *)
(* permission.  A denial leaves the thread at "settling".                  *)
DecideBotEntry(side) ==
  /\ Stage(WsThread, "reserved", "gated")
  /\ ~pendingOrder /\ Flat
  /\ EmergencyReady /\ executionEnabled
  /\ controlAuthority = "BOT"
  /\ reservation' = [reservation EXCEPT !.side = side]
  /\ UNCHANGED <<controlVars, lockHolder, feedVars, clientVars, operatorVars,
                 engineVars, symbolVars>>

(* process_runtime has returned: end the admission, release the lock.      *)
EndBotAdmission ==
  /\ Stage(WsThread, "settling", "pricing")
  /\ reservation' = NoReservation
  /\ lockHolder' = Free
  /\ UNCHANGED <<controlVars, feedVars, clientVars, operatorVars, engineVars,
                 symbolVars>>

(* engine.on_price ends the callback.  On SL, TP or a strategy exit it     *)
(* closes the position, as one step under close_authority_lock.  A         *)
(* position filled at this callback's own price is not at its SL or TP.    *)
OnPrice(exit) ==
  /\ Stage(WsThread, "pricing", "idle")
  /\ IF exit
     THEN /\ ~Flat /\ position.id <= priced
          /\ lastClose' = [id |-> position.id, reason |-> "EXIT"]
          /\ position' = NoPosition
          /\ pendingOrder' = FALSE
     ELSE UNCHANGED <<position, lastClose, pendingOrder>>
  /\ UNCHANGED <<controlVars, admissionVars, feedVars, clientVars,
                 operatorVars, opened, closeReservation, symbolVars>>

-----------------------------------------------------------------------------
(* The human: execute_manual_trade.                                        *)

Submit(h, id, action) ==
  /\ Stage(h, "idle", "submitted")
  /\ request' = [request EXCEPT ![h] =
       [id |-> id, action |-> action, revision |-> controlRevision,
        symbol |-> activeSymbol, expectedPosition |-> position.id,
        shownSide |-> position.side]]
  /\ UNCHANGED <<controlVars, admissionVars, feedVars, ledger, effects,
                 operatorVars, engineVars, symbolVars>>

(* A client that saw no answer sends the same request again. *)
Resend(h) ==
  /\ request[h] # NoRequestSent
  /\ Stage(h, "idle", "submitted")
  /\ UNCHANGED <<controlVars, admissionVars, feedVars, clientVars,
                 operatorVars, engineVars, symbolVars>>

(* Mutant of RecordAnswer: the ledger is never trimmed. *)
RecordAnswerUntrimmed(r, outcome) ==
  /\ ledger' = Append(ledger, [request |-> r, outcome |-> outcome])
  /\ UNCHANGED effects

(* _record_manual_trade: the oldest record is dropped at the limit, and    *)
(* with it what the history holds of its id.                               *)
RecordAnswer(r, outcome) ==
  LET full == Len(ledger) >= LedgerLimit
      kept == IF full THEN Tail(ledger) ELSE ledger
  IN  /\ ledger' = Append(kept, [request |-> r, outcome |-> outcome])
      /\ effects' = [id \in RequestIds |->
           IF full /\ id = Head(ledger).request.id THEN 0 ELSE effects[id]]

(* A recorded id is answered from the ledger, whatever the request says.   *)
AnswerRecorded(h) ==
  /\ Stage(h, "submitted", "idle")
  /\ lockHolder = Free
  /\ Recorded(request[h].id)
  /\ UNCHANGED <<controlVars, admissionVars, feedVars, clientVars,
                 operatorVars, engineVars, symbolVars>>

(* Mutant of Admissible: the pause of a symbol switch is not looked at. *)
AdmissibleWhilePaused(r) ==
  /\ controlAuthority = "MANUAL"
  /\ r.revision = controlRevision
  /\ Running
  /\ r.symbol = activeSymbol /\ engineSymbol = activeSymbol
  /\ EmergencyReady
  /\ ~pendingOrder

(* The checks of execute_manual_trade before the operation is classified.  *)
Admissible(r) ==
  /\ controlAuthority = "MANUAL"
  /\ r.revision = controlRevision
  /\ Running
  /\ ~symbolSwitchPaused
  /\ r.symbol = activeSymbol /\ engineSymbol = activeSymbol
  /\ EmergencyReady
  /\ ~pendingOrder

(* FLAT makes BUY and SELL an entry; an open position makes the opposite   *)
(* side a close.  The position the operator saw is compared for a close    *)
(* only.                                                                   *)
IsEntry(r) == Flat
IsClose(r) ==
  /\ ~Flat
  /\ r.action = Opposite(position.side)
  /\ r.expectedPosition \in {0, position.id}
  /\ closeReservation = 0

(* A denial needs no reason here: besides the checks above the handler     *)
(* denies on a mode, quantity or price this module does not follow.        *)
Deny(h) ==
  /\ Stage(h, "submitted", "idle")
  /\ lockHolder = Free
  /\ ~Recorded(request[h].id)
  /\ RecordAnswer(request[h], "DENIED")
  /\ UNCHANGED <<controlVars, admissionVars, feedVars, request,
                 operatorVars, engineVars, symbolVars>>

(* Mutant of ReserveManualEntry: the ledger is not consulted. *)
ReserveManualEntryUnchecked(h) ==
  /\ Stage(h, "submitted", "reserved")
  /\ lockHolder = Free
  /\ Admissible(request[h]) /\ IsEntry(request[h])
  /\ lockHolder' = h
  /\ reservation' = NewReservation("MANUAL", request[h].id)
  /\ UNCHANGED <<controlVars, feedVars, clientVars, operatorVars, engineVars,
                 symbolVars>>

ReserveManualEntry(h) ==
  /\ Stage(h, "submitted", "reserved")
  /\ lockHolder = Free
  /\ ~Recorded(request[h].id)
  /\ Admissible(request[h]) /\ IsEntry(request[h])
  /\ lockHolder' = h
  /\ reservation' = NewReservation("MANUAL", request[h].id)
  /\ UNCHANGED <<controlVars, feedVars, clientVars, operatorVars, engineVars,
                 symbolVars>>

(* _manual_entry_locked up to its signal: preflight and governance.        *)
DecideManualEntry(h) ==
  /\ Stage(h, "reserved", "gated")
  /\ ~pendingOrder /\ Flat
  /\ EmergencyReady
  /\ reservation' = [reservation EXCEPT !.side = request[h].action]
  /\ UNCHANGED <<controlVars, lockHolder, feedVars, clientVars, operatorVars,
                 engineVars, symbolVars>>

(* The answer is read off the position, not off the engine's result.       *)
EntryConfirmed(h) == position.request = request[h].id

(* Mutant of SettleManualEntry: the answer is not recorded. *)
SettleManualEntryUnrecorded(h) ==
  /\ Stage(h, "settling", "idle")
  /\ reservation' = NoReservation
  /\ lockHolder' = Free
  /\ UNCHANGED <<controlVars, feedVars, clientVars, operatorVars, engineVars,
                 symbolVars>>

SettleManualEntry(h) ==
  /\ Stage(h, "settling", "idle")
  /\ RecordAnswer(request[h],
                  IF EntryConfirmed(h) THEN "ENTERED" ELSE "DENIED")
  /\ reservation' = NoReservation
  /\ lockHolder' = Free
  /\ UNCHANGED <<controlVars, feedVars, request, operatorVars, engineVars,
                 symbolVars>>

(* Mutant of ReserveManualClose: it runs without the lock. *)
ReserveManualCloseUnlocked(h) ==
  /\ Stage(h, "submitted", "closing")
  /\ ~Recorded(request[h].id)
  /\ Admissible(request[h]) /\ IsClose(request[h])
  /\ closeReservation' = position.id
  /\ UNCHANGED <<controlVars, admissionVars, feedVars, clientVars,
                 operatorVars, position, pendingOrder, lastClose, opened,
                 symbolVars>>

ReserveManualClose(h) ==
  /\ Stage(h, "submitted", "closing")
  /\ lockHolder = Free
  /\ ~Recorded(request[h].id)
  /\ Admissible(request[h]) /\ IsClose(request[h])
  /\ lockHolder' = h
  /\ closeReservation' = position.id
  /\ UNCHANGED <<controlVars, reservation, feedVars, clientVars, operatorVars,
                 position, pendingOrder, lastClose, opened, symbolVars>>

(* engine.close_position finds the position, or finds that an exit took it. *)
ManualClose(h) ==
  /\ Stage(h, "closing", "closed")
  /\ IF Flat
     THEN UNCHANGED <<position, pendingOrder, lastClose, effects>>
     ELSE /\ lastClose' = [id |-> position.id, reason |-> "MANUAL_CLOSE"]
          /\ position' = NoPosition
          /\ pendingOrder' = FALSE
          /\ effects' = [effects EXCEPT ![request[h].id] = @ + 1]
  /\ UNCHANGED <<controlVars, admissionVars, feedVars, request, ledger,
                 operatorVars, opened, closeReservation, symbolVars>>

(* Mutant of ManualCloseRaises: the exception leaves the lock held. *)
ManualCloseRaisesLocked(h) ==
  /\ Stage(h, "closing", "idle")
  /\ ~Flat
  /\ closeReservation' = 0
  /\ UNCHANGED <<controlVars, admissionVars, feedVars, clientVars,
                 operatorVars, position, pendingOrder, lastClose, opened,
                 symbolVars>>

(* The simulated close raises before it clears the position: the request   *)
(* leaves no record.                                                       *)
ManualCloseRaises(h) ==
  /\ Stage(h, "closing", "idle")
  /\ ~Flat
  /\ closeReservation' = 0
  /\ lockHolder' = Free
  /\ UNCHANGED <<controlVars, reservation, feedVars, clientVars, operatorVars,
                 position, pendingOrder, lastClose, opened, symbolVars>>

(* Mutant of SettleManualClose: FLAT is taken for this request's close. *)
SettleManualCloseFlat(h) ==
  /\ Stage(h, "closed", "idle")
  /\ RecordAnswer(request[h], IF Flat THEN "CLOSED" ELSE "DENIED")
  /\ closeReservation' = 0
  /\ lockHolder' = Free
  /\ UNCHANGED <<controlVars, reservation, feedVars, request,
                 operatorVars, position, pendingOrder, lastClose, opened,
                 symbolVars>>

SettleManualClose(h) ==
  /\ Stage(h, "closed", "idle")
  /\ LET mine == /\ Flat
                 /\ lastClose = [id |-> closeReservation,
                                 reason |-> "MANUAL_CLOSE"]
     IN  RecordAnswer(request[h], IF mine THEN "CLOSED" ELSE "DENIED")
  /\ closeReservation' = 0
  /\ lockHolder' = Free
  /\ UNCHANGED <<controlVars, reservation, feedVars, request,
                 operatorVars, position, pendingOrder, lastClose, opened,
                 symbolVars>>

-----------------------------------------------------------------------------
(* engine.try_entry, on the thread that holds the reservation.             *)

ReservationCurrent(source) ==
  /\ reservation.source = source
  /\ reservation.revision = controlRevision
  /\ reservation.symbol = engineSymbol
  /\ EmergencyReady

(* _authorize_bot_execution_entry; the symbol context is the callback's.   *)
BotAuthorized ==
  /\ controlAuthority = "BOT"
  /\ ReservationCurrent("BOT")
  /\ observed = engineSymbol
  /\ Running /\ loopState = "RUNNING"
  /\ executionEnabled

(* _authorize_manual_execution_entry *)
ManualAuthorized(h) ==
  /\ controlAuthority = "MANUAL"
  /\ ~symbolSwitchPaused
  /\ ReservationCurrent("MANUAL")
  /\ reservation.request = request[h].id
  /\ Flat /\ ~pendingOrder
  /\ Running
  /\ activeSymbol = reservation.symbol

Authorized(t) == IF t = WsThread THEN BotAuthorized ELSE ManualAuthorized(t)

Authorize(t) ==
  /\ Stage(t, "gated", "authorized")
  /\ Authorized(t)
  /\ UNCHANGED <<controlVars, admissionVars, feedVars, clientVars,
                 operatorVars, engineVars, symbolVars>>

(* The order takes the engine's symbol; under the engine's admission lock  *)
(* pending_order and the position are read again and pending_order is set. *)
CommitEntry(t) ==
  /\ Stage(t, "authorized", "committed")
  /\ ~pendingOrder /\ Flat
  /\ pendingOrder' = TRUE
  /\ reservation' = [reservation EXCEPT !.orderSymbol = engineSymbol]
  /\ UNCHANGED <<controlVars, lockHolder, feedVars, clientVars, operatorVars,
                 position, lastClose, opened, closeReservation, symbolVars>>

(* A denial, a cooldown, a stale market or a failed check before commit.   *)
AbandonEntry(t) ==
  /\ pc[t] \in {"reserved", "gated", "authorized"}
  /\ pc' = [pc EXCEPT ![t] = "settling"]
  /\ UNCHANGED <<controlVars, admissionVars, feedVars, clientVars,
                 operatorVars, engineVars, symbolVars>>

(* place_order_safe succeeds and the position is installed.                *)
FillEntry(t) ==
  /\ Stage(t, "committed", "settling")
  /\ Flat
  /\ opened < MaxPositions
  /\ opened' = opened + 1
  /\ position' = [id |-> opened + 1, side |-> reservation.side,
                  owner |-> reservation.source,
                  request |-> reservation.request,
                  symbol |-> reservation.orderSymbol]
  /\ effects' = IF reservation.request = NoRequest THEN effects
                ELSE [effects EXCEPT ![reservation.request] = @ + 1]
  /\ pendingOrder' = FALSE
  /\ UNCHANGED <<controlVars, admissionVars, feedVars, request, ledger,
                 operatorVars, lastClose, closeReservation, symbolVars>>

RejectEntry(t) ==
  /\ Stage(t, "committed", "settling")
  /\ pendingOrder' = FALSE
  /\ UNCHANGED <<controlVars, admissionVars, feedVars, clientVars,
                 operatorVars, position, lastClose, opened, closeReservation,
                 symbolVars>>

-----------------------------------------------------------------------------
(* The operator's handlers.                                                *)

(* _execution_control_entry_admission_idle *)
AdmissionIdle == reservation = NoReservation /\ ~pendingOrder

(* Mutant of SwitchAllowed: the position is not looked at. *)
SwitchAllowedWhileOpen ==
  /\ EmergencyReady
  /\ ~symbolSwitchPaused
  /\ AdmissionIdle
  /\ closeReservation = 0

(* _evaluate_control_switch_guard *)
SwitchAllowed ==
  /\ EmergencyReady
  /\ ~symbolSwitchPaused
  /\ Flat
  /\ AdmissionIdle
  /\ closeReservation = 0

(* Mutant of SetExecutionControl: only the engine is looked at. *)
SetExecutionControlUnguarded(authority) ==
  /\ authority # controlAuthority
  /\ controlRevision < MaxRevision
  /\ EmergencyReady /\ Flat /\ ~pendingOrder
  /\ controlAuthority' = authority
  /\ controlRevision' = controlRevision + 1
  /\ UNCHANGED <<pc, admissionVars, feedVars, clientVars, operatorVars,
                 engineVars, symbolVars>>

(* set_execution_control: the whole handler runs under the lock.           *)
SetExecutionControl(authority) ==
  /\ lockHolder = Free
  /\ authority # controlAuthority
  /\ controlRevision < MaxRevision
  /\ SwitchAllowed
  /\ controlAuthority' = authority
  /\ controlRevision' = controlRevision + 1
  /\ executionEnabled' = (executionEnabled /\ authority # "MANUAL")
  /\ UNCHANGED <<pc, admissionVars, feedVars, clientVars, lifecycleState,
                 loopState, enablePending, emergencyState, engineVars,
                 symbolVars>>

StartLoop ==
  /\ Running /\ EmergencyReady
  /\ loopState' = "RUNNING"
  /\ UNCHANGED <<pc, controlVars, admissionVars, feedVars, clientVars,
                 lifecycleState, executionEnabled, enablePending,
                 emergencyState, engineVars, symbolVars>>

StopLoop ==
  /\ executionEnabled' = FALSE
  /\ loopState' = "STOPPED"
  /\ UNCHANGED <<pc, controlVars, admissionVars, feedVars, clientVars,
                 lifecycleState, enablePending, emergencyState, engineVars,
                 symbolVars>>

(* set_execution_enabled(True) reads, and later writes, with no lock.      *)
CheckEnable ==
  /\ EmergencyReady
  /\ Running /\ loopState = "RUNNING"
  /\ ~enablePending
  /\ enablePending' = TRUE
  /\ UNCHANGED <<pc, controlVars, admissionVars, feedVars, clientVars,
                 lifecycleState, loopState, executionEnabled, emergencyState,
                 engineVars, symbolVars>>

WriteEnable ==
  /\ enablePending
  /\ enablePending' = FALSE
  /\ executionEnabled' = TRUE
  /\ UNCHANGED <<pc, controlVars, admissionVars, feedVars, clientVars,
                 lifecycleState, loopState, emergencyState, engineVars,
                 symbolVars>>

(* The governance routes run on the event loop, one at a time: none of them *)
(* runs between the two halves of set_execution_enabled(True).              *)
DisableExecution ==
  /\ ~enablePending
  /\ executionEnabled' = FALSE
  /\ UNCHANGED <<pc, controlVars, admissionVars, feedVars, clientVars,
                 lifecycleState, loopState, enablePending, emergencyState,
                 engineVars, symbolVars>>

(* POST /governance/emergency-stop *)
EmergencyStop ==
  /\ ~enablePending
  /\ emergencyState' = "ACTION_REQUIRED"
  /\ executionEnabled' = FALSE
  /\ UNCHANGED <<pc, controlVars, admissionVars, feedVars, clientVars,
                 lifecycleState, loopState, enablePending, engineVars,
                 symbolVars>>

(* POST /governance/emergency/unlock *)
EmergencyUnlock ==
  /\ ~enablePending
  /\ emergencyState' = "READY"
  /\ executionEnabled' = FALSE
  /\ lifecycleState' = "STOPPED"
  /\ UNCHANGED <<pc, controlVars, admissionVars, feedVars, clientVars,
                 loopState, enablePending, engineVars, symbolVars>>

-----------------------------------------------------------------------------
TryEntry(t) ==
  \/ Authorize(t) \/ CommitEntry(t) \/ AbandonEntry(t)
  \/ FillEntry(t) \/ RejectEntry(t)

BotStep ==
  \/ ObserveMarket \/ ReserveBotEntry
  \/ \E side \in Sides : DecideBotEntry(side)
  \/ TryEntry(WsThread)
  \/ EndBotAdmission
  \/ \E exit \in BOOLEAN : OnPrice(exit)

HumanStep(h) ==
  \/ \E id \in RequestIds, action \in Sides : Submit(h, id, action)
  \/ Resend(h)
  \/ AnswerRecorded(h) \/ Deny(h)
  \/ ReserveManualEntry(h) \/ DecideManualEntry(h)
  \/ TryEntry(h)
  \/ SettleManualEntry(h)
  \/ ReserveManualClose(h) \/ ManualClose(h) \/ ManualCloseRaises(h)
  \/ SettleManualClose(h)

OperatorStep ==
  \/ \E authority \in Owners : SetExecutionControl(authority)
  \/ StartLoop \/ StopLoop
  \/ CheckEnable \/ WriteEnable \/ DisableExecution
  \/ EmergencyStop \/ EmergencyUnlock

Next == BotStep \/ (\E h \in Humans : HumanStep(h)) \/ OperatorStep

(* A thread that holds the lock keeps running until it releases it.        *)
LockedStep(t) ==
  /\ pc[t] \in LockedStages
  /\ IF t = WsThread THEN BotStep ELSE HumanStep(t)

Fairness == \A t \in Threads : WF_vars(LockedStep(t))

Spec == Init /\ [][Next]_vars
FairSpec == Spec /\ Fairness

-----------------------------------------------------------------------------
(* Properties.                                                             *)

Position ==
  [id: 0..MaxPositions, side: Sides \cup {"NONE"}, owner: Owners \cup {"NONE"},
   request: RequestIds \cup {NoRequest}, symbol: Symbols \cup {"NONE"}]
Reservation ==
  [source: Owners \cup {"NONE"}, revision: 0..MaxRevision,
   symbol: Symbols \cup {"NONE"}, request: RequestIds \cup {NoRequest},
   side: Sides \cup {"NONE"}, orderSymbol: Symbols \cup {"NONE"}]
Request ==
  [id: RequestIds \cup {NoRequest}, action: Sides \cup {"NONE"},
   revision: 0..MaxRevision, symbol: Symbols \cup {"NONE"},
   expectedPosition: 0..MaxPositions, shownSide: Sides \cup {"NONE"}]
Close == [id: 0..MaxPositions, reason: {"NONE", "EXIT", "MANUAL_CLOSE"}]
Answer == [request: Request, outcome: {"DENIED", "ENTERED", "CLOSED"}]

(* Every variable has its type, and the ledger never outgrows its limit.   *)
TypeOK ==
  /\ controlAuthority \in Owners /\ controlRevision \in 0..MaxRevision
  /\ lockHolder \in Threads \cup {Free}
  /\ reservation \in Reservation
  /\ pc \in [Threads -> Stages]
  /\ observed \in Symbols /\ priced \in 0..MaxPositions
  /\ request \in [Humans -> Request]
  /\ ledger \in Seq(Answer) /\ Len(ledger) <= LedgerLimit
  /\ lifecycleState \in {"RUNNING", "STOPPED"}
  /\ loopState \in {"RUNNING", "STOPPED"}
  /\ executionEnabled \in BOOLEAN /\ enablePending \in BOOLEAN
  /\ emergencyState \in {"READY", "ACTION_REQUIRED"}
  /\ closeReservation \in 0..MaxPositions
  /\ position \in Position /\ pendingOrder \in BOOLEAN
  /\ lastClose \in Close
  /\ opened \in 0..MaxPositions
  /\ effects \in [RequestIds -> Nat]
  /\ symbolSwitchPaused \in BOOLEAN
  /\ activeSymbol \in Symbols /\ engineSymbol \in Symbols

(* An order is in flight only for the source that holds execution control, *)
(* under the control revision its admission was reserved at: no control    *)
(* switch slips between an entry's authorisation and its order.            *)
CommitUnderAuthority ==
  \A t \in Threads : pc[t] = "committed" =>
    /\ reservation.source = controlAuthority
    /\ reservation.revision = controlRevision

(* Whoever opened the position still holds execution control while it is   *)
(* open: control never passes to a side that did not open it.              *)
OwnerInControl == ~Flat => position.owner = controlAuthority

(* A request id brings about one fill or close at most for as long as the  *)
(* ledger keeps its record, however often it is sent, from however many    *)
(* threads, whatever exits come between.                                   *)
AtMostOnce == \A id \in RequestIds : effects[id] <= 1

(* The recorded answer is what happened: a client told that its trade was  *)
(* executed had it executed by this request, not by an automatic exit that *)
(* came first, and a denied request changed nothing.                       *)
AnswerTruthful ==
  \A i \in 1..Len(ledger) :
    ledger[i].outcome # "DENIED" <=> effects[ledger[i].request.id] > 0

(* No client is told that its trade was executed when it was not: a fill   *)
(* or close that is answered happened, and happened for this request.      *)
NoFalseExecution ==
  \A i \in 1..Len(ledger) :
    ledger[i].outcome # "DENIED" => effects[ledger[i].request.id] > 0

(* While an id is in the ledger no step acts for it, also when older       *)
(* records have been dropped at the limit.                                 *)
RecordedNeverActs ==
  [][\A id \in RequestIds : effects'[id] > effects[id] => ~Recorded(id)]_vars

(* Each thread that takes execution_authority_lock gives it back, whatever *)
(* denial, rejection or exception ends its work.                           *)
LockReleased == lockHolder # Free ~> lockHolder = Free

(* Why the properties above hold: one thread at a time is inside the lock;  *)
(* an authorised entry's reservation stays current; the reservation is the *)
(* holder's own, for a request that has no answer yet.                     *)
EntryStages == {"reserved", "gated", "authorized", "committed"}
LockExclusive == \A t \in Threads : pc[t] \in LockedStages <=> lockHolder = t
AuthorityHeld ==
  \A t \in Threads : pc[t] \in {"authorized", "committed"} =>
    /\ reservation.source = controlAuthority
    /\ reservation.revision = controlRevision
RequestUnanswered ==
  /\ pc[WsThread] \in EntryStages => reservation.request = NoRequest
  /\ \A h \in Humans :
       /\ pc[h] \in EntryStages => reservation.request = request[h].id
       /\ pc[h] \in LockedStages => ~Recorded(request[h].id)
AdmissionInv ==
  LockExclusive /\ AuthorityHeld /\ RequestUnanswered /\ OwnerInControl

(* The boundary implements TradingDesk: whatever the interleaving of the   *)
(* pipeline, exits, requests sent again and control switches, each fill    *)
(* and close is of the side in control, and of one request that has not    *)
(* acted; and each answer is of what its request did.                      *)
Status(id) ==
  IF Recorded(id)
  THEN IF \E i \in 1..Len(ledger) : /\ ledger[i].request.id = id
                                    /\ ledger[i].outcome # "DENIED"
       THEN "executed" ELSE "denied"
  ELSE IF effects[id] > 0 THEN "acted" ELSE "open"
Desk ==
  INSTANCE TradingDesk WITH control <- controlAuthority,
                            owner <- position.owner,
                            status <- [id \in RequestIds |-> Status(id)]
ImplementsDesk == Desk!Spec

(* A human who presses the side that closes the position on the screen     *)
(* never opens a position on the other side ("no reversal").               *)
CloseIntentNeverReverses ==
  \A i \in 1..Len(ledger) :
    LET r == ledger[i].request
    IN  r.shownSide # "NONE" /\ r.action = Opposite(r.shownSide)
          => ledger[i].outcome # "ENTERED"
=============================================================================
