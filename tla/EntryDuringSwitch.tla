-------------------------- MODULE EntryDuringSwitch --------------------------
(***************************************************************************)
(* EntryAdmission and SafeSwitch together: the symbol switch of AUTO       *)
(* market selection runs beside the BOT pipeline and the human's requests. *)
(* They share the pause, the active symbol and the engine's symbol, and    *)
(* the switch reads the position, the pending order and the emergency      *)
(* state.  It does not take execution_authority_lock and does not look at  *)
(* the admission reservation.                                              *)
(*                                                                         *)
(* The feed's callback is the one WsThread of EntryAdmission, also when    *)
(* the switch replaced the feed; the bot is not stopped here.              *)
(***************************************************************************)
EXTENDS EntryAdmission

CONSTANTS Transactions, Sessions, None

VARIABLES
  phase, from, target, previous, switchOwner, bot, starting, stopping,
  startSymbol, session, engine, activeRuntime, ws, feeds, carries,
  marketSymbol, callback, torn

Switch == INSTANCE SafeSwitch

switchOnlyVars ==
  <<phase, from, target, previous, switchOwner, bot, starting, stopping,
    startSymbol, session, engine, activeRuntime, ws, feeds, carries,
    marketSymbol, callback, torn>>
entryOnlyVars ==
  <<controlVars, admissionVars, pc, feedVars, clientVars, operatorVars,
    engineVars>>

SharedInit == Init /\ Switch!Init

(* What revalidate_switch asks of the rest of the bot, Money Management's  *)
(* freshness apart.                                                        *)
Quiet == Flat /\ ~pendingOrder /\ EmergencyReady

(* build_selection_proposal asks the same before it proposes a symbol. *)
ProposeSwitch(n, symbol) ==
  /\ Quiet
  /\ Switch!Propose(n, symbol)
  /\ UNCHANGED entryOnlyVars

SwitchStep(n, fresh) ==
  /\ Switch!TransactionStep(n, fresh /\ Quiet)
  /\ UNCHANGED entryOnlyVars

SharedNext ==
  \/ Next /\ UNCHANGED switchOnlyVars
  \/ \E n \in Transactions, symbol \in Symbols : ProposeSwitch(n, symbol)
  \/ \E n \in Transactions, fresh \in BOOLEAN : SwitchStep(n, fresh)

sharedVars == <<vars, switchOnlyVars>>
SharedSpec == SharedInit /\ [][SharedNext]_sharedVars

-----------------------------------------------------------------------------
(* Properties.                                                             *)

(* A thread is inside from its look at the pause to the end of its         *)
(* admission.                                                              *)
Inside(t) == pc[t] \in EntryStages \cup {"observed"}
NobodyInside == \A t \in Threads : ~Inside(t)

(* The pause closes the door for good: once every thread that was inside   *)
(* when it was set has left, no BOT callback and no human request begins   *)
(* an entry before the switch resumes entries.                             *)
PauseHolds == [][symbolSwitchPaused /\ NobodyInside => NobodyInside']_sharedVars

(* "Do not switch while a position or unresolved order exists": the order  *)
(* in flight and the open position are on the active symbol.               *)
ExposureOnActiveSymbol ==
  /\ pendingOrder => reservation.orderSymbol = activeSymbol
  /\ ~Flat => position.symbol = activeSymbol
=============================================================================
