---------------------------- MODULE EmergencyStop ----------------------------
(***************************************************************************)
(* The emergency orchestrator beside LIVE trading.  It runs on the server's *)
(* event loop, so the emergency routes never overlap; it takes no trading  *)
(* lock, cancels what is open, flattens the position, stops the bot and    *)
(* records LOCKED if all of that succeeded.  If a recent observation shows *)
(* an account without position and order it does neither.                  *)
(*                                                                         *)
(* The session is not started again: a start builds another engine.        *)
(***************************************************************************)
EXTENDS LiveTrade

VARIABLES
  session,    \* "running"; "halted": lifecycle STOPPED; "detached": no engine
  known,      \* the last observation of the account showed it empty
  emergency,  \* emergency_state; emergency_stop is set unless it is READY
  op,         \* where the orchestrator is
  listed,     \* the orders it has yet to cancel
  flatten,    \* the order it sent to flatten, and the size it read
  clean,      \* nothing has failed so far
  checked     \* history: the operation listed the exchange's orders when no
              \* entry was past its last check

operationVars == <<op, listed, flatten, clean, checked>>
stopVars == <<session, known, emergency, operationVars>>
emergencyVars == <<vars, stopVars>>

-----------------------------------------------------------------------------
EmergencyStates == {"READY", "PROCESSING", "LOCKED", "ACTION_REQUIRED"}
OpStages == {"idle", "begun", "cancelling", "found", "posted", "answered",
             "concluded", "stopped"}

NothingPosted == [order |-> None, size |-> 0]

Attached == session # "detached"

(* Threads that have looked at emergency_stop for the last time and may    *)
(* still post an entry.                                                    *)
PastCheck == {t \in Threads : pc[t] \in {"committed", "ordering"}}

EmergencyInit ==
  /\ Init
  /\ session = "running" /\ known = FALSE
  /\ emergency = "READY"
  /\ op = "idle" /\ listed = {} /\ flatten = NothingPosted /\ clean = TRUE
  /\ checked = FALSE

At(from, to) == op = from /\ op' = to

-----------------------------------------------------------------------------
(* Trading, as the emergency state and the order authority allow it.       *)

(* Admission looks at the lifecycle and the emergency state, for a human's *)
(* close too.                                                              *)
Admits == session = "running" /\ emergency = "READY"

(* Mutant of LiveOrderAllowed: the emergency is not looked at again. *)
LiveOrderAllowedUnchecked == TRUE

(* The engine looks again before it commits the order. Look and commit are *)
(* one step: between them the thread has `authority' and the engine holds  *)
(* nothing, so no other step depends on which of the two is reached.       *)
LiveOrderAllowed == emergency = "READY"

Trades ==
  /\ Next
  /\ \A t \in Threads :
       /\ pc[t] = "idle" /\ pc'[t] \in {"sized", "requested"} => Admits
       /\ pc[t] # "committed" /\ pc'[t] = "committed" => LiveOrderAllowed
  /\ UNCHANGED stopVars

(* The read model of the account, published for at most its TTL.  It is    *)
(* refreshed only while the operator has real orders disarmed.  Nothing    *)
(* else depends on that but the commit, before which they can be armed.    *)
(* Once the operation has looked at it nobody does.                        *)
Observe ==
  /\ Attached /\ op \in {"idle", "begun"}
  /\ known' = (position = 0 /\ \A o \in Orders : ~Working(o))
  /\ UNCHANGED <<vars, session, emergency, operationVars>>

-----------------------------------------------------------------------------
(* The routes /emergency-stop, /emergency/unlock, and the begin of          *)
(* /emergency-orchestrate or /emergency/retry.                             *)

Press ==
  /\ op = "idle"
  /\ emergency' = "ACTION_REQUIRED"
  /\ checked' = FALSE
  /\ UNCHANGED <<vars, session, known, op, listed, flatten, clean>>

Unlock ==
  /\ op = "idle"
  /\ emergency' = "READY"
  /\ session' = IF Attached THEN "halted" ELSE session
  /\ checked' = FALSE
  /\ UNCHANGED <<vars, known, op, listed, flatten, clean>>

Begin ==
  /\ At("idle", "begun")
  /\ emergency' = "PROCESSING"
  /\ checked' = FALSE
  /\ UNCHANGED <<vars, session, known, listed, flatten, clean>>

-----------------------------------------------------------------------------
(* The operation.                                                          *)

(* ENGINE_UNAVAILABLE: there is nothing to stop, either. *)
NoEngine ==
  /\ At("begun", "stopped") /\ ~Attached
  /\ clean' = FALSE
  /\ UNCHANGED <<vars, session, known, emergency, listed, flatten, checked>>

(* AUTO_TRADE_DISABLE_FAILED, or an exception. *)
BreaksOff ==
  /\ At("begun", "concluded") /\ Attached
  /\ known' = FALSE
  /\ clean' = FALSE
  /\ UNCHANGED <<vars, session, emergency, listed, flatten, checked>>

(* The account is known to be empty: nothing is cancelled or flattened.    *)
KnownZero ==
  /\ At("begun", "concluded") /\ Attached /\ known
  /\ known' = FALSE
  /\ UNCHANGED <<vars, session, emergency, listed, flatten,
                 clean, checked>>

(* Mutant of ListOrders: the account's orders are not asked for. *)
ListOrdersEmpty ==
  /\ At("begun", "cancelling") /\ Attached
  /\ known' = FALSE
  /\ checked' = (PastCheck = {})
  /\ listed' = {} /\ UNCHANGED clean
  /\ UNCHANGED <<vars, session, emergency, flatten>>

(* cancel_all_orders begins with the open orders, or fails to read them.   *)
ListOrders ==
  /\ At("begun", "cancelling") /\ Attached
  /\ known' = FALSE
  /\ checked' = (PastCheck = {})
  /\ \/ listed' = {o \in Orders : Working(o)} /\ UNCHANGED clean
     \/ listed' = {} /\ clean' = FALSE
  /\ UNCHANGED <<vars, session, emergency, flatten>>

(* A request to cancel may fail, or its answer be lost; an order that has  *)
(* been filled cannot be cancelled.                                        *)
CancelListed(o) ==
  /\ op = "cancelling" /\ o \in listed
  /\ listed' = listed \ {o}
  /\ \/ /\ Working(o)
        /\ orders' = [orders EXCEPT ![o].state = "cancelled"]
        /\ clean' \in {clean, FALSE}
     \/ clean' = FALSE /\ UNCHANGED orders
  /\ UNCHANGED <<pc, authority, closer, sent, engineVars, quantity, position,
                 session, known, emergency, op, flatten, checked>>

(* flatten_current_position: a position of no contracts is a success.      *)
FindPosition ==
  /\ listed = {}
  /\ \/ /\ position > 0 /\ At("cancelling", "found")
        /\ flatten' = [flatten EXCEPT !.size = position]
        /\ UNCHANGED clean
     \/ /\ position = 0 /\ At("cancelling", "concluded")
        /\ UNCHANGED <<flatten, clean>>
     \/ At("cancelling", "concluded") /\ clean' = FALSE /\ UNCHANGED flatten
  /\ UNCHANGED <<vars, session, known, emergency, listed, checked>>

PostFlatten ==
  /\ At("found", "posted")
  /\ \E o \in Orders :
       /\ orders[o].kind = "none"
       /\ orders' = [orders EXCEPT ![o] =
            [kind |-> "close", size |-> flatten.size, state |-> "sent",
             late |-> FALSE]]
       /\ flatten' = [flatten EXCEPT !.order = o]
  /\ UNCHANGED <<pc, authority, closer, sent, engineVars, quantity, position,
                 session, known, emergency, listed, clean, checked>>

FlattenAccepted ==
  /\ At("posted", "answered")
  /\ Arrived(flatten.order)
  /\ UNCHANGED <<vars, session, known, emergency, listed, flatten,
                 clean, checked>>

(* The margin mode is unknown, the order is rejected, or no answer comes.  *)
FlattenFails ==
  /\ At("found", "concluded") \/ At("posted", "concluded")
  /\ orders' = [o \in Orders |->
       IF o = flatten.order /\ orders[o].state = "sent"
       THEN [orders[o] EXCEPT !.late = TRUE] ELSE orders[o]]
  /\ flatten' = NothingPosted /\ clean' = FALSE
  /\ UNCHANGED <<pc, authority, closer, sent, engineVars, quantity, position,
                 session, known, emergency, listed, checked>>

(* The position is read once more; one that is there or unknown is a       *)
(* failure.                                                                *)
VerifyFlat ==
  /\ At("answered", "concluded")
  /\ (position = 0 /\ UNCHANGED clean) \/ clean' = FALSE
  /\ flatten' = NothingPosted
  /\ UNCHANGED <<vars, session, known, emergency, listed, checked>>

(* finalize stops the bot, whatever has been reached. The engine goes,     *)
(* unless its own stop fails.                                              *)
StopBot ==
  /\ At("concluded", "stopped")
  /\ \/ session' = "detached" /\ clean' \in {clean, FALSE}
     \/ session' = "halted" /\ clean' = FALSE
  /\ UNCHANGED <<vars, known, emergency, listed, flatten, checked>>

Complete ==
  /\ At("stopped", "idle")
  /\ emergency' = IF clean THEN "LOCKED" ELSE "ACTION_REQUIRED"
  /\ clean' = TRUE
  /\ checked' = (clean /\ checked)
  /\ UNCHANGED <<vars, session, known, listed, flatten>>

-----------------------------------------------------------------------------
Operates ==
  \/ NoEngine \/ BreaksOff \/ KnownZero \/ ListOrders
  \/ \E o \in Orders : CancelListed(o)
  \/ FindPosition \/ PostFlatten \/ FlattenAccepted \/ FlattenFails
  \/ VerifyFlat \/ StopBot \/ Complete

EmergencyNext ==
  \/ Trades
  \/ Observe \/ Press \/ Unlock \/ Begin \/ Operates

(* A close runs on as it does without an emergency.                        *)
EmergencyFairness ==
  \A t \in Threads :
    /\ WF_emergencyVars(CloseStep(t) /\ UNCHANGED stopVars)
    /\ WF_emergencyVars(Unconfirmed(t) /\ UNCHANGED stopVars)

EmergencySpec == EmergencyInit /\ [][EmergencyNext]_emergencyVars
FairEmergencySpec == EmergencySpec /\ EmergencyFairness

-----------------------------------------------------------------------------
(* Properties.                                                             *)

(* Every variable has its type, those of the trading session included.     *)
StopTypeOK ==
  /\ TypeOK
  /\ session \in {"running", "halted", "detached"}
  /\ known \in BOOLEAN
  /\ emergency \in EmergencyStates /\ op \in OpStages
  /\ listed \subseteq Orders
  /\ flatten \in [order: Orders \cup {None}, size: Nat]
  /\ clean \in BOOLEAN
  /\ checked \in BOOLEAN

NoEntryOpen == \A o \in Orders : ~Opens(o)

(* An emergency stop that cancelled and flattened and then reports LOCKED  *)
(* has left no position and no entry order that could become one, whatever *)
(* fills, exits and human's closes ran beside it - unless an entry was     *)
(* past its last check when the orders were listed, or its request was     *)
(* lost on the wire.                                                       *)
LockedFlat ==
  emergency = "LOCKED" /\ checked /\ NoLateEntry
  => position = 0 /\ NoEntryOpen

(* Why: an operation keeps the emergency on, so after its listing no entry *)
(* passes its check, every entry that could still fill is one it lists and *)
(* cancels, and an account it has seen flat stays flat.                    *)
StopInv ==
  /\ LiveInv
  /\ op # "idle" => emergency = "PROCESSING"
  /\ op = "idle" => clean
  /\ op = "begun" => ~checked
  /\ op = "found" => flatten.size > 0
  /\ checked => emergency # "READY" /\ PastCheck = {}
  /\ checked /\ clean /\ NoLateEntry =>
       /\ \A o \in Orders : Opens(o) => op = "cancelling" /\ o \in listed
       /\ op \in {"idle", "concluded", "stopped"} => position = 0

(* "Emergency Stop [requires] positions 0, pending orders 0, open orders   *)
(* 0": whatever its grounds, a stop that reports LOCKED leaves an empty    *)
(* account.                                                                *)
LockedEmpty ==
  emergency = "LOCKED" => position = 0 /\ \A o \in Orders : ~Working(o)
=============================================================================
