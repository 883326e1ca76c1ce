------------------------------ MODULE LiveTrade ------------------------------
(***************************************************************************)
(* LIVE trading of one engine session with KuCoin: entries and closes by   *)
(* the feed thread and by the human's HTTP threads, against an exchange    *)
(* that answers late or not at all.                                        *)
(*                                                                         *)
(* An entry holds execution_authority_lock (authority) from its sizing to  *)
(* its end; a close holds close_authority_lock (closer), a human's close   *)
(* both; a close on the feed thread takes no authority, so it runs beside  *)
(* a human's entry.  Who may trade is EntryAdmission's subject, the        *)
(* configuration that allows LIVE orders is taken as given, and nobody     *)
(* else opens positions on the account.                                    *)
(***************************************************************************)
EXTENDS Naturals

CONSTANTS
  Feed,      \* the exchange feed's callback thread
  Humans,    \* HTTP threads that submit manual trades
  Orders,    \* clientOids of the orders the session may send
  None       \* no thread, no order

ASSUME ThreadsDistinct == Feed \notin Humans /\ None \notin Humans \cup {Feed}
ASSUME NoneIsNoOrder == None \notin Orders

VARIABLES
  pc,           \* where each thread is
  authority,    \* the thread that holds execution_authority_lock
  closer,       \* the thread that holds close_authority_lock
  sent,         \* the order whose answer a thread waits for
  held,         \* engine.actual_position is a position
  pendingOrder, \* engine.pending_order
  latch,        \* engine.live_close_in_flight
  quantity,     \* the position's quantity as the close under way read it
  position,     \* the contracts the account holds on the exchange
  orders        \* every order: its kind, size, state and whether it is late

engineVars == <<held, pendingOrder, latch>>
exchangeVars == <<position, orders>>
vars == <<pc, authority, closer, sent, engineVars, quantity, exchangeVars>>

-----------------------------------------------------------------------------
Threads == Humans \cup {Feed}
EntryStages == {"sized", "committed", "ordering", "accepted", "adopted",
                "finishing"}
CloseStages == {"closing", "flattening", "posted", "reconciling", "flat"}
Stages == {"idle", "requested"} \cup EntryStages \cup CloseStages

Unused == [kind |-> "none", size |-> 0, state |-> "none", late |-> FALSE]

(* On its way to the exchange, or accepted by it and not filled. *)
Open(o) == orders[o].state \in {"sent", "working"}
Working(o) == orders[o].state = "working"
Arrived(o) == orders[o].state \in {"working", "filled", "cancelled"}
Opens(o) == orders[o].kind = "entry" /\ Open(o)

Stage(t, from, to) == pc[t] = from /\ pc' = [pc EXCEPT ![t] = to]
Give(t, lock) == IF lock = t THEN None ELSE lock

Init ==
  /\ pc = [t \in Threads |-> "idle"]
  /\ authority = None /\ closer = None
  /\ sent = [t \in Threads |-> None]
  /\ held = FALSE /\ pendingOrder = FALSE /\ latch = FALSE
  /\ quantity = 0
  /\ position = 0
  /\ orders = [o \in Orders |-> Unused]

(* A new order is on the wire, and t waits for the answer. *)
Post(t, kind, size) ==
  \E o \in Orders :
    /\ orders[o].kind = "none"
    /\ orders' = [orders EXCEPT ![o] =
         [kind |-> kind, size |-> size, state |-> "sent", late |-> FALSE]]
    /\ sent' = [sent EXCEPT ![t] = o]

(* The request raises, whatever becomes of the order it carried. *)
Lose(t) ==
  /\ orders' = [o \in Orders |->
       IF o = sent[t] /\ orders[o].state = "sent"
       THEN [orders[o] EXCEPT !.late = TRUE] ELSE orders[o]]
  /\ sent' = [sent EXCEPT ![t] = None]

-----------------------------------------------------------------------------
(* Entries: _try_entry_candidate in LIVE mode.                             *)

(* Mutant of AccountFlat: the margin of orders is not looked at. *)
AccountFlatButOrders == position = 0

(* The account overview shows neither the margin of a position nor that of *)
(* an entry order.                                                         *)
AccountFlat ==
  /\ position = 0
  /\ \A o \in Orders : Working(o) => orders[o].kind # "entry"

(* Admission and the first sizing, with a fresh account overview. *)
SizeEntry(t) ==
  /\ Stage(t, "idle", "sized")
  /\ authority = None /\ authority' = t
  /\ ~pendingOrder /\ ~held
  /\ AccountFlat
  /\ UNCHANGED <<closer, sent, engineVars, quantity, exchangeVars>>

CommitEntry(t) ==
  /\ Stage(t, "sized", "committed")
  /\ ~pendingOrder /\ ~held
  /\ pendingOrder' = TRUE
  /\ UNCHANGED <<authority, closer, sent, held, latch, quantity,
                 exchangeVars>>

(* A check fails before the commit.                                        *)
AbandonEntry(t) ==
  /\ Stage(t, "sized", "idle")
  /\ authority' = None
  /\ UNCHANGED <<closer, sent, engineVars, quantity, exchangeVars>>

(* create_order sizes once more with a fresh overview and posts the order, *)
(* or refuses it before it is posted.                                      *)
PostEntry(t) ==
  /\ Stage(t, "committed", "ordering")
  /\ AccountFlat
  /\ Post(t, "entry", 1)
  /\ UNCHANGED <<authority, closer, engineVars, quantity, position>>

RefuseEntry(t) ==
  /\ Stage(t, "committed", "finishing")
  /\ UNCHANGED <<authority, closer, sent, engineVars, quantity,
                 exchangeVars>>

EntryAnswered(t) ==
  /\ \/ Stage(t, "ordering", "accepted") /\ Arrived(sent[t])
     \/ Stage(t, "ordering", "finishing") /\ orders[sent[t]].state = "rejected"
  /\ sent' = [sent EXCEPT ![t] = None]
  /\ UNCHANGED <<authority, closer, engineVars, quantity, exchangeVars>>

EntryLost(t) ==
  /\ Stage(t, "ordering", "finishing")
  /\ Lose(t)
  /\ UNCHANGED <<authority, closer, engineVars, quantity, position>>

(* get_positions right after the order: the engine adopts what it finds.   *)
AdoptPosition(t) ==
  /\ \/ position > 0 /\ held' = TRUE /\ Stage(t, "accepted", "adopted")
     \/ position = 0 /\ held' = FALSE /\ Stage(t, "accepted", "finishing")
  /\ UNCHANGED <<authority, closer, sent, pendingOrder, latch, quantity,
                 exchangeVars>>

(* POSITION FETCH ERROR: the accepted order is forgotten. *)
FetchFails(t) ==
  /\ Stage(t, "accepted", "finishing")
  /\ UNCHANGED <<authority, closer, sent, engineVars, quantity,
                 exchangeVars>>

(* A newly observed position begins a new lifecycle. *)
ClearLatch(t) ==
  /\ Stage(t, "adopted", "finishing")
  /\ latch' = FALSE
  /\ UNCHANGED <<authority, closer, sent, held, pendingOrder, quantity,
                 exchangeVars>>

FinishEntry(t) ==
  /\ Stage(t, "finishing", "idle")
  /\ pendingOrder' = FALSE
  /\ authority' = None
  /\ UNCHANGED <<closer, sent, held, latch, quantity, exchangeVars>>

-----------------------------------------------------------------------------
(* Closes: close_position, _live_close_via_exchange and the adapter's      *)
(* flatten_current_position.                                               *)

(* execute_manual_trade admits the close and reserves it. *)
RequestClose(h) ==
  /\ Stage(h, "idle", "requested")
  /\ authority = None /\ authority' = h
  /\ held /\ ~pendingOrder
  /\ UNCHANGED <<closer, sent, engineVars, quantity, exchangeVars>>

(* Mutant of BeginClose: the close lock is not taken. *)
BeginCloseUnlocked(t) ==
  /\ Stage(t, IF t = Feed THEN "idle" ELSE "requested", "closing")
  /\ closer' = t
  /\ held /\ ~latch
  /\ pendingOrder' = TRUE
  /\ UNCHANGED <<authority, sent, held, latch, quantity, exchangeVars>>

(* on_price reaches its SL or TP on the feed thread, a human has asked.    *)
BeginClose(t) ==
  /\ Stage(t, IF t = Feed THEN "idle" ELSE "requested", "closing")
  /\ closer = None /\ closer' = t
  /\ held /\ ~latch
  /\ pendingOrder' = TRUE
  /\ UNCHANGED <<authority, sent, held, latch, quantity, exchangeVars>>

(* An exit has taken the position, or a close of it is unconfirmed.        *)
DropClose(h) ==
  /\ Stage(h, "requested", "idle")
  /\ closer = None
  /\ ~held \/ latch
  /\ authority' = None
  /\ UNCHANGED <<closer, sent, engineVars, quantity, exchangeVars>>

(* Mutant of ReadPosition: an empty position is flattened too. *)
ReadPositionUnchecked(t) ==
  /\ Stage(t, "closing", "flattening")
  /\ quantity' = position
  /\ UNCHANGED <<authority, closer, sent, engineVars, exchangeVars>>

(* Nothing to flatten counts as confirmed by the position. *)
ReadPosition(t) ==
  /\ \/ position > 0 /\ Stage(t, "closing", "flattening")
     \/ position = 0 /\ Stage(t, "closing", "flat")
  /\ quantity' = position
  /\ UNCHANGED <<authority, closer, sent, engineVars, exchangeVars>>

PostClose(t) ==
  /\ Stage(t, "flattening", "posted")
  /\ Post(t, "close", quantity)
  /\ UNCHANGED <<authority, closer, engineVars, quantity, position>>

CloseAccepted(t) ==
  /\ Stage(t, "posted", "reconciling")
  /\ Arrived(sent[t])
  /\ sent' = [sent EXCEPT ![t] = None]
  /\ UNCHANGED <<authority, closer, engineVars, quantity, exchangeVars>>

(* One look at the position, after it one at the open orders. *)
ReconcilePosition(t) ==
  /\ Stage(t, "reconciling", "flat")
  /\ position = 0
  /\ UNCHANGED <<authority, closer, sent, engineVars, quantity,
                 exchangeVars>>

(* Mutant of ReconcileOrders: the open orders are not looked at. *)
ReconcileOrdersUnchecked(t) ==
  /\ Stage(t, "flat", "idle")
  /\ held' = FALSE /\ pendingOrder' = FALSE /\ latch' = FALSE
  /\ closer' = None /\ authority' = Give(t, authority)
  /\ UNCHANGED <<sent, quantity, exchangeVars>>

ReconcileOrders(t) ==
  /\ IF \E o \in Orders : Working(o)
     THEN /\ Stage(t, "flat", "reconciling")
          /\ UNCHANGED <<authority, closer, engineVars>>
     ELSE /\ Stage(t, "flat", "idle")
          /\ held' = FALSE /\ pendingOrder' = FALSE /\ latch' = FALSE
          /\ closer' = None /\ authority' = Give(t, authority)
  /\ UNCHANGED <<sent, quantity, exchangeVars>>

(* Mutant of Unconfirmed: the close lock is kept. *)
UnconfirmedKeeping(t) ==
  /\ pc[t] \in CloseStages /\ pc' = [pc EXCEPT ![t] = "idle"]
  /\ IF pc[t] = "posted" THEN Lose(t) ELSE UNCHANGED <<sent, orders>>
  /\ latch' = TRUE
  /\ authority' = Give(t, authority)
  /\ UNCHANGED <<closer, held, pendingOrder, quantity, position>>

(* The order is rejected or its answer lost, a read fails, or every attempt *)
(* to reconcile has found a position or an order: the close is latched.    *)
Unconfirmed(t) ==
  /\ pc[t] \in CloseStages /\ pc' = [pc EXCEPT ![t] = "idle"]
  /\ IF pc[t] = "posted" THEN Lose(t) ELSE UNCHANGED <<sent, orders>>
  /\ latch' = TRUE
  /\ closer' = None /\ authority' = Give(t, authority)
  /\ UNCHANGED <<held, pendingOrder, quantity, position>>

-----------------------------------------------------------------------------
(* The exchange.                                                           *)

(* A reduceOnly order finds nothing to reduce when there is no position.   *)
Arrive(o) ==
  /\ orders[o].state = "sent"
  /\ \E state \in {"working", "rejected"} :
       /\ state = "working" /\ orders[o].kind = "close" => position > 0
       /\ orders' = [orders EXCEPT ![o].state = state]
  /\ UNCHANGED <<pc, authority, closer, sent, engineVars, quantity, position>>

Fill(o) ==
  /\ Working(o)
  /\ LET size == orders[o].size
     IN  \/ /\ orders[o].kind = "entry"
            /\ position' = position + size
         \/ /\ orders[o].kind = "close" /\ position > 0
            /\ position' = IF position > size THEN position - size ELSE 0
  /\ orders' = [orders EXCEPT ![o].state = "filled"]
  /\ UNCHANGED <<pc, authority, closer, sent, engineVars, quantity>>

Cancel(o) ==
  /\ Working(o) /\ orders[o].kind = "close" /\ position = 0
  /\ orders' = [orders EXCEPT ![o].state = "cancelled"]
  /\ UNCHANGED <<pc, authority, closer, sent, engineVars, quantity, position>>

(* The exchange liquidates the position, or its owner closes it there.     *)
CloseOutside ==
  /\ position > 0 /\ position' = 0
  /\ UNCHANGED <<pc, authority, closer, sent, engineVars, quantity, orders>>

-----------------------------------------------------------------------------
EntryStep(t) ==
  \/ SizeEntry(t) \/ CommitEntry(t) \/ AbandonEntry(t)
  \/ PostEntry(t) \/ RefuseEntry(t) \/ EntryAnswered(t) \/ EntryLost(t)
  \/ AdoptPosition(t) \/ FetchFails(t) \/ ClearLatch(t) \/ FinishEntry(t)

CloseStep(t) ==
  \/ ReadPosition(t) \/ PostClose(t) \/ CloseAccepted(t)
  \/ ReconcilePosition(t) \/ ReconcileOrders(t) \/ Unconfirmed(t)

ExchangeStep ==
  \/ \E o \in Orders : Arrive(o) \/ Fill(o) \/ Cancel(o)
  \/ CloseOutside

Next ==
  \/ \E t \in Threads : EntryStep(t) \/ BeginClose(t) \/ CloseStep(t)
  \/ \E h \in Humans : RequestClose(h) \/ DropClose(h)
  \/ ExchangeStep

(* Each request of a close has a timeout and its attempts are counted, so  *)
(* its thread runs on; and a reconciliation that is not confirmed gives up. *)
Fairness ==
  \A t \in Threads : WF_vars(CloseStep(t)) /\ WF_vars(Unconfirmed(t))

Spec == Init /\ [][Next]_vars
FairSpec == Spec /\ Fairness

-----------------------------------------------------------------------------
(* Properties.                                                             *)

Order ==
  [kind: {"none", "entry", "close"}, size: Nat, late: BOOLEAN,
   state: {"none", "sent", "working", "filled", "cancelled", "rejected"}]

(* Every variable has its type, and no order is posted for nothing.        *)
TypeOK ==
  /\ pc \in [Threads -> Stages]
  /\ authority \in Threads \cup {None} /\ closer \in Threads \cup {None}
  /\ sent \in [Threads -> Orders \cup {None}]
  /\ held \in BOOLEAN /\ pendingOrder \in BOOLEAN /\ latch \in BOOLEAN
  /\ quantity \in Nat /\ position \in Nat
  /\ orders \in [Orders -> Order]
  /\ \A o \in Orders : orders[o].state # "none" => orders[o].size > 0

(* As long as no entry request was lost on the wire, the account never has *)
(* more than one entry's exposure: neither a failed fetch of the position  *)
(* after an accepted order, nor a lost answer, nor two threads lead to a   *)
(* second one.                                                             *)
NoLateEntry == \A o \in Orders : orders[o].kind = "entry" => ~orders[o].late
OneExposure ==
  NoLateEntry =>
    /\ position <= 1
    /\ \A o \in Orders : Opens(o) =>
         position = 0 /\ \A p \in Orders : Opens(p) => p = o

(* The engine forgets a position only when the exchange has none and no    *)
(* order is left that could change that.                                   *)
ConfirmedCloseFlat ==
  [][held /\ ~held' /\ NoLateEntry => position = 0 /\ \A o \in Orders : ~Working(o)]_vars

(* A close ends, confirmed or latched, and gives its lock back.            *)
CloseEnds == closer # None ~> closer = None

(* Why the safety properties hold: the locks are exclusive; the engine      *)
(* holds no position until the exchange has answered; an entry order that   *)
(* may still arrive is waited for; and a close goes on about a position the *)
(* engine holds, with no entry order left, so what it saw flat stays flat.  *)
Locks ==
  \A t \in Threads :
    /\ pc[t] \in EntryStages \cup {"requested"} => authority = t
    /\ pc[t] \in CloseStages => closer = t
Holding ==
  \A t \in Threads :
    /\ pc[t] \in {"committed", "ordering", "accepted"} => ~held
    /\ pc[t] \in CloseStages => held
EntriesAwaited ==
  \A o \in Orders : orders[o].kind = "entry" =>
    /\ orders[o].size = 1
    /\ orders[o].state = "sent" /\ ~orders[o].late =>
         \E t \in Threads : pc[t] = "ordering" /\ sent[t] = o
SeenFlat ==
  /\ NoLateEntry /\ held => \A o \in Orders : ~Opens(o)
  /\ \A t \in Threads : NoLateEntry /\ pc[t] = "flat" => position = 0
Sized == \A t \in Threads : pc[t] = "flattening" => quantity > 0

LiveInv ==
  Locks /\ Holding /\ EntriesAwaited /\ OneExposure /\ SeenFlat /\ Sized

(* The rest of the system sees an account: see LiveAccount.  Under any      *)
(* interleaving of entries, closes, fills and failures the account goes     *)
(* from one entry to the next through flat, and the engine's own idea of a  *)
(* position follows it.                                                     *)
EntriesOpen == {o \in Orders : Opens(o)}
Exposure ==
  CASE ~NoLateEntry -> "lost"
    [] NoLateEntry /\ position = 0 /\ EntriesOpen = {} -> "flat"
    [] NoLateEntry /\ position = 0 /\ (\E o \in Orders : EntriesOpen = {o})
         -> "entering"
    [] NoLateEntry /\ position = 1 /\ EntriesOpen = {} -> "exposed"
    [] OTHER -> "doubled"
Account == INSTANCE LiveAccount WITH exposure <- Exposure, believed <- held
ImplementsAccount == Account!Spec
=============================================================================
