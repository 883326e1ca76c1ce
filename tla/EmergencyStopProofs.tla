------------------------ MODULE EmergencyStopProofs ------------------------
(***************************************************************************)
(* What an emergency stop guarantees for every number of threads and       *)
(* orders, and that the guarantees of LIVE trading hold beside it.         *)
(***************************************************************************)
EXTENDS EmergencyStop, LiveTradeProofs

USE ThreadsDistinct, NoneIsNoOrder
USE DEF Threads, Stage, Give, Post, Lose, engineVars, exchangeVars
USE DEF At, operationVars, stopVars

-----------------------------------------------------------------------------
(* The steps of the operator and of the operation leave trading alone,      *)
(* but for three that touch orders only.                                   *)

Aside ==
  Observe \/ Press \/ Unlock \/ Begin \/ NoEngine \/ BreaksOff \/ KnownZero
  \/ ListOrders \/ FindPosition \/ FlattenAccepted \/ VerifyFlat \/ StopBot
  \/ Complete

Touches ==
  (\E o \in Orders : CancelListed(o)) \/ PostFlatten \/ FlattenFails

(* The next-state relation, sorted by what its steps touch. *)
LEMMA Sorted == EmergencyNext => Trades \/ Aside \/ Touches
BY DEF EmergencyNext, Operates, Aside, Touches

LEMMA AsideApart == Aside => UNCHANGED vars
BY DEF Aside, Observe, Press, Unlock, Begin, NoEngine, BreaksOff, KnownZero,
       ListOrders, FindPosition, FlattenAccepted, VerifyFlat, StopBot, Complete

(* What the three do to orders: no entry begins, grows or is forgotten.    *)
LEMMA TouchesOrders ==
  ASSUME StopTypeOK, StopInv, Touches
  PROVE  /\ UNCHANGED <<pc, authority, closer, sent, engineVars, quantity,
                        position>>
         /\ orders' \in [Orders -> Order]
         /\ \A o \in Orders : orders'[o].state # "none" => orders'[o].size > 0
         /\ \A o \in Orders :
              /\ orders[o].kind = "entry" =>
                   orders'[o].kind = "entry" /\ orders'[o].size = orders[o].size
              /\ orders'[o].kind = "entry" =>
                   /\ orders[o].kind = "entry"
                   /\ orders'[o].size = orders[o].size
                   /\ orders'[o].state \in {orders[o].state, "cancelled"}
                   /\ orders[o].late => orders'[o].late
                   /\ orders'[o].state # orders[o].state =>
                        op = "cancelling" /\ o \in listed
<1> USE DEF StopTypeOK, TypeOK, Order, StopInv, Working
<1>1. CASE \E o \in Orders : CancelListed(o)
  <2>1. PICK c \in Orders : CancelListed(c)
    BY <1>1
  <2>2. CASE orders' = orders
    BY <2>1, <2>2 DEF CancelListed
  <2>3. CASE Working(c) /\ orders' = [orders EXCEPT ![c].state = "cancelled"]
    <3>1. op = "cancelling" /\ c \in listed
      BY <2>1 DEF CancelListed
    <3>2. UNCHANGED <<pc, authority, closer, sent, engineVars, quantity, position>>
      BY <2>1 DEF CancelListed
    <3>3. \A o \in Orders :
            /\ orders'[o].kind = orders[o].kind /\ orders'[o].size = orders[o].size
            /\ orders'[o].late = orders[o].late
            /\ orders'[o].state = IF o = c THEN "cancelled" ELSE orders[o].state
      BY <2>3
    <3>4. orders' \in [Orders -> Order]
      BY <2>3
    <3>5. orders[c].state # "none"
      BY <2>3
    <3> HIDE DEF Order
    <3> QED BY <3>1, <3>2, <3>3, <3>4, <3>5
  <2> QED BY <2>1, <2>2, <2>3 DEF CancelListed
<1>2. CASE PostFlatten
  BY <1>2 DEF PostFlatten
<1>3. CASE FlattenFails
  <2> DEFINE Lost(o) == o = flatten.order /\ orders[o].state = "sent"
             After(o) == IF Lost(o) THEN [orders[o] EXCEPT !.late = TRUE]
                         ELSE orders[o]
  <2>1. orders' = [o \in Orders |-> After(o)]
    BY <1>3 DEF FlattenFails
  <2>2. \A o \in Orders :
          /\ After(o) \in Order
          /\ After(o).kind = orders[o].kind /\ After(o).size = orders[o].size
          /\ After(o).state = orders[o].state
          /\ orders[o].late => After(o).late
    <3> TAKE o \in Orders
    <3>1. orders[o] \in Order
      OBVIOUS
    <3>2. After(o) = orders[o] \/ After(o) = [orders[o] EXCEPT !.late = TRUE]
      BY Zenon
    <3> HIDE DEF After
    <3> QED BY <3>1, <3>2
  <2>3. UNCHANGED <<pc, authority, closer, sent, engineVars, quantity, position>>
    BY <1>3 DEF FlattenFails
  <2> HIDE DEF Order, After
  <2> QED BY <2>1, <2>2, <2>3
<1> QED BY <1>1, <1>2, <1>3 DEF Touches

-----------------------------------------------------------------------------
(* Types.                                                                  *)

(* Every step keeps the types. *)
LEMMA StopTypeStep ==
  ASSUME StopTypeOK, StopInv, [EmergencyNext]_emergencyVars PROVE StopTypeOK'
<1> USE DEF StopTypeOK, EmergencyStates, OpStages, NothingPosted
<1>1. CASE Trades
  <2>1. TypeOK'
    BY <1>1, LiveStep DEF Trades, StopInv
  <2> QED BY <1>1, <2>1 DEF Trades
<1>2. CASE Aside
  <2>1. TypeOK'
    BY <1>2, AsideApart, LiveStep DEF StopInv
  <2>2. CASE Observe
    BY <2>1, <2>2 DEF Observe
  <2>3. CASE Press
    BY <2>1, <2>3 DEF Press
  <2>4. CASE Unlock
    BY <2>1, <2>4 DEF Unlock
  <2>5. CASE Begin
    BY <2>1, <2>5 DEF Begin
  <2>6. CASE NoEngine \/ BreaksOff \/ KnownZero
    BY <2>1, <2>6 DEF NoEngine, BreaksOff, KnownZero
  <2>7. CASE ListOrders
    BY <2>1, <2>7 DEF ListOrders
  <2>8. CASE FindPosition
    BY <2>1, <2>8 DEF FindPosition, TypeOK
  <2>9. CASE FlattenAccepted \/ VerifyFlat
    <3>1. CASE FlattenAccepted
      BY <2>1, <3>1 DEF FlattenAccepted
    <3>2. CASE VerifyFlat
      BY <2>1, <3>2 DEF VerifyFlat
    <3> QED BY <2>9, <3>1, <3>2
  <2>10. CASE StopBot
    BY <2>1, <2>10 DEF StopBot
  <2>11. CASE Complete
    BY <2>1, <2>11 DEF Complete
  <2> QED BY <1>2, <2>2, <2>3, <2>4, <2>5, <2>6, <2>7, <2>8, <2>9, <2>10, <2>11
          DEF Aside
<1>3. CASE Touches
  <2>1. TypeOK'
    <3>1. UNCHANGED <<pc, authority, closer, sent, engineVars, quantity, position>>
      BY <1>3, TouchesOrders
    <3>2. /\ orders' \in [Orders -> Order]
          /\ \A o \in Orders : orders'[o].state # "none" => orders'[o].size > 0
      BY <1>3, TouchesOrders
    <3> QED BY <3>1, <3>2 DEF TypeOK, engineVars
  <2>2. ASSUME NEW o \in Orders, CancelListed(o) PROVE StopTypeOK'
    BY <2>1, <2>2 DEF CancelListed
  <2>3. CASE PostFlatten
    BY <2>1, <2>3 DEF PostFlatten
  <2>4. CASE FlattenFails
    BY <2>1, <2>4 DEF FlattenFails
  <2> QED BY <1>3, <2>2, <2>3, <2>4 DEF Touches
<1>4. CASE UNCHANGED emergencyVars
  <2>1. TypeOK'
    BY <1>4, LiveStep DEF emergencyVars, StopInv
  <2> QED BY <1>4, <2>1 DEF emergencyVars
<1> QED BY <1>1, <1>2, <1>3, <1>4, Sorted

-----------------------------------------------------------------------------
(* The guarantees of trading.                                              *)

(* The operation's orders disturb no guarantee of trading. *)
LEMMA TouchesLive ==
  ASSUME StopTypeOK, StopInv, Touches PROVE LiveInv'
<1> USE TouchesOrders DEF StopInv, LiveInv
<1>1. Locks' /\ Holding' /\ Sized'
  BY DEF Locks, Holding, Sized, engineVars
<1>2. NoLateEntry' => NoLateEntry
  BY DEF NoLateEntry
<1>3. \A o \in Orders : Opens(o)' => Opens(o)
  BY DEF Opens, Open
<1>4. EntriesAwaited'
  BY DEF EntriesAwaited
<1>5. OneExposure'
  BY <1>2, <1>3 DEF OneExposure
<1>6. SeenFlat'
  BY <1>2, <1>3 DEF SeenFlat, engineVars
<1> QED BY <1>1, <1>4, <1>5, <1>6

LEMMA StopLiveStep ==
  ASSUME StopTypeOK, StopInv, [EmergencyNext]_emergencyVars PROVE LiveInv'
<1>1. TypeOK /\ LiveInv
  BY DEF StopTypeOK, StopInv
<1>2. CASE Trades
  BY <1>1, <1>2, LiveStep DEF Trades
<1>3. CASE Aside \/ UNCHANGED emergencyVars
  BY <1>1, <1>3, AsideApart, LiveStep DEF emergencyVars
<1>4. CASE Touches
  BY <1>4, TouchesLive
<1> QED BY <1>2, <1>3, <1>4, Sorted

-----------------------------------------------------------------------------
(* Trading after the check.                                                *)

(* While the emergency is on and no entry is past its check, none gets     *)
(* past it, no entry order begins and a flat account stays flat.           *)
LEMMA CheckedTrades ==
  ASSUME TypeOK, Trades, emergency # "READY", PastCheck = {}
  PROVE  /\ PastCheck' = {}
         /\ \A o \in Orders : Opens(o)' => Opens(o)
         /\ position = 0 /\ NoEntryOpen => position' = 0
<1> USE DEF TypeOK, Order, PastCheck, Opens, Open, NoEntryOpen, Working
<1>1. \A t \in Threads : pc'[t] = "committed" => pc[t] = "committed"
  BY DEF Trades, LiveOrderAllowed
<1>2. \A t \in Threads : pc[t] \notin {"committed", "ordering"}
  OBVIOUS
<1>3. Next
  BY DEF Trades
<1>4. ASSUME NEW t \in Threads, EntryStep(t)
      PROVE  UNCHANGED <<orders, position>> /\ PastCheck' = {}
  BY <1>1, <1>2, <1>4
     DEF EntryStep, SizeEntry, CommitEntry, AbandonEntry, PostEntry, RefuseEntry,
         EntryAnswered, EntryLost, AdoptPosition, FetchFails, ClearLatch,
         FinishEntry
<1>5. ASSUME NEW t \in Threads, BeginClose(t) \/ CloseStep(t)
      PROVE  /\ UNCHANGED position /\ PastCheck' = {}
             /\ \A o \in Orders : Opens(o)' => Opens(o)
  BY <1>1, <1>2, <1>5
     DEF BeginClose, CloseStep, ReadPosition, PostClose, CloseAccepted,
         ReconcilePosition, ReconcileOrders, Unconfirmed, CloseStages
<1>6. ASSUME NEW h \in Humans, RequestClose(h) \/ DropClose(h)
      PROVE  UNCHANGED <<orders, position>> /\ PastCheck' = {}
  BY <1>2, <1>6 DEF RequestClose, DropClose
<1>7. ASSUME NEW o \in Orders, Arrive(o) \/ Fill(o) \/ Cancel(o)
      PROVE  /\ PastCheck' = {}
             /\ \A p \in Orders : Opens(p)' => Opens(p)
             /\ position = 0 /\ NoEntryOpen => position' = 0
  BY <1>2, <1>7 DEF Arrive, Fill, Cancel
<1>8. CASE CloseOutside
  BY <1>2, <1>8 DEF CloseOutside
<1> QED BY <1>3, <1>4, <1>5, <1>6, <1>7, <1>8 DEF Next, ExchangeStep

-----------------------------------------------------------------------------
(* The inductive invariant.                                                *)

(* When an operation lists the orders, and no entry is past its check, it  *)
(* lists every entry that may still fill.                                  *)
LEMMA ListsEntries ==
  ASSUME EntriesAwaited, NoLateEntry, PastCheck = {},
         NEW o \in Orders, Opens(o)
  PROVE  Working(o)
BY DEF EntriesAwaited, NoLateEntry, PastCheck, Opens, Open, Working

(* Every step keeps the invariant. *)
LEMMA StopStep ==
  ASSUME StopTypeOK, StopInv, [EmergencyNext]_emergencyVars PROVE StopInv'
<1> USE DEF StopTypeOK, StopInv
<1>1. LiveInv'
  BY StopLiveStep
<1>2. CASE Trades
  <2>1. TypeOK /\ Next /\ UNCHANGED stopVars
    BY <1>2 DEF Trades
  <2>2. ASSUME checked
        PROVE  /\ PastCheck' = {}
               /\ \A o \in Orders : Opens(o)' => Opens(o)
               /\ position = 0 /\ NoEntryOpen => position' = 0
    BY <1>2, <2>1, <2>2, CheckedTrades
  <2>3. NoLateEntry' => NoLateEntry
    BY <2>1, LateStays
  <2> QED BY <1>1, <2>1, <2>2, <2>3 DEF NoEntryOpen
<1>3. CASE Aside
  <2>1. UNCHANGED vars
    BY <1>3, AsideApart
  <2>2. /\ NoLateEntry' <=> NoLateEntry
        /\ PastCheck' = PastCheck
        /\ \A o \in Orders : Opens(o)' <=> Opens(o)
        /\ position' = position
    BY <2>1 DEF vars, NoLateEntry, PastCheck, Opens, Open
  <2>3. CASE Observe
    BY <1>1, <2>2, <2>3 DEF Observe
  <2>4. CASE Press \/ Unlock \/ Begin
    BY <1>1, <2>2, <2>4 DEF Press, Unlock, Begin
  <2>5. CASE NoEngine \/ BreaksOff \/ KnownZero
    BY <1>1, <2>2, <2>5 DEF NoEngine, BreaksOff, KnownZero
  <2>6. CASE ListOrders
    BY <1>1, <2>2, <2>6, ListsEntries DEF ListOrders, LiveInv
  <2>7. CASE FindPosition
    BY <1>1, <2>2, <2>7 DEF FindPosition
  <2>8. CASE FlattenAccepted \/ VerifyFlat
    BY <1>1, <2>2, <2>8 DEF FlattenAccepted, VerifyFlat
  <2>9. CASE StopBot \/ Complete
    <3>1. CASE StopBot
      <4>1. clean' = clean \/ clean' = FALSE
        BY <3>1 DEF StopBot
      <4> QED BY <1>1, <2>2, <3>1, <4>1 DEF StopBot
    <3>2. CASE Complete
      BY <1>1, <2>2, <3>2 DEF Complete
    <3> QED BY <2>9, <3>1, <3>2
  <2> QED BY <1>3, <2>3, <2>4, <2>5, <2>6, <2>7, <2>8, <2>9 DEF Aside
<1>4. CASE Touches
  <2>1. UNCHANGED <<pc, position>>
    BY <1>4, TouchesOrders
  <2>2. PastCheck' = PastCheck
    BY <2>1 DEF PastCheck
  <2>3. /\ NoLateEntry' => NoLateEntry
        /\ \A o \in Orders : Opens(o)' => Opens(o)
    BY <1>4, TouchesOrders DEF NoLateEntry, Opens, Open
  <2>4. ASSUME NEW c \in Orders, CancelListed(c) PROVE StopInv'
    <3>1. clean' => clean /\ orders' = [orders EXCEPT ![c].state = "cancelled"]
      BY <2>4 DEF CancelListed
    <3>2. clean' => orders'[c].state = "cancelled"
      BY <3>1 DEF TypeOK, Order
    <3>3. clean' => clean /\ ~Opens(c)'
      BY <3>1, <3>2 DEF Opens, Open
    <3> QED BY <1>1, <2>1, <2>2, <2>3, <2>4, <3>3 DEF CancelListed
  <2>5. CASE PostFlatten
    BY <1>1, <2>1, <2>2, <2>3, <2>5 DEF PostFlatten
  <2>6. CASE FlattenFails
    BY <1>1, <2>1, <2>2, <2>3, <2>6 DEF FlattenFails
  <2> QED BY <1>4, <2>4, <2>5, <2>6 DEF Touches
<1>5. CASE UNCHANGED emergencyVars
  BY <1>1, <1>5
     DEF emergencyVars, vars, PastCheck, NoLateEntry, Opens, Open
<1> QED BY <1>2, <1>3, <1>4, <1>5, Sorted

(* Types and invariant hold together. *)
THEOREM StopInvariance == EmergencySpec => [](StopTypeOK /\ StopInv)
<1>1. EmergencyInit => StopTypeOK /\ StopInv
  <2> SUFFICES ASSUME EmergencyInit PROVE StopTypeOK /\ StopInv
    OBVIOUS
  <2>1. TypeOK /\ LiveInv
    BY LiveStart DEF EmergencyInit
  <2>2. StopTypeOK
    BY <2>1 DEF EmergencyInit, StopTypeOK, EmergencyStates, OpStages,
                NothingPosted
  <2> QED BY <2>1, <2>2 DEF EmergencyInit, StopInv
<1>2. StopTypeOK /\ StopInv /\ [EmergencyNext]_emergencyVars
      => StopTypeOK' /\ StopInv'
  BY StopTypeStep, StopStep
<1> QED BY <1>1, <1>2, PTL DEF EmergencySpec

(* Every variable has its type, those of the trading session included.     *)
THEOREM StopTypeCorrect == EmergencySpec => []StopTypeOK
BY StopInvariance, PTL

(* The inductive invariant of the operation.                               *)
THEOREM StopInvariant == EmergencySpec => []StopInv
BY StopInvariance, PTL

(* An emergency stop that cancelled and flattened and then reports LOCKED   *)
(* has left no position and no entry order that could become one, unless   *)
(* an entry was past its last check or its request lost.                   *)
THEOREM LockedIsFlat == EmergencySpec => []LockedFlat
<1>1. StopInv => LockedFlat
  BY DEF StopInv, LockedFlat, NoEntryOpen
<1> QED BY <1>1, StopInvariance, PTL

(* Beside an emergency stop, too, the account has one entry's exposure.    *)
THEOREM SingleExposureBeside == EmergencySpec => []OneExposure
<1>1. StopInv => OneExposure
  BY DEF StopInv, LiveInv
<1> QED BY <1>1, StopInvariance, PTL

(* Beside an emergency stop, too, the engine forgets a position only when  *)
(* the exchange has none and no order is working.                          *)
THEOREM ForgetsOnlyFlatBeside == EmergencySpec => ConfirmedCloseFlat
<1>1. StopTypeOK /\ StopInv /\ [EmergencyNext]_emergencyVars =>
        [held /\ ~held' /\ NoLateEntry
         => position = 0 /\ \A o \in Orders : ~Working(o)]_vars
  <2> SUFFICES ASSUME StopTypeOK, StopInv, [EmergencyNext]_emergencyVars,
                      held, ~held', NoLateEntry
               PROVE  position = 0 /\ \A o \in Orders : ~Working(o)
    BY DEF vars
  <2>1. Trades
    BY Sorted, AsideApart, TouchesOrders DEF emergencyVars, vars
  <2> QED BY <2>1, ForgetStep DEF Trades, StopTypeOK, StopInv
<1> QED BY <1>1, StopInvariance, PTL DEF EmergencySpec, ConfirmedCloseFlat

-----------------------------------------------------------------------------
(* The account beside an emergency stop.                                   *)

(* A request of the operation that fails marks an order as late that was   *)
(* still on its way.                                                       *)
LEMMA TouchesLate ==
  ASSUME StopTypeOK, Touches, NoLateEntry, ~NoLateEntry'
  PROVE  EntriesOpen # {}
<1> USE DEF StopTypeOK, TypeOK, Order, NoLateEntry
<1>1. PICK o \in Orders : orders'[o].kind = "entry" /\ orders'[o].late
  OBVIOUS
<1>2. ~(\E c \in Orders : CancelListed(c)) /\ ~PostFlatten
  <2>1. ASSUME NEW c \in Orders, CancelListed(c) PROVE FALSE
    <3>1. \/ orders' = orders
          \/ orders' = [orders EXCEPT ![c].state = "cancelled"]
      BY <2>1 DEF CancelListed
    <3>2. /\ orders'[o].kind = orders[o].kind
          /\ orders'[o].late = orders[o].late
      BY <3>1
    <3> QED BY <1>1, <3>2
  <2>2. ASSUME PostFlatten PROVE FALSE
    BY <1>1, <2>2 DEF PostFlatten
  <2> QED BY <2>1, <2>2
<1>3. FlattenFails
  BY <1>2 DEF Touches
<1>4. orders[o].kind = "entry" /\ orders[o].state = "sent"
  BY <1>1, <1>3 DEF FlattenFails
<1> QED BY <1>4 DEF EntriesOpen, Opens, Open

(* The operation's orders keep the account's promise. *)
LEMMA TouchesRefine ==
  ASSUME StopTypeOK, StopInv, StopTypeOK', StopInv', Touches
  PROVE  [Account!Next]_(Account!vars)
<1>1. /\ UNCHANGED <<held, position>>
      /\ EntriesOpen' \subseteq EntriesOpen
      /\ NoLateEntry' => NoLateEntry
  BY TouchesOrders DEF EntriesOpen, Opens, Open, NoLateEntry
<1>2. position \in Nat
  BY DEF StopTypeOK, TypeOK
<1> QED BY <1>1, <1>2, TouchesLate, AccountMoves
        DEF StopTypeOK, StopInv, LiveInv

(* Also beside an emergency stop the session implements LiveAccount.       *)
THEOREM StopRefinesAccount == EmergencySpec => ImplementsAccount
<1>1. EmergencyInit => Account!Init
  BY AccountInit DEF EmergencyInit
<1>2. /\ StopTypeOK /\ StopInv /\ StopTypeOK' /\ StopInv'
      /\ [EmergencyNext]_emergencyVars
      => [Account!Next]_(Account!vars)
  <2>1. CASE Aside \/ UNCHANGED emergencyVars
    <3>1. UNCHANGED vars
      BY <2>1, AsideApart DEF emergencyVars
    <3> QED BY <3>1, AccountStep DEF StopTypeOK, StopInv
  <2>2. CASE Trades
    BY <2>2, AccountStep DEF Trades, StopTypeOK, StopInv
  <2>3. CASE Touches
    BY <2>3, TouchesRefine
  <2> QED BY <2>1, <2>2, <2>3, Sorted
<1> QED BY <1>1, <1>2, StopInvariance, PTL
        DEF EmergencySpec, ImplementsAccount, Account!Spec
=============================================================================
