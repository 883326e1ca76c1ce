--------------------------- MODULE LiveTradeProofs ---------------------------
(***************************************************************************)
(* What a LIVE session guarantees for every number of threads and orders:  *)
(* its types, one entry's exposure at a time, and that a position is only  *)
(* forgotten once the exchange has none.                                   *)
(***************************************************************************)
EXTENDS LiveTrade, TLAPS

USE ThreadsDistinct, NoneIsNoOrder
USE DEF Threads, Stage, Give, Post, Lose, engineVars, exchangeVars

(* Every step keeps the types. *)
LEMMA TypeStep ==
  ASSUME TypeOK, Sized, [Next]_vars PROVE TypeOK'
<1> USE DEF TypeOK, Stages, EntryStages, CloseStages, Order, Sized, Working,
            Arrived
<1>1. ASSUME NEW t \in Threads, EntryStep(t) PROVE TypeOK'
  <2>1. CASE SizeEntry(t)
    BY <2>1 DEF SizeEntry
  <2>2. CASE CommitEntry(t)
    BY <2>2 DEF CommitEntry
  <2>3. CASE AbandonEntry(t)
    BY <2>3 DEF AbandonEntry
  <2>4. CASE PostEntry(t)
    BY <2>4 DEF PostEntry
  <2>5. CASE RefuseEntry(t)
    BY <2>5 DEF RefuseEntry
  <2>6. CASE EntryAnswered(t)
    BY <2>6 DEF EntryAnswered
  <2>7. CASE EntryLost(t)
    BY <2>7 DEF EntryLost
  <2>8. CASE AdoptPosition(t)
    BY <2>8 DEF AdoptPosition
  <2>9. CASE FetchFails(t)
    BY <2>9 DEF FetchFails
  <2>10. CASE ClearLatch(t)
    BY <2>10 DEF ClearLatch
  <2>11. CASE FinishEntry(t)
    BY <2>11 DEF FinishEntry
  <2> QED BY <1>1, <2>1, <2>2, <2>3, <2>4, <2>5, <2>6, <2>7, <2>8, <2>9,
             <2>10, <2>11
          DEF EntryStep
<1>2. ASSUME NEW t \in Threads, BeginClose(t) \/ CloseStep(t)
      PROVE  TypeOK'
  <2>1. CASE BeginClose(t)
    BY <2>1 DEF BeginClose
  <2>2. CASE ReadPosition(t)
    BY <2>2 DEF ReadPosition
  <2>3. CASE PostClose(t)
    BY <2>3 DEF PostClose
  <2>4. CASE CloseAccepted(t)
    BY <2>4 DEF CloseAccepted
  <2>5. CASE ReconcilePosition(t)
    BY <2>5 DEF ReconcilePosition
  <2>6. CASE ReconcileOrders(t)
    BY <2>6 DEF ReconcileOrders
  <2>7. CASE Unconfirmed(t)
    <3>1. CASE pc[t] = "posted"
      <4>1. Lose(t)
        BY <2>7, <3>1 DEF Unconfirmed
      <4>2. orders' \in [Orders -> Order] /\ sent' \in [Threads -> Orders \cup {None}]
        BY <4>1
      <4> QED BY <2>7, <3>1, <4>1, <4>2 DEF Unconfirmed
    <3>2. CASE pc[t] # "posted"
      BY <2>7, <3>2 DEF Unconfirmed
    <3> QED BY <3>1, <3>2
  <2> QED BY <1>2, <2>1, <2>2, <2>3, <2>4, <2>5, <2>6, <2>7
          DEF CloseStep
<1>3. ASSUME NEW h \in Humans, RequestClose(h) \/ DropClose(h)
      PROVE  TypeOK'
  BY <1>3 DEF RequestClose, DropClose
<1>4. ASSUME NEW o \in Orders, Arrive(o) \/ Fill(o) \/ Cancel(o)
      PROVE  TypeOK'
  <2>1. CASE Arrive(o)
    BY <2>1 DEF Arrive
  <2>2. CASE Fill(o)
    BY <2>2 DEF Fill
  <2>3. CASE Cancel(o)
    BY <2>3 DEF Cancel
  <2> QED BY <1>4, <2>1, <2>2, <2>3
<1>5. CASE CloseOutside
  BY <1>5 DEF CloseOutside
<1>6. CASE UNCHANGED vars
  BY <1>6 DEF vars
<1> QED BY <1>1, <1>2, <1>3, <1>4, <1>5, <1>6 DEF Next, ExchangeStep

(* A thread inside a lock is its only holder. *)
LEMMA LocksStep ==
  ASSUME TypeOK, Locks, [Next]_vars PROVE Locks'
<1> USE DEF TypeOK, Locks, EntryStages, CloseStages
<1>1. ASSUME NEW t \in Threads, EntryStep(t) PROVE Locks'
  <2>1. CASE SizeEntry(t)
    BY <2>1 DEF SizeEntry
  <2>2. CASE CommitEntry(t)
    BY <2>2 DEF CommitEntry
  <2>3. CASE AbandonEntry(t)
    BY <2>3 DEF AbandonEntry
  <2>4. CASE PostEntry(t)
    BY <2>4 DEF PostEntry
  <2>5. CASE RefuseEntry(t)
    BY <2>5 DEF RefuseEntry
  <2>6. CASE EntryAnswered(t)
    BY <2>6 DEF EntryAnswered
  <2>7. CASE EntryLost(t)
    BY <2>7 DEF EntryLost
  <2>8. CASE AdoptPosition(t)
    BY <2>8 DEF AdoptPosition
  <2>9. CASE FetchFails(t)
    BY <2>9 DEF FetchFails
  <2>10. CASE ClearLatch(t)
    BY <2>10 DEF ClearLatch
  <2>11. CASE FinishEntry(t)
    BY <2>11 DEF FinishEntry
  <2> QED BY <1>1, <2>1, <2>2, <2>3, <2>4, <2>5, <2>6, <2>7, <2>8, <2>9,
             <2>10, <2>11
          DEF EntryStep
<1>2. ASSUME NEW t \in Threads, BeginClose(t) \/ CloseStep(t)
      PROVE  Locks'
  <2>1. CASE BeginClose(t)
    BY <2>1 DEF BeginClose
  <2>2. CASE ReadPosition(t)
    BY <2>2 DEF ReadPosition
  <2>3. CASE PostClose(t)
    BY <2>3 DEF PostClose
  <2>4. CASE CloseAccepted(t)
    BY <2>4 DEF CloseAccepted
  <2>5. CASE ReconcilePosition(t)
    BY <2>5 DEF ReconcilePosition
  <2>6. CASE ReconcileOrders(t)
    BY <2>6 DEF ReconcileOrders
  <2>7. CASE Unconfirmed(t)
    BY <2>7 DEF Unconfirmed
  <2> QED BY <1>2, <2>1, <2>2, <2>3, <2>4, <2>5, <2>6, <2>7
          DEF CloseStep
<1>3. ASSUME NEW h \in Humans, RequestClose(h) \/ DropClose(h)
      PROVE  Locks'
  BY <1>3 DEF RequestClose, DropClose
<1>4. ASSUME NEW o \in Orders, Arrive(o) \/ Fill(o) \/ Cancel(o)
      PROVE  Locks'
  <2>1. CASE Arrive(o)
    BY <2>1 DEF Arrive
  <2>2. CASE Fill(o)
    BY <2>2 DEF Fill
  <2>3. CASE Cancel(o)
    BY <2>3 DEF Cancel
  <2> QED BY <1>4, <2>1, <2>2, <2>3
<1>5. CASE CloseOutside
  BY <1>5 DEF CloseOutside
<1>6. CASE UNCHANGED vars
  BY <1>6 DEF vars
<1> QED BY <1>1, <1>2, <1>3, <1>4, <1>5, <1>6 DEF Next, ExchangeStep

(* Only the holder of the close lock writes the quantity. *)
LEMMA SizedStep ==
  ASSUME TypeOK, Locks, Sized, [Next]_vars PROVE Sized'
<1> USE DEF TypeOK, Locks, Sized, EntryStages, CloseStages
<1>1. ASSUME NEW t \in Threads, EntryStep(t) PROVE Sized'
  <2>1. CASE SizeEntry(t)
    BY <2>1 DEF SizeEntry
  <2>2. CASE CommitEntry(t)
    BY <2>2 DEF CommitEntry
  <2>3. CASE AbandonEntry(t)
    BY <2>3 DEF AbandonEntry
  <2>4. CASE PostEntry(t)
    BY <2>4 DEF PostEntry
  <2>5. CASE RefuseEntry(t)
    BY <2>5 DEF RefuseEntry
  <2>6. CASE EntryAnswered(t)
    BY <2>6 DEF EntryAnswered
  <2>7. CASE EntryLost(t)
    BY <2>7 DEF EntryLost
  <2>8. CASE AdoptPosition(t)
    BY <2>8 DEF AdoptPosition
  <2>9. CASE FetchFails(t)
    BY <2>9 DEF FetchFails
  <2>10. CASE ClearLatch(t)
    BY <2>10 DEF ClearLatch
  <2>11. CASE FinishEntry(t)
    BY <2>11 DEF FinishEntry
  <2> QED BY <1>1, <2>1, <2>2, <2>3, <2>4, <2>5, <2>6, <2>7, <2>8, <2>9,
             <2>10, <2>11
          DEF EntryStep
<1>2. ASSUME NEW t \in Threads, BeginClose(t) \/ CloseStep(t)
      PROVE  Sized'
  <2>1. CASE BeginClose(t)
    BY <2>1 DEF BeginClose
  <2>2. CASE ReadPosition(t)
    BY <2>2 DEF ReadPosition
  <2>3. CASE PostClose(t)
    BY <2>3 DEF PostClose
  <2>4. CASE CloseAccepted(t)
    BY <2>4 DEF CloseAccepted
  <2>5. CASE ReconcilePosition(t)
    BY <2>5 DEF ReconcilePosition
  <2>6. CASE ReconcileOrders(t)
    BY <2>6 DEF ReconcileOrders
  <2>7. CASE Unconfirmed(t)
    BY <2>7 DEF Unconfirmed
  <2> QED BY <1>2, <2>1, <2>2, <2>3, <2>4, <2>5, <2>6, <2>7
          DEF CloseStep
<1>3. ASSUME NEW h \in Humans, RequestClose(h) \/ DropClose(h)
      PROVE  Sized'
  BY <1>3 DEF RequestClose, DropClose
<1>4. ASSUME NEW o \in Orders, Arrive(o) \/ Fill(o) \/ Cancel(o)
      PROVE  Sized'
  <2>1. CASE Arrive(o)
    BY <2>1 DEF Arrive
  <2>2. CASE Fill(o)
    BY <2>2 DEF Fill
  <2>3. CASE Cancel(o)
    BY <2>3 DEF Cancel
  <2> QED BY <1>4, <2>1, <2>2, <2>3
<1>5. CASE CloseOutside
  BY <1>5 DEF CloseOutside
<1>6. CASE UNCHANGED vars
  BY <1>6 DEF vars
<1> QED BY <1>1, <1>2, <1>3, <1>4, <1>5, <1>6 DEF Next, ExchangeStep

(* Entries begin without a position, closes with one. *)
LEMMA HoldingStep ==
  ASSUME TypeOK, Locks, Holding, [Next]_vars PROVE Holding'
<1> USE DEF TypeOK, Locks, Holding, EntryStages, CloseStages
<1>1. ASSUME NEW t \in Threads, EntryStep(t) PROVE Holding'
  <2>1. CASE SizeEntry(t)
    BY <2>1 DEF SizeEntry
  <2>2. CASE CommitEntry(t)
    BY <2>2 DEF CommitEntry
  <2>3. CASE AbandonEntry(t)
    BY <2>3 DEF AbandonEntry
  <2>4. CASE PostEntry(t)
    BY <2>4 DEF PostEntry
  <2>5. CASE RefuseEntry(t)
    BY <2>5 DEF RefuseEntry
  <2>6. CASE EntryAnswered(t)
    BY <2>6 DEF EntryAnswered
  <2>7. CASE EntryLost(t)
    BY <2>7 DEF EntryLost
  <2>8. CASE AdoptPosition(t)
    BY <2>8 DEF AdoptPosition
  <2>9. CASE FetchFails(t)
    BY <2>9 DEF FetchFails
  <2>10. CASE ClearLatch(t)
    BY <2>10 DEF ClearLatch
  <2>11. CASE FinishEntry(t)
    BY <2>11 DEF FinishEntry
  <2> QED BY <1>1, <2>1, <2>2, <2>3, <2>4, <2>5, <2>6, <2>7, <2>8, <2>9,
             <2>10, <2>11
          DEF EntryStep
<1>2. ASSUME NEW t \in Threads, BeginClose(t) \/ CloseStep(t)
      PROVE  Holding'
  <2>1. CASE BeginClose(t)
    BY <2>1 DEF BeginClose
  <2>2. CASE ReadPosition(t)
    BY <2>2 DEF ReadPosition
  <2>3. CASE PostClose(t)
    BY <2>3 DEF PostClose
  <2>4. CASE CloseAccepted(t)
    BY <2>4 DEF CloseAccepted
  <2>5. CASE ReconcilePosition(t)
    BY <2>5 DEF ReconcilePosition
  <2>6. CASE ReconcileOrders(t)
    BY <2>6 DEF ReconcileOrders
  <2>7. CASE Unconfirmed(t)
    BY <2>7 DEF Unconfirmed
  <2> QED BY <1>2, <2>1, <2>2, <2>3, <2>4, <2>5, <2>6, <2>7
          DEF CloseStep
<1>3. ASSUME NEW h \in Humans, RequestClose(h) \/ DropClose(h)
      PROVE  Holding'
  BY <1>3 DEF RequestClose, DropClose
<1>4. ASSUME NEW o \in Orders, Arrive(o) \/ Fill(o) \/ Cancel(o)
      PROVE  Holding'
  <2>1. CASE Arrive(o)
    BY <2>1 DEF Arrive
  <2>2. CASE Fill(o)
    BY <2>2 DEF Fill
  <2>3. CASE Cancel(o)
    BY <2>3 DEF Cancel
  <2> QED BY <1>4, <2>1, <2>2, <2>3
<1>5. CASE CloseOutside
  BY <1>5 DEF CloseOutside
<1>6. CASE UNCHANGED vars
  BY <1>6 DEF vars
<1> QED BY <1>1, <1>2, <1>3, <1>4, <1>5, <1>6 DEF Next, ExchangeStep

(* Whoever posted an entry order waits for it. *)
LEMMA AwaitedStep ==
  ASSUME TypeOK, Locks, EntriesAwaited, [Next]_vars PROVE EntriesAwaited'
<1> USE DEF TypeOK, Locks, EntriesAwaited, EntryStages, CloseStages, Order,
            Working, Arrived
<1>1. ASSUME NEW t \in Threads, EntryStep(t) PROVE EntriesAwaited'
  <2>1. CASE SizeEntry(t)
    BY <2>1 DEF SizeEntry
  <2>2. CASE CommitEntry(t)
    BY <2>2 DEF CommitEntry
  <2>3. CASE AbandonEntry(t)
    BY <2>3 DEF AbandonEntry
  <2>4. CASE PostEntry(t)
    BY <2>4 DEF PostEntry
  <2>5. CASE RefuseEntry(t)
    BY <2>5 DEF RefuseEntry
  <2>6. CASE EntryAnswered(t)
    BY <2>6 DEF EntryAnswered
  <2>7. CASE EntryLost(t)
    BY <2>7 DEF EntryLost
  <2>8. CASE AdoptPosition(t)
    BY <2>8 DEF AdoptPosition
  <2>9. CASE FetchFails(t)
    BY <2>9 DEF FetchFails
  <2>10. CASE ClearLatch(t)
    BY <2>10 DEF ClearLatch
  <2>11. CASE FinishEntry(t)
    BY <2>11 DEF FinishEntry
  <2> QED BY <1>1, <2>1, <2>2, <2>3, <2>4, <2>5, <2>6, <2>7, <2>8, <2>9,
             <2>10, <2>11
          DEF EntryStep
<1>2. ASSUME NEW t \in Threads, BeginClose(t) \/ CloseStep(t)
      PROVE  EntriesAwaited'
  <2>1. CASE BeginClose(t)
    BY <2>1 DEF BeginClose
  <2>2. CASE ReadPosition(t)
    BY <2>2 DEF ReadPosition
  <2>3. CASE PostClose(t)
    BY <2>3 DEF PostClose
  <2>4. CASE CloseAccepted(t)
    BY <2>4 DEF CloseAccepted
  <2>5. CASE ReconcilePosition(t)
    BY <2>5 DEF ReconcilePosition
  <2>6. CASE ReconcileOrders(t)
    BY <2>6 DEF ReconcileOrders
  <2>7. CASE Unconfirmed(t)
    BY <2>7 DEF Unconfirmed
  <2> QED BY <1>2, <2>1, <2>2, <2>3, <2>4, <2>5, <2>6, <2>7
          DEF CloseStep
<1>3. ASSUME NEW h \in Humans, RequestClose(h) \/ DropClose(h)
      PROVE  EntriesAwaited'
  BY <1>3 DEF RequestClose, DropClose
<1>4. ASSUME NEW o \in Orders, Arrive(o) \/ Fill(o) \/ Cancel(o)
      PROVE  EntriesAwaited'
  <2>1. CASE Arrive(o)
    BY <2>1 DEF Arrive
  <2>2. CASE Fill(o)
    BY <2>2 DEF Fill
  <2>3. CASE Cancel(o)
    BY <2>3 DEF Cancel
  <2> QED BY <1>4, <2>1, <2>2, <2>3
<1>5. CASE CloseOutside
  BY <1>5 DEF CloseOutside
<1>6. CASE UNCHANGED vars
  BY <1>6 DEF vars
<1> QED BY <1>1, <1>2, <1>3, <1>4, <1>5, <1>6 DEF Next, ExchangeStep

(* An entry order is posted on a flat account with no other one open. *)
LEMMA ExposureStep ==
  ASSUME TypeOK, Locks, EntriesAwaited, OneExposure, [Next]_vars PROVE OneExposure'
<1> USE DEF TypeOK, Locks, EntriesAwaited, OneExposure, NoLateEntry, Open,
            Opens, Working, Arrived, AccountFlat, EntryStages, CloseStages,
            Order
<1>1. ASSUME NEW t \in Threads, EntryStep(t) PROVE OneExposure'
  <2>1. CASE SizeEntry(t)
    BY <2>1 DEF SizeEntry
  <2>2. CASE CommitEntry(t)
    BY <2>2 DEF CommitEntry
  <2>3. CASE AbandonEntry(t)
    BY <2>3 DEF AbandonEntry
  <2>4. CASE PostEntry(t)
    BY <2>4 DEF PostEntry
  <2>5. CASE RefuseEntry(t)
    BY <2>5 DEF RefuseEntry
  <2>6. CASE EntryAnswered(t)
    BY <2>6 DEF EntryAnswered
  <2>7. CASE EntryLost(t)
    BY <2>7 DEF EntryLost
  <2>8. CASE AdoptPosition(t)
    BY <2>8 DEF AdoptPosition
  <2>9. CASE FetchFails(t)
    BY <2>9 DEF FetchFails
  <2>10. CASE ClearLatch(t)
    BY <2>10 DEF ClearLatch
  <2>11. CASE FinishEntry(t)
    BY <2>11 DEF FinishEntry
  <2> QED BY <1>1, <2>1, <2>2, <2>3, <2>4, <2>5, <2>6, <2>7, <2>8, <2>9,
             <2>10, <2>11
          DEF EntryStep
<1>2. ASSUME NEW t \in Threads, BeginClose(t) \/ CloseStep(t)
      PROVE  OneExposure'
  <2>1. CASE BeginClose(t)
    BY <2>1 DEF BeginClose
  <2>2. CASE ReadPosition(t)
    BY <2>2 DEF ReadPosition
  <2>3. CASE PostClose(t)
    BY <2>3 DEF PostClose
  <2>4. CASE CloseAccepted(t)
    BY <2>4 DEF CloseAccepted
  <2>5. CASE ReconcilePosition(t)
    BY <2>5 DEF ReconcilePosition
  <2>6. CASE ReconcileOrders(t)
    BY <2>6 DEF ReconcileOrders
  <2>7. CASE Unconfirmed(t)
    BY <2>7 DEF Unconfirmed
  <2> QED BY <1>2, <2>1, <2>2, <2>3, <2>4, <2>5, <2>6, <2>7
          DEF CloseStep
<1>3. ASSUME NEW h \in Humans, RequestClose(h) \/ DropClose(h)
      PROVE  OneExposure'
  BY <1>3 DEF RequestClose, DropClose
<1>4. ASSUME NEW o \in Orders, Arrive(o) \/ Fill(o) \/ Cancel(o)
      PROVE  OneExposure'
  <2>1. CASE Arrive(o)
    BY <2>1 DEF Arrive
  <2>2. CASE Fill(o)
    BY <2>2 DEF Fill
  <2>3. CASE Cancel(o)
    BY <2>3 DEF Cancel
  <2> QED BY <1>4, <2>1, <2>2, <2>3
<1>5. CASE CloseOutside
  BY <1>5 DEF CloseOutside
<1>6. CASE UNCHANGED vars
  BY <1>6 DEF vars
<1> QED BY <1>1, <1>2, <1>3, <1>4, <1>5, <1>6 DEF Next, ExchangeStep

(* Nothing can fill under a close that has seen the account flat. *)
LEMMA SeenStep ==
  ASSUME TypeOK, Locks, Holding, OneExposure, SeenFlat, [Next]_vars PROVE SeenFlat'
<1> USE DEF TypeOK, Locks, Holding, OneExposure, SeenFlat, NoLateEntry,
            Open, Opens, Working, Arrived, EntryStages, CloseStages, Order
<1>1. ASSUME NEW t \in Threads, EntryStep(t) PROVE SeenFlat'
  <2>1. CASE SizeEntry(t)
    BY <2>1 DEF SizeEntry
  <2>2. CASE CommitEntry(t)
    BY <2>2 DEF CommitEntry
  <2>3. CASE AbandonEntry(t)
    BY <2>3 DEF AbandonEntry
  <2>4. CASE PostEntry(t)
    BY <2>4 DEF PostEntry
  <2>5. CASE RefuseEntry(t)
    BY <2>5 DEF RefuseEntry
  <2>6. CASE EntryAnswered(t)
    BY <2>6 DEF EntryAnswered
  <2>7. CASE EntryLost(t)
    BY <2>7 DEF EntryLost
  <2>8. CASE AdoptPosition(t)
    BY <2>8 DEF AdoptPosition
  <2>9. CASE FetchFails(t)
    BY <2>9 DEF FetchFails
  <2>10. CASE ClearLatch(t)
    BY <2>10 DEF ClearLatch
  <2>11. CASE FinishEntry(t)
    BY <2>11 DEF FinishEntry
  <2> QED BY <1>1, <2>1, <2>2, <2>3, <2>4, <2>5, <2>6, <2>7, <2>8, <2>9,
             <2>10, <2>11
          DEF EntryStep
<1>2. ASSUME NEW t \in Threads, BeginClose(t) \/ CloseStep(t)
      PROVE  SeenFlat'
  <2>1. CASE BeginClose(t)
    BY <2>1 DEF BeginClose
  <2>2. CASE ReadPosition(t)
    BY <2>2 DEF ReadPosition
  <2>3. CASE PostClose(t)
    BY <2>3 DEF PostClose
  <2>4. CASE CloseAccepted(t)
    BY <2>4 DEF CloseAccepted
  <2>5. CASE ReconcilePosition(t)
    BY <2>5 DEF ReconcilePosition
  <2>6. CASE ReconcileOrders(t)
    BY <2>6 DEF ReconcileOrders
  <2>7. CASE Unconfirmed(t)
    BY <2>7 DEF Unconfirmed
  <2> QED BY <1>2, <2>1, <2>2, <2>3, <2>4, <2>5, <2>6, <2>7
          DEF CloseStep
<1>3. ASSUME NEW h \in Humans, RequestClose(h) \/ DropClose(h)
      PROVE  SeenFlat'
  BY <1>3 DEF RequestClose, DropClose
<1>4. ASSUME NEW o \in Orders, Arrive(o) \/ Fill(o) \/ Cancel(o)
      PROVE  SeenFlat'
  <2>1. CASE Arrive(o)
    BY <2>1 DEF Arrive
  <2>2. CASE Fill(o)
    BY <2>2 DEF Fill
  <2>3. CASE Cancel(o)
    BY <2>3 DEF Cancel
  <2> QED BY <1>4, <2>1, <2>2, <2>3
<1>5. CASE CloseOutside
  BY <1>5 DEF CloseOutside
<1>6. CASE UNCHANGED vars
  BY <1>6 DEF vars
<1> QED BY <1>1, <1>2, <1>3, <1>4, <1>5, <1>6 DEF Next, ExchangeStep

(* A session begins right. *)
LEMMA LiveStart == Init => TypeOK /\ LiveInv
<1> SUFFICES ASSUME Init PROVE TypeOK /\ LiveInv
  OBVIOUS
<1>1. Unused \in Order
  BY DEF Unused, Order
<1>2. TypeOK
  BY <1>1 DEF Init, TypeOK, Stages, Unused
<1>3. Locks /\ Holding /\ Sized
  BY DEF Init, Locks, Holding, Sized, EntryStages, CloseStages
<1>4. EntriesAwaited /\ OneExposure /\ SeenFlat
  BY DEF Init, Unused, EntriesAwaited, OneExposure, SeenFlat, NoLateEntry, Opens,
         Open
<1> QED BY <1>2, <1>3, <1>4 DEF LiveInv

(* Every step keeps the types and the inductive invariant. *)
LEMMA LiveStep == TypeOK /\ LiveInv /\ [Next]_vars => TypeOK' /\ LiveInv'
BY TypeStep, LocksStep, SizedStep, HoldingStep, AwaitedStep, ExposureStep,
   SeenStep DEF LiveInv

(* The types and the invariant hold together. *)
THEOREM Invariance == Spec => [](TypeOK /\ LiveInv)
BY LiveStart, LiveStep, PTL DEF Spec

(* Every variable has its type, and no order is posted for nothing.        *)
THEOREM TypeCorrect == Spec => []TypeOK
BY Invariance, PTL

(* The inductive invariant: exclusive locks, awaited entry orders, and      *)
(* closes that nothing can fill under.                                     *)
THEOREM LiveInvariant == Spec => []LiveInv
BY Invariance, PTL

(* The account never has more than one entry's exposure, unless an entry   *)
(* request is lost on the wire.                                            *)
THEOREM SingleExposure == Spec => []OneExposure
<1>1. LiveInv => OneExposure
  BY DEF LiveInv
<1> QED BY <1>1, Invariance, PTL

(* A step that forgets a position finds the exchange without one, and      *)
(* without a working order.                                                *)
LEMMA ForgetStep ==
  ASSUME TypeOK, LiveInv, Next, held, ~held', NoLateEntry
  PROVE  position = 0 /\ \A o \in Orders : ~Working(o)
<1> USE DEF LiveInv
<1>1. ASSUME NEW t \in Threads, EntryStep(t)
      PROVE  FALSE
  BY <1>1 DEF TypeOK, Holding, EntryStep, SizeEntry, CommitEntry, AbandonEntry,
              PostEntry, RefuseEntry, EntryAnswered, EntryLost, AdoptPosition,
              FetchFails, ClearLatch, FinishEntry
<1>2. ASSUME NEW t \in Threads, ReconcileOrders(t)
      PROVE  position = 0 /\ \A o \in Orders : ~Working(o)
  BY <1>2 DEF SeenFlat, ReconcileOrders
<1>3. ASSUME NEW t \in Threads, BeginClose(t) \/ CloseStep(t), ~ReconcileOrders(t)
      PROVE  FALSE
  BY <1>3 DEF BeginClose, CloseStep, ReadPosition, PostClose, CloseAccepted,
              ReconcilePosition, Unconfirmed
<1>4. ASSUME NEW h \in Humans, RequestClose(h) \/ DropClose(h)
      PROVE  FALSE
  BY <1>4 DEF RequestClose, DropClose
<1>5. ASSUME ExchangeStep
      PROVE  FALSE
  BY <1>5 DEF ExchangeStep, Arrive, Fill, Cancel, CloseOutside
<1> QED BY <1>1, <1>2, <1>3, <1>4, <1>5 DEF Next

(* The engine forgets a position only when the exchange has none and no    *)
(* order is left that could change that.                                   *)
THEOREM ForgetsOnlyFlat == Spec => ConfirmedCloseFlat
<1>1. TypeOK /\ LiveInv /\ [Next]_vars =>
        [held /\ ~held' /\ NoLateEntry
         => position = 0 /\ \A o \in Orders : ~Working(o)]_vars
  BY ForgetStep DEF vars, engineVars
<1> QED BY <1>1, Invariance, PTL DEF Spec, ConfirmedCloseFlat

-----------------------------------------------------------------------------
(* The account.                                                            *)

(* What each value of the mapping stands for.                              *)
ExposureIs(x) ==
  IF ~NoLateEntry THEN x = "lost"
  ELSE \/ position = 0 /\ EntriesOpen = {} /\ x = "flat"
       \/ position = 0 /\ EntriesOpen # {} /\ x = "entering"
       \/ position = 1 /\ EntriesOpen = {} /\ x = "exposed"

LEMMA ExposureValue ==
  ASSUME TypeOK, OneExposure PROVE ExposureIs(Exposure)
<1>1. CASE ~NoLateEntry
  BY <1>1 DEF Exposure, ExposureIs
<1>2. CASE NoLateEntry
  <2>1. position = 0 \/ (position = 1 /\ EntriesOpen = {})
    <3>1. position \in Nat /\ position <= 1
      BY <1>2 DEF TypeOK, OneExposure
    <3>2. EntriesOpen # {} => position = 0
      BY <1>2 DEF OneExposure, EntriesOpen
    <3> QED BY <3>1, <3>2
  <2>2. EntriesOpen # {} => \E o \in Orders : EntriesOpen = {o}
    BY <1>2 DEF OneExposure, EntriesOpen
  <2>3. \A o : EntriesOpen = {o} => EntriesOpen # {}
    OBVIOUS
  <2> QED BY <1>2, <2>1, <2>2, <2>3 DEF Exposure, ExposureIs
<1> QED BY <1>1, <1>2

LEMMA ExposureValueNext ==
  ASSUME TypeOK', OneExposure' PROVE ExposureIs(Exposure)'
<1>1. CASE ~NoLateEntry'
  BY <1>1 DEF Exposure, ExposureIs
<1>2. CASE NoLateEntry'
  <2>1. position' = 0 \/ (position' = 1 /\ EntriesOpen' = {})
    <3>1. position' \in Nat /\ position' <= 1
      BY <1>2 DEF TypeOK, OneExposure
    <3>2. EntriesOpen' # {} => position' = 0
      BY <1>2 DEF OneExposure, EntriesOpen
    <3> QED BY <3>1, <3>2
  <2>2. EntriesOpen' # {} => \E o \in Orders : EntriesOpen' = {o}
    BY <1>2 DEF OneExposure, EntriesOpen
  <2>3. \A o : EntriesOpen' = {o} => EntriesOpen' # {}
    OBVIOUS
  <2> QED BY <1>2, <2>1, <2>2, <2>3 DEF Exposure, ExposureIs
<1> QED BY <1>1, <1>2

(* A lost entry stays lost. *)
LEMMA LateStays ==
  ASSUME TypeOK, Next, NoLateEntry' PROVE NoLateEntry
<1> USE DEF TypeOK, Order, NoLateEntry
<1>1. SUFFICES ASSUME NEW o \in Orders, orders[o].kind = "entry", orders[o].late
               PROVE  orders'[o].kind = "entry" /\ orders'[o].late
  OBVIOUS
<1>2. ASSUME NEW t \in Threads, EntryStep(t) \/ BeginClose(t) \/ CloseStep(t)
      PROVE  orders'[o].kind = "entry" /\ orders'[o].late
  <2>1. CASE EntryStep(t)
    BY <1>1, <2>1
       DEF EntryStep, SizeEntry, CommitEntry, AbandonEntry, PostEntry, RefuseEntry,
           EntryAnswered, EntryLost, AdoptPosition, FetchFails, ClearLatch,
           FinishEntry
  <2>2. CASE BeginClose(t) \/ CloseStep(t)
    BY <1>1, <2>2
       DEF BeginClose, CloseStep, ReadPosition, PostClose, CloseAccepted,
           ReconcilePosition, ReconcileOrders, Unconfirmed
  <2> QED BY <1>2, <2>1, <2>2
<1>3. ASSUME NEW h \in Humans, RequestClose(h) \/ DropClose(h)
      PROVE  orders'[o].kind = "entry" /\ orders'[o].late
  BY <1>1, <1>3 DEF RequestClose, DropClose
<1>4. CASE ExchangeStep
  BY <1>1, <1>4 DEF ExchangeStep, Arrive, Fill, Cancel, CloseOutside
<1> QED BY <1>2, <1>3, <1>4 DEF Next

(* An order becomes late only while it is on its way. *)
LEMMA LateWasSent ==
  ASSUME TypeOK, Next, NoLateEntry, ~NoLateEntry'
  PROVE  EntriesOpen # {} /\ held' = held
<1> USE DEF TypeOK, Order, NoLateEntry
<1>1. PICK o \in Orders : orders'[o].kind = "entry" /\ orders'[o].late
  OBVIOUS
<1>2. \E t \in Threads : Lose(t) /\ held' = held
  <2>1. ASSUME NEW t \in Threads, EntryStep(t)
        PROVE  Lose(t) /\ held' = held
    BY <1>1, <2>1
       DEF EntryStep, SizeEntry, CommitEntry, AbandonEntry, PostEntry,
           RefuseEntry, EntryAnswered, EntryLost, AdoptPosition, FetchFails,
           ClearLatch, FinishEntry
  <2>2. ASSUME NEW t \in Threads, BeginClose(t) \/ CloseStep(t)
        PROVE  Lose(t) /\ held' = held
    BY <1>1, <2>2
       DEF BeginClose, CloseStep, ReadPosition, PostClose, CloseAccepted,
           ReconcilePosition, ReconcileOrders, Unconfirmed
  <2>3. ASSUME NEW h \in Humans, RequestClose(h) \/ DropClose(h) PROVE FALSE
    BY <1>1, <2>3 DEF RequestClose, DropClose
  <2>4. CASE ExchangeStep
    BY <1>1, <2>4 DEF ExchangeStep, Arrive, Fill, Cancel, CloseOutside
  <2> QED BY <2>1, <2>2, <2>3, <2>4 DEF Next
<1>3. orders[o].kind = "entry" /\ orders[o].state = "sent"
  BY <1>1, <1>2
<1> QED BY <1>2, <1>3 DEF EntriesOpen, Opens, Open

(* Only PostEntry opens an entry, and without one no position grows. *)
LEMMA BookStep ==
  ASSUME TypeOK, Next, \A t \in Threads : ~PostEntry(t)
  PROVE  /\ EntriesOpen' \subseteq EntriesOpen
         /\ EntriesOpen = {} => position' <= position
<1> USE DEF TypeOK, Order, EntriesOpen, Opens, Open, Working
<1>1. ASSUME NEW t \in Threads, EntryStep(t) \/ BeginClose(t) \/ CloseStep(t)
      PROVE  UNCHANGED position /\ EntriesOpen' \subseteq EntriesOpen
  <2>1. CASE EntryStep(t)
    BY <2>1
       DEF EntryStep, SizeEntry, CommitEntry, AbandonEntry, RefuseEntry,
           EntryAnswered, EntryLost, AdoptPosition, FetchFails, ClearLatch,
           FinishEntry
  <2>2. CASE BeginClose(t) \/ CloseStep(t)
    BY <2>2
       DEF BeginClose, CloseStep, ReadPosition, PostClose, CloseAccepted,
           ReconcilePosition, ReconcileOrders, Unconfirmed
  <2> QED BY <1>1, <2>1, <2>2
<1>2. ASSUME NEW h \in Humans, RequestClose(h) \/ DropClose(h)
      PROVE  UNCHANGED exchangeVars
  BY <1>2 DEF RequestClose, DropClose
<1>3. ASSUME NEW o \in Orders, Arrive(o) \/ Fill(o) \/ Cancel(o)
      PROVE  /\ EntriesOpen' \subseteq EntriesOpen
             /\ EntriesOpen = {} => position' <= position
  <2>1. CASE Arrive(o)
    BY <2>1 DEF Arrive
  <2>2. CASE Fill(o)
    BY <2>2 DEF Fill
  <2>3. CASE Cancel(o)
    BY <2>3 DEF Cancel
  <2> QED BY <1>3, <2>1, <2>2, <2>3
<1>4. CASE CloseOutside
  BY <1>4 DEF CloseOutside
<1> QED BY <1>1, <1>2, <1>3, <1>4 DEF Next, ExchangeStep

(* The engine takes up only a position that is there, and forgets it only  *)
(* on a flat account.                                                      *)
LEMMA BeliefStep ==
  ASSUME TypeOK, LiveInv, Next, NoLateEntry, held' # held
  PROVE  /\ UNCHANGED exchangeVars
         /\ IF held' THEN position > 0 ELSE position = 0 /\ EntriesOpen = {}
<1> USE DEF TypeOK, LiveInv
<1>1. ASSUME NEW t \in Threads, AdoptPosition(t)
      PROVE  UNCHANGED exchangeVars /\ held' /\ position > 0
  BY <1>1 DEF AdoptPosition, Holding
<1>2. ASSUME NEW t \in Threads, ReconcileOrders(t)
      PROVE  /\ UNCHANGED exchangeVars /\ ~held'
             /\ position = 0 /\ EntriesOpen = {}
  BY <1>2 DEF ReconcileOrders, SeenFlat, EntriesOpen
<1>3. ASSUME NEW t \in Threads, EntryStep(t), ~AdoptPosition(t) PROVE FALSE
  BY <1>3 DEF EntryStep, SizeEntry, CommitEntry, AbandonEntry, PostEntry,
              RefuseEntry, EntryAnswered, EntryLost, FetchFails, ClearLatch,
              FinishEntry
<1>4. ASSUME NEW t \in Threads, BeginClose(t) \/ CloseStep(t),
             ~ReconcileOrders(t)
      PROVE  FALSE
  BY <1>4 DEF BeginClose, CloseStep, ReadPosition, PostClose, CloseAccepted,
              ReconcilePosition, Unconfirmed
<1>5. ASSUME NEW h \in Humans, RequestClose(h) \/ DropClose(h) PROVE FALSE
  BY <1>5 DEF RequestClose, DropClose
<1>6. CASE ExchangeStep
  BY <1>6 DEF ExchangeStep, Arrive, Fill, Cancel, CloseOutside
<1> QED BY <1>1, <1>2, <1>3, <1>4, <1>5, <1>6 DEF Next

(* A step that opens no entry, lets no position grow but from an open      *)
(* entry and loses none but an open one moves the account as promised.     *)
LEMMA AccountMoves ==
  ASSUME TypeOK, OneExposure, TypeOK', OneExposure', UNCHANGED held,
         NoLateEntry' => NoLateEntry,
         NoLateEntry /\ ~NoLateEntry' => EntriesOpen # {},
         EntriesOpen' \subseteq EntriesOpen,
         EntriesOpen = {} => position' <= position
  PROVE  [Account!Next]_(Account!vars)
<1> USE DEF Account!Next, Account!vars
<1>1. /\ ExposureIs(Exposure) /\ ExposureIs(Exposure)'
      /\ held \in BOOLEAN /\ position \in Nat /\ position' \in Nat
  BY ExposureValue, ExposureValueNext DEF TypeOK
<1> HIDE DEF Exposure
<1>2. CASE Exposure = "lost"
  BY <1>1, <1>2 DEF ExposureIs, Account!Astray
<1>3. CASE Exposure = "flat"
  BY <1>1, <1>3 DEF ExposureIs
<1>4. CASE Exposure = "entering"
  BY <1>1, <1>4 DEF ExposureIs, Account!Refuse, Account!Open, Account!Lose
<1>5. CASE Exposure = "exposed"
  BY <1>1, <1>5 DEF ExposureIs, Account!Close
<1> QED BY <1>1, <1>2, <1>3, <1>4, <1>5 DEF ExposureIs

(* Every step of the session is one of the account, or none of its         *)
(* business.                                                               *)
LEMMA AccountStep ==
  ASSUME TypeOK, LiveInv, [Next]_vars PROVE [Account!Next]_(Account!vars)
<1> USE DEF Account!Next, Account!vars
<1>1. /\ TypeOK' /\ LiveInv' /\ OneExposure /\ OneExposure'
      /\ held \in BOOLEAN /\ held' \in BOOLEAN
  BY LiveStep DEF TypeOK, LiveInv
<1>2. ExposureIs(Exposure) /\ ExposureIs(Exposure)'
  BY <1>1, ExposureValue, ExposureValueNext
<1> HIDE DEF Exposure
<1>3. CASE UNCHANGED vars
  BY <1>1, <1>3, AccountMoves
     DEF vars, EntriesOpen, Opens, Open, NoLateEntry, TypeOK
<1>4. CASE Next /\ ~NoLateEntry
  BY <1>1, <1>2, <1>4, LateStays DEF ExposureIs, Account!Astray
<1>5. ASSUME NoLateEntry, NEW t \in Threads, PostEntry(t)
      PROVE  Account!Next
  <2>1. /\ position' = 0 /\ position = 0 /\ held' = held /\ ~held
        /\ EntriesOpen' # {} /\ NoLateEntry'
    BY <1>5 DEF PostEntry, AccountFlat, LiveInv, Holding, TypeOK, Order,
                EntriesOpen, Opens, Open, NoLateEntry
  <2>2. EntriesOpen = {}
    BY <1>5 DEF PostEntry, AccountFlat, LiveInv, Locks, EntriesAwaited,
                EntryStages, EntriesOpen, Opens, Open, NoLateEntry, Working
  <2> QED BY <1>2, <1>5, <2>1, <2>2 DEF ExposureIs, Account!Enter
<1>6. CASE Next /\ NoLateEntry /\ held' # held
  <2>1. /\ UNCHANGED exchangeVars
        /\ IF held' THEN position > 0 ELSE position = 0 /\ EntriesOpen = {}
    BY <1>6, BeliefStep
  <2>2. Exposure' = Exposure
    BY <2>1 DEF Exposure, NoLateEntry, EntriesOpen, Opens, Open
  <2> QED BY <1>1, <1>2, <1>6, <2>1, <2>2
          DEF ExposureIs, Account!Believe, Account!Forget
<1>7. CASE /\ Next /\ NoLateEntry /\ held' = held
           /\ \A t \in Threads : ~PostEntry(t)
  BY <1>1, <1>7, BookStep, LateWasSent, AccountMoves
<1> QED BY <1>3, <1>4, <1>5, <1>6, <1>7

LEMMA AccountInit ==
  ASSUME Init PROVE Account!Init
BY DEF Init, Unused, Account!Init, Exposure, EntriesOpen, Opens, Open,
       NoLateEntry

(* The session implements LiveAccount: one entry after the other, for any  *)
(* number of threads and orders, whatever answer or fetch fails.           *)
THEOREM TradeRefinesAccount == Spec => ImplementsAccount
BY AccountInit, AccountStep, Invariance, PTL
   DEF Spec, ImplementsAccount, Account!Spec
=============================================================================
