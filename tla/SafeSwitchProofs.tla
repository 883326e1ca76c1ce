-------------------------- MODULE SafeSwitchProofs --------------------------
(***************************************************************************)
(* What the safe symbol switch guarantees for every number of transactions *)
(* and restarts: its types, one owner for the pause, a running feed behind *)
(* the accepted updates, and that it implements SymbolAuthority.           *)
(***************************************************************************)
EXTENDS SafeSwitch, TLAPS

USE RuntimesDistinct
USE DEF Go, Runtimes, Started, TellFeedToStop, BeforeEngineSymbol,
        transactionVars, lockVars, symbolVars, botVars, feedVars, startVars

(* Every step keeps the types. *)
LEMMA TypeStep ==
  ASSUME TypeOK, [Next]_vars PROVE TypeOK'
<1> USE DEF TypeOK, Phases, FeedAfterStop
<1>1. ASSUME NEW n \in Transactions, NEW symbol \in Symbols,
             Propose(n, symbol)
      PROVE  TypeOK'
  BY <1>1 DEF Propose
<1>2. ASSUME NEW n \in Transactions, NEW quiet \in BOOLEAN,
             TransactionStep(n, quiet)
      PROVE  TypeOK'
  <2>1. CASE Revalidate(n, quiet)
    BY <2>1 DEF Revalidate
  <2>2. CASE PauseEntries(n)
    <3>1. CASE switchOwner = None
      BY <2>2, <3>1 DEF PauseEntries
    <3>2. CASE switchOwner # None
      BY <2>2, <3>2 DEF PauseEntries
    <3> QED BY <3>1, <3>2
  <2>3. CASE PrepareFeed(n)
    BY <2>3 DEF PrepareFeed
  <2>4. CASE PrepareFeedFails(n)
    BY <2>4 DEF PrepareFeedFails
  <2>5. CASE Refuse(n)
    BY <2>5 DEF Refuse
  <2>6. CASE CommitActiveSymbol(n)
    <3>1. phase' \in [Transactions -> Phases]
      BY <2>6 DEF CommitActiveSymbol
    <3>2. /\ activeSymbol' \in Symbols
          /\ activeRuntime' \in Runtimes \cup {None}
          /\ ws' \in Runtimes \cup {None}
      BY <2>6 DEF CommitActiveSymbol
    <3>3. torn' \subseteq {"engine", "feed"}
      BY <2>6 DEF CommitActiveSymbol, Overtakes
    <3> QED BY <2>6, <3>1, <3>2, <3>3 DEF CommitActiveSymbol
  <2>7. CASE SyncDownstream(n)
    BY <2>7 DEF SyncDownstream
  <2>8. CASE SyncFails(n)
    BY <2>8 DEF SyncFails
  <2>9. CASE CleanupOldFeed(n)
    BY <2>9 DEF CleanupOldFeed
  <2>10. CASE CleanupOldFeedFails(n)
    BY <2>10 DEF CleanupOldFeedFails
  <2>11. CASE CleanupNewFeed(n)
    BY <2>11 DEF CleanupNewFeed
  <2>12. CASE ResumeEntries(n)
    <3>1. phase' \in [Transactions -> Phases]
      BY <2>12 DEF ResumeEntries
    <3>2. /\ switchOwner' \in Transactions \cup {None}
          /\ symbolSwitchPaused' \in BOOLEAN
      BY <2>12 DEF ResumeEntries
    <3> QED BY <2>12, <3>1, <3>2 DEF ResumeEntries
  <2> QED BY <1>2, <2>1, <2>2, <2>3, <2>4, <2>5, <2>6,
             <2>7, <2>8, <2>9, <2>10, <2>11, <2>12
          DEF TransactionStep
<1>3. CASE BeginStop
  BY <1>3 DEF BeginStop
<1>4. CASE DropFeed
  <2>1. ws' \in Runtimes \cup {None}
    BY <1>4 DEF DropFeed
  <2> QED BY <1>4, <2>1 DEF DropFeed
<1>5. CASE FinishStop
  BY <1>5 DEF FinishStop
<1>6. CASE Start
  <2>1. ASSUME NEW id \in Sessions, NEW symbol \in Symbols,
               SetActiveSymbol(id, symbol)
        PROVE  TypeOK'
    BY <2>1 DEF SetActiveSymbol
  <2>2. CASE MakeBook
    BY <2>2 DEF MakeBook
  <2>3. CASE MakeEngine
    BY <2>3 DEF MakeEngine
  <2>4. CASE SetEngineSymbol
    BY <2>4 DEF SetEngineSymbol
  <2>5. CASE SetRuntime
    BY <2>5 DEF SetRuntime
  <2>6. CASE MakeFeed
    BY <2>6 DEF MakeFeed
  <2>7. CASE HoldFeed
    BY <2>7 DEF HoldFeed
  <2>8. CASE StartFeed
    BY <2>8 DEF StartFeed
  <2>9. CASE Run
    BY <2>9 DEF Run
  <2>10. CASE StartFails
    BY <2>10 DEF StartFails
  <2> QED BY <1>6, <2>1, <2>2, <2>3, <2>4, <2>5, <2>6, <2>7, <2>8, <2>9,
             <2>10 DEF Start
<1>7. ASSUME NEW r \in Runtimes, AcceptUpdate(r) \/ PublishUpdate(r)
      PROVE  TypeOK'
  <2>1. CASE AcceptUpdate(r)
    BY <1>7, <2>1 DEF AcceptUpdate
  <2>2. CASE PublishUpdate(r)
    <3>1. marketSymbol' \in Symbols \cup {"absent", "empty"}
      BY <1>7, <2>2 DEF PublishUpdate
    <3> QED BY <1>7, <2>2, <3>1 DEF PublishUpdate
  <2> QED BY <1>7, <2>1, <2>2
<1>8. CASE UNCHANGED vars
  BY <1>8 DEF vars
<1> QED BY <1>1, <1>2, <1>3, <1>4, <1>5, <1>6, <1>7, <1>8 DEF Next

(* Only the owner of the lock is inside the pause, and leaves it alone.  *)
LEMMA PauseStep ==
  ASSUME TypeOK, SwitchInv, [Next]_vars PROVE PauseOwned'
<1> USE DEF TypeOK, SwitchInv, PauseOwned, Paused, Committed
<1>1. ASSUME NEW n \in Transactions, NEW symbol \in Symbols,
             Propose(n, symbol)
      PROVE  PauseOwned'
  BY <1>1 DEF Propose
<1>2. ASSUME NEW n \in Transactions, NEW quiet \in BOOLEAN,
             TransactionStep(n, quiet)
      PROVE  PauseOwned'
  <2>1. CASE Revalidate(n, quiet)
    BY <2>1 DEF Revalidate
  <2>2. CASE PauseEntries(n)
    BY <2>2 DEF PauseEntries
  <2>3. CASE PrepareFeed(n)
    BY <2>3 DEF PrepareFeed
  <2>4. CASE PrepareFeedFails(n)
    BY <2>4 DEF PrepareFeedFails
  <2>5. CASE Refuse(n)
    BY <2>5 DEF Refuse
  <2>6. CASE CommitActiveSymbol(n)
    BY <2>6 DEF CommitActiveSymbol, Overtakes
  <2>7. CASE SyncDownstream(n)
    BY <2>7 DEF SyncDownstream
  <2>8. CASE SyncFails(n)
    BY <2>8 DEF SyncFails
  <2>9. CASE CleanupOldFeed(n)
    BY <2>9 DEF CleanupOldFeed
  <2>10. CASE CleanupOldFeedFails(n)
    BY <2>10 DEF CleanupOldFeedFails
  <2>11. CASE CleanupNewFeed(n)
    BY <2>11 DEF CleanupNewFeed
  <2>12. CASE ResumeEntries(n)
    BY <2>12 DEF ResumeEntries
  <2> QED BY <1>2, <2>1, <2>2, <2>3, <2>4, <2>5, <2>6,
             <2>7, <2>8, <2>9, <2>10, <2>11, <2>12
          DEF TransactionStep
<1>3. CASE BeginStop
  BY <1>3 DEF BeginStop
<1>4. CASE DropFeed
  BY <1>4 DEF DropFeed
<1>5. CASE FinishStop
  BY <1>5 DEF FinishStop
<1>6. CASE Start
  <2>1. ASSUME NEW id \in Sessions, NEW symbol \in Symbols,
               SetActiveSymbol(id, symbol)
        PROVE  PauseOwned'
    BY <2>1 DEF SetActiveSymbol
  <2>2. CASE MakeBook
    BY <2>2 DEF MakeBook
  <2>3. CASE MakeEngine
    BY <2>3 DEF MakeEngine
  <2>4. CASE SetEngineSymbol
    BY <2>4 DEF SetEngineSymbol
  <2>5. CASE SetRuntime
    BY <2>5 DEF SetRuntime
  <2>6. CASE MakeFeed
    BY <2>6 DEF MakeFeed
  <2>7. CASE HoldFeed
    BY <2>7 DEF HoldFeed
  <2>8. CASE StartFeed
    BY <2>8 DEF StartFeed
  <2>9. CASE Run
    BY <2>9 DEF Run
  <2>10. CASE StartFails
    BY <2>10 DEF StartFails
  <2> QED BY <1>6, <2>1, <2>2, <2>3, <2>4, <2>5, <2>6, <2>7, <2>8, <2>9,
             <2>10 DEF Start
<1>7. ASSUME NEW r \in Runtimes, AcceptUpdate(r) \/ PublishUpdate(r)
      PROVE  PauseOwned'
  BY <1>7 DEF AcceptUpdate, PublishUpdate
<1>8. CASE UNCHANGED vars
  BY <1>8 DEF vars
<1> QED BY <1>1, <1>2, <1>3, <1>4, <1>5, <1>6, <1>7, <1>8 DEF Next

(* A proposal's symbols are set once: a restart changes sessions' only.  *)
LEMMA ProposalStep ==
  ASSUME TypeOK, SwitchInv, [Next]_vars PROVE ProposalMoves'
<1> USE DEF TypeOK, SwitchInv, ProposalMoves, Running
<1>1. ASSUME NEW n \in Transactions, NEW symbol \in Symbols,
             Propose(n, symbol)
      PROVE  ProposalMoves'
  BY <1>1 DEF Propose
<1>2. ASSUME NEW n \in Transactions, NEW quiet \in BOOLEAN,
             TransactionStep(n, quiet)
      PROVE  ProposalMoves'
  <2>1. CASE Revalidate(n, quiet)
    BY <2>1 DEF Revalidate
  <2>2. CASE PauseEntries(n)
    BY <2>2 DEF PauseEntries
  <2>3. CASE PrepareFeed(n)
    BY <2>3 DEF PrepareFeed
  <2>4. CASE PrepareFeedFails(n)
    BY <2>4 DEF PrepareFeedFails
  <2>5. CASE Refuse(n)
    BY <2>5 DEF Refuse
  <2>6. CASE CommitActiveSymbol(n)
    BY <2>6 DEF CommitActiveSymbol, Overtakes
  <2>7. CASE SyncDownstream(n)
    BY <2>7 DEF SyncDownstream
  <2>8. CASE SyncFails(n)
    BY <2>8 DEF SyncFails
  <2>9. CASE CleanupOldFeed(n)
    BY <2>9 DEF CleanupOldFeed
  <2>10. CASE CleanupOldFeedFails(n)
    BY <2>10 DEF CleanupOldFeedFails
  <2>11. CASE CleanupNewFeed(n)
    BY <2>11 DEF CleanupNewFeed
  <2>12. CASE ResumeEntries(n)
    BY <2>12 DEF ResumeEntries
  <2> QED BY <1>2, <2>1, <2>2, <2>3, <2>4, <2>5, <2>6,
             <2>7, <2>8, <2>9, <2>10, <2>11, <2>12
          DEF TransactionStep
<1>3. CASE BeginStop
  BY <1>3 DEF BeginStop
<1>4. CASE DropFeed
  BY <1>4 DEF DropFeed
<1>5. CASE FinishStop
  BY <1>5 DEF FinishStop
<1>6. CASE Start
  <2>1. ASSUME NEW id \in Sessions, NEW symbol \in Symbols,
               SetActiveSymbol(id, symbol)
        PROVE  ProposalMoves'
    BY <2>1 DEF SetActiveSymbol
  <2>2. CASE MakeBook
    BY <2>2 DEF MakeBook
  <2>3. CASE MakeEngine
    BY <2>3 DEF MakeEngine
  <2>4. CASE SetEngineSymbol
    BY <2>4 DEF SetEngineSymbol
  <2>5. CASE SetRuntime
    BY <2>5 DEF SetRuntime
  <2>6. CASE MakeFeed
    BY <2>6 DEF MakeFeed
  <2>7. CASE HoldFeed
    BY <2>7 DEF HoldFeed
  <2>8. CASE StartFeed
    BY <2>8 DEF StartFeed
  <2>9. CASE Run
    BY <2>9 DEF Run
  <2>10. CASE StartFails
    BY <2>10 DEF StartFails
  <2> QED BY <1>6, <2>1, <2>2, <2>3, <2>4, <2>5, <2>6, <2>7, <2>8, <2>9,
             <2>10 DEF Start
<1>7. ASSUME NEW r \in Runtimes, AcceptUpdate(r) \/ PublishUpdate(r)
      PROVE  ProposalMoves'
  BY <1>7 DEF AcceptUpdate, PublishUpdate
<1>8. CASE UNCHANGED vars
  BY <1>8 DEF vars
<1> QED BY <1>1, <1>2, <1>3, <1>4, <1>5, <1>6, <1>7, <1>8 DEF Next

(* Between the synchronisation and the resume only a restart changes the  *)
(* active symbol, and it gives the engine the symbol it chose.             *)
LEMMA SynchronisedStep ==
  ASSUME TypeOK, SwitchInv, [Next]_vars PROVE Synchronised'
<1> USE DEF TypeOK, SwitchInv, Synchronised, PauseOwned, Paused, Committed,
        StartGoesOn
<1>1. ASSUME NEW n \in Transactions, NEW symbol \in Symbols,
             Propose(n, symbol)
      PROVE  Synchronised'
  BY <1>1 DEF Propose
<1>2. ASSUME NEW n \in Transactions, NEW quiet \in BOOLEAN,
             TransactionStep(n, quiet)
      PROVE  Synchronised'
  <2>1. CASE Revalidate(n, quiet)
    BY <2>1 DEF Revalidate
  <2>2. CASE PauseEntries(n)
    BY <2>2 DEF PauseEntries
  <2>3. CASE PrepareFeed(n)
    BY <2>3 DEF PrepareFeed
  <2>4. CASE PrepareFeedFails(n)
    BY <2>4 DEF PrepareFeedFails
  <2>5. CASE Refuse(n)
    BY <2>5 DEF Refuse
  <2>6. CASE CommitActiveSymbol(n)
    BY <2>6 DEF CommitActiveSymbol, Overtakes
  <2>7. CASE SyncDownstream(n)
    BY <2>7 DEF SyncDownstream
  <2>8. CASE SyncFails(n)
    BY <2>8 DEF SyncFails
  <2>9. CASE CleanupOldFeed(n)
    BY <2>9 DEF CleanupOldFeed
  <2>10. CASE CleanupOldFeedFails(n)
    BY <2>10 DEF CleanupOldFeedFails
  <2>11. CASE CleanupNewFeed(n)
    BY <2>11 DEF CleanupNewFeed
  <2>12. CASE ResumeEntries(n)
    BY <2>12 DEF ResumeEntries
  <2> QED BY <1>2, <2>1, <2>2, <2>3, <2>4, <2>5, <2>6,
             <2>7, <2>8, <2>9, <2>10, <2>11, <2>12
          DEF TransactionStep
<1>3. CASE BeginStop
  BY <1>3 DEF BeginStop
<1>4. CASE DropFeed
  BY <1>4 DEF DropFeed
<1>5. CASE FinishStop
  BY <1>5 DEF FinishStop
<1>6. CASE Start
  <2>1. ASSUME NEW id \in Sessions, NEW symbol \in Symbols,
               SetActiveSymbol(id, symbol)
        PROVE  Synchronised'
    BY <2>1 DEF SetActiveSymbol
  <2>2. CASE MakeBook
    BY <2>2 DEF MakeBook
  <2>3. CASE MakeEngine
    BY <2>3 DEF MakeEngine
  <2>4. CASE SetEngineSymbol
    BY <2>4 DEF SetEngineSymbol
  <2>5. CASE SetRuntime
    BY <2>5 DEF SetRuntime
  <2>6. CASE MakeFeed
    BY <2>6 DEF MakeFeed
  <2>7. CASE HoldFeed
    BY <2>7 DEF HoldFeed
  <2>8. CASE StartFeed
    BY <2>8 DEF StartFeed
  <2>9. CASE Run
    BY <2>9 DEF Run
  <2>10. CASE StartFails
    BY <2>10 DEF StartFails
  <2> QED BY <1>6, <2>1, <2>2, <2>3, <2>4, <2>5, <2>6, <2>7, <2>8, <2>9,
             <2>10 DEF Start
<1>7. ASSUME NEW r \in Runtimes, AcceptUpdate(r) \/ PublishUpdate(r)
      PROVE  Synchronised'
  BY <1>7 DEF AcceptUpdate, PublishUpdate
<1>8. CASE UNCHANGED vars
  BY <1>8 DEF vars
<1> QED BY <1>1, <1>2, <1>3, <1>4, <1>5, <1>6, <1>7, <1>8 DEF Next

(* Nobody stops a transaction's feed before its commit: it is not the     *)
(* manager's yet, nor another's previous feed.                             *)
LEMMA FeedOwnedStep ==
  ASSUME TypeOK, SwitchInv, [Next]_vars PROVE FeedOwned'
<1> USE DEF TypeOK, SwitchInv, FeedOwned, PreviousApart, PauseOwned, Paused,
        Committed, Settled, NotPrepared, FeedAfterStop
<1>1. ASSUME NEW n \in Transactions, NEW symbol \in Symbols,
             Propose(n, symbol)
      PROVE  FeedOwned'
  BY <1>1 DEF Propose
<1>2. ASSUME NEW n \in Transactions, NEW quiet \in BOOLEAN,
             TransactionStep(n, quiet)
      PROVE  FeedOwned'
  <2>1. CASE Revalidate(n, quiet)
    BY <2>1 DEF Revalidate
  <2>2. CASE PauseEntries(n)
    BY <2>2 DEF PauseEntries
  <2>3. CASE PrepareFeed(n)
    BY <2>3 DEF PrepareFeed
  <2>4. CASE PrepareFeedFails(n)
    BY <2>4 DEF PrepareFeedFails
  <2>5. CASE Refuse(n)
    BY <2>5 DEF Refuse
  <2>6. CASE CommitActiveSymbol(n)
    BY <2>6 DEF CommitActiveSymbol, Overtakes
  <2>7. CASE SyncDownstream(n)
    BY <2>7 DEF SyncDownstream
  <2>8. CASE SyncFails(n)
    BY <2>8 DEF SyncFails
  <2>9. CASE CleanupOldFeed(n)
    BY <2>9 DEF CleanupOldFeed
  <2>10. CASE CleanupOldFeedFails(n)
    BY <2>10 DEF CleanupOldFeedFails
  <2>11. CASE CleanupNewFeed(n)
    BY <2>11 DEF CleanupNewFeed
  <2>12. CASE ResumeEntries(n)
    BY <2>12 DEF ResumeEntries
  <2> QED BY <1>2, <2>1, <2>2, <2>3, <2>4, <2>5, <2>6,
             <2>7, <2>8, <2>9, <2>10, <2>11, <2>12
          DEF TransactionStep
<1>3. CASE BeginStop
  BY <1>3 DEF BeginStop
<1>4. CASE DropFeed
  BY <1>4 DEF DropFeed
<1>5. CASE FinishStop
  BY <1>5 DEF FinishStop
<1>6. CASE Start
  <2>1. ASSUME NEW id \in Sessions, NEW symbol \in Symbols,
               SetActiveSymbol(id, symbol)
        PROVE  FeedOwned'
    BY <2>1 DEF SetActiveSymbol
  <2>2. CASE MakeBook
    BY <2>2 DEF MakeBook
  <2>3. CASE MakeEngine
    BY <2>3 DEF MakeEngine
  <2>4. CASE SetEngineSymbol
    BY <2>4 DEF SetEngineSymbol
  <2>5. CASE SetRuntime
    BY <2>5 DEF SetRuntime
  <2>6. CASE MakeFeed
    BY <2>6 DEF MakeFeed
  <2>7. CASE HoldFeed
    BY <2>7 DEF HoldFeed
  <2>8. CASE StartFeed
    BY <2>8 DEF StartFeed
  <2>9. CASE Run
    BY <2>9 DEF Run
  <2>10. CASE StartFails
    BY <2>10 DEF StartFails
  <2> QED BY <1>6, <2>1, <2>2, <2>3, <2>4, <2>5, <2>6, <2>7, <2>8, <2>9,
             <2>10 DEF Start
<1>7. ASSUME NEW r \in Runtimes, AcceptUpdate(r) \/ PublishUpdate(r)
      PROVE  FeedOwned'
  BY <1>7 DEF AcceptUpdate, PublishUpdate
<1>8. CASE UNCHANGED vars
  BY <1>8 DEF vars
<1> QED BY <1>1, <1>2, <1>3, <1>4, <1>5, <1>6, <1>7, <1>8 DEF Next

(* The feed a transaction will stop was there before its own, so neither  *)
(* the transaction nor a later session owns it.                            *)
LEMMA PreviousStep ==
  ASSUME TypeOK, SwitchInv, [Next]_vars PROVE PreviousApart'
<1> USE DEF TypeOK, SwitchInv, FeedOwned, PreviousApart, PauseOwned, Paused,
        Committed, Settled, NotPrepared, FeedAfterStop, StartGoesOn
<1>1. ASSUME NEW n \in Transactions, NEW symbol \in Symbols,
             Propose(n, symbol)
      PROVE  PreviousApart'
  BY <1>1 DEF Propose
<1>2. ASSUME NEW n \in Transactions, NEW quiet \in BOOLEAN,
             TransactionStep(n, quiet)
      PROVE  PreviousApart'
  <2>1. CASE Revalidate(n, quiet)
    BY <2>1 DEF Revalidate
  <2>2. CASE PauseEntries(n)
    BY <2>2 DEF PauseEntries
  <2>3. CASE PrepareFeed(n)
    BY <2>3 DEF PrepareFeed
  <2>4. CASE PrepareFeedFails(n)
    BY <2>4 DEF PrepareFeedFails
  <2>5. CASE Refuse(n)
    BY <2>5 DEF Refuse
  <2>6. CASE CommitActiveSymbol(n)
    BY <2>6 DEF CommitActiveSymbol, Overtakes
  <2>7. CASE SyncDownstream(n)
    BY <2>7 DEF SyncDownstream
  <2>8. CASE SyncFails(n)
    BY <2>8 DEF SyncFails
  <2>9. CASE CleanupOldFeed(n)
    BY <2>9 DEF CleanupOldFeed
  <2>10. CASE CleanupOldFeedFails(n)
    BY <2>10 DEF CleanupOldFeedFails
  <2>11. CASE CleanupNewFeed(n)
    BY <2>11 DEF CleanupNewFeed
  <2>12. CASE ResumeEntries(n)
    BY <2>12 DEF ResumeEntries
  <2> QED BY <1>2, <2>1, <2>2, <2>3, <2>4, <2>5, <2>6,
             <2>7, <2>8, <2>9, <2>10, <2>11, <2>12
          DEF TransactionStep
<1>3. CASE BeginStop
  BY <1>3 DEF BeginStop
<1>4. CASE DropFeed
  BY <1>4 DEF DropFeed
<1>5. CASE FinishStop
  BY <1>5 DEF FinishStop
<1>6. CASE Start
  <2>1. ASSUME NEW id \in Sessions, NEW symbol \in Symbols,
               SetActiveSymbol(id, symbol)
        PROVE  PreviousApart'
    BY <2>1 DEF SetActiveSymbol
  <2>2. CASE MakeBook
    BY <2>2 DEF MakeBook
  <2>3. CASE MakeEngine
    BY <2>3 DEF MakeEngine
  <2>4. CASE SetEngineSymbol
    BY <2>4 DEF SetEngineSymbol
  <2>5. CASE SetRuntime
    BY <2>5 DEF SetRuntime
  <2>6. CASE MakeFeed
    BY <2>6 DEF MakeFeed
  <2>7. CASE HoldFeed
    BY <2>7 DEF HoldFeed
  <2>8. CASE StartFeed
    BY <2>8 DEF StartFeed
  <2>9. CASE Run
    BY <2>9 DEF Run
  <2>10. CASE StartFails
    BY <2>10 DEF StartFails
  <2> QED BY <1>6, <2>1, <2>2, <2>3, <2>4, <2>5, <2>6, <2>7, <2>8, <2>9,
             <2>10 DEF Start
<1>7. ASSUME NEW r \in Runtimes, AcceptUpdate(r) \/ PublishUpdate(r)
      PROVE  PreviousApart'
  BY <1>7 DEF AcceptUpdate, PublishUpdate
<1>8. CASE UNCHANGED vars
  BY <1>8 DEF vars
<1> QED BY <1>1, <1>2, <1>3, <1>4, <1>5, <1>6, <1>7, <1>8 DEF Next

(* start() goes by what it has written, until a commit or a stop overtakes *)
(* it.                                                                     *)
LEMMA StartStep ==
  ASSUME TypeOK, SwitchInv, [Next]_vars PROVE StartGoesOn'
<1> USE DEF TypeOK, SwitchInv, StartGoesOn, FeedHeld, FeedOwned,
        PreviousApart, Settled, NotPrepared, FeedAfterStop, BeforeFeed
<1>1. ASSUME NEW n \in Transactions, NEW symbol \in Symbols,
             Propose(n, symbol)
      PROVE  StartGoesOn'
  BY <1>1 DEF Propose
<1>2. ASSUME NEW n \in Transactions, NEW quiet \in BOOLEAN,
             TransactionStep(n, quiet)
      PROVE  StartGoesOn'
  <2>1. CASE Revalidate(n, quiet)
    BY <2>1 DEF Revalidate
  <2>2. CASE PauseEntries(n)
    BY <2>2 DEF PauseEntries
  <2>3. CASE PrepareFeed(n)
    BY <2>3 DEF PrepareFeed
  <2>4. CASE PrepareFeedFails(n)
    BY <2>4 DEF PrepareFeedFails
  <2>5. CASE Refuse(n)
    BY <2>5 DEF Refuse
  <2>6. CASE CommitActiveSymbol(n)
    BY <2>6 DEF CommitActiveSymbol, Overtakes
  <2>7. CASE SyncDownstream(n)
    BY <2>7 DEF SyncDownstream
  <2>8. CASE SyncFails(n)
    BY <2>8 DEF SyncFails
  <2>9. CASE CleanupOldFeed(n)
    BY <2>9 DEF CleanupOldFeed
  <2>10. CASE CleanupOldFeedFails(n)
    BY <2>10 DEF CleanupOldFeedFails
  <2>11. CASE CleanupNewFeed(n)
    BY <2>11 DEF CleanupNewFeed
  <2>12. CASE ResumeEntries(n)
    BY <2>12 DEF ResumeEntries
  <2> QED BY <1>2, <2>1, <2>2, <2>3, <2>4, <2>5, <2>6,
             <2>7, <2>8, <2>9, <2>10, <2>11, <2>12
          DEF TransactionStep
<1>3. CASE BeginStop
  BY <1>3 DEF BeginStop
<1>4. CASE DropFeed
  BY <1>4 DEF DropFeed
<1>5. CASE FinishStop
  BY <1>5 DEF FinishStop
<1>6. CASE Start
  <2>1. ASSUME NEW id \in Sessions, NEW symbol \in Symbols,
               SetActiveSymbol(id, symbol)
        PROVE  StartGoesOn'
    BY <2>1 DEF SetActiveSymbol
  <2>2. CASE MakeBook
    BY <2>2 DEF MakeBook
  <2>3. CASE MakeEngine
    BY <2>3 DEF MakeEngine
  <2>4. CASE SetEngineSymbol
    BY <2>4 DEF SetEngineSymbol
  <2>5. CASE SetRuntime
    BY <2>5 DEF SetRuntime
  <2>6. CASE MakeFeed
    BY <2>6 DEF MakeFeed
  <2>7. CASE HoldFeed
    BY <2>7 DEF HoldFeed
  <2>8. CASE StartFeed
    BY <2>8 DEF StartFeed
  <2>9. CASE Run
    BY <2>9 DEF Run
  <2>10. CASE StartFails
    BY <2>10 DEF StartFails
  <2> QED BY <1>6, <2>1, <2>2, <2>3, <2>4, <2>5, <2>6, <2>7, <2>8, <2>9,
             <2>10 DEF Start
<1>7. ASSUME NEW r \in Runtimes, AcceptUpdate(r) \/ PublishUpdate(r)
      PROVE  StartGoesOn'
  BY <1>7 DEF AcceptUpdate, PublishUpdate
<1>8. CASE UNCHANGED vars
  BY <1>8 DEF vars
<1> QED BY <1>1, <1>2, <1>3, <1>4, <1>5, <1>6, <1>7, <1>8 DEF Next

(* No cleanup stops the authoritative feed while the bot runs.            *)
LEMMA FeedStep ==
  ASSUME TypeOK, SwitchInv, [Next]_vars PROVE AuthoritativeFeedRuns'
<1> USE DEF TypeOK, SwitchInv, AuthoritativeFeedRuns, FeedHeld, FeedOwned,
        PreviousApart, StartGoesOn, Settled, FeedAfterStop, BeforeFeed
<1>1. ASSUME NEW n \in Transactions, NEW symbol \in Symbols,
             Propose(n, symbol)
      PROVE  AuthoritativeFeedRuns'
  BY <1>1 DEF Propose
<1>2. ASSUME NEW n \in Transactions, NEW quiet \in BOOLEAN,
             TransactionStep(n, quiet)
      PROVE  AuthoritativeFeedRuns'
  <2>1. CASE Revalidate(n, quiet)
    BY <2>1 DEF Revalidate
  <2>2. CASE PauseEntries(n)
    BY <2>2 DEF PauseEntries
  <2>3. CASE PrepareFeed(n)
    BY <2>3 DEF PrepareFeed
  <2>4. CASE PrepareFeedFails(n)
    BY <2>4 DEF PrepareFeedFails
  <2>5. CASE Refuse(n)
    BY <2>5 DEF Refuse
  <2>6. CASE CommitActiveSymbol(n)
    BY <2>6 DEF CommitActiveSymbol, Overtakes
  <2>7. CASE SyncDownstream(n)
    BY <2>7 DEF SyncDownstream
  <2>8. CASE SyncFails(n)
    BY <2>8 DEF SyncFails
  <2>9. CASE CleanupOldFeed(n)
    BY <2>9 DEF CleanupOldFeed
  <2>10. CASE CleanupOldFeedFails(n)
    BY <2>10 DEF CleanupOldFeedFails
  <2>11. CASE CleanupNewFeed(n)
    BY <2>11 DEF CleanupNewFeed
  <2>12. CASE ResumeEntries(n)
    BY <2>12 DEF ResumeEntries
  <2> QED BY <1>2, <2>1, <2>2, <2>3, <2>4, <2>5, <2>6,
             <2>7, <2>8, <2>9, <2>10, <2>11, <2>12
          DEF TransactionStep
<1>3. CASE BeginStop
  BY <1>3 DEF BeginStop
<1>4. CASE DropFeed
  BY <1>4 DEF DropFeed
<1>5. CASE FinishStop
  BY <1>5 DEF FinishStop
<1>6. CASE Start
  <2>1. ASSUME NEW id \in Sessions, NEW symbol \in Symbols,
               SetActiveSymbol(id, symbol)
        PROVE  AuthoritativeFeedRuns'
    BY <2>1 DEF SetActiveSymbol
  <2>2. CASE MakeBook
    BY <2>2 DEF MakeBook
  <2>3. CASE MakeEngine
    BY <2>3 DEF MakeEngine
  <2>4. CASE SetEngineSymbol
    BY <2>4 DEF SetEngineSymbol
  <2>5. CASE SetRuntime
    BY <2>5 DEF SetRuntime
  <2>6. CASE MakeFeed
    BY <2>6 DEF MakeFeed
  <2>7. CASE HoldFeed
    BY <2>7 DEF HoldFeed
  <2>8. CASE StartFeed
    BY <2>8 DEF StartFeed
  <2>9. CASE Run
    BY <2>9 DEF Run
  <2>10. CASE StartFails
    BY <2>10 DEF StartFails
  <2> QED BY <1>6, <2>1, <2>2, <2>3, <2>4, <2>5, <2>6, <2>7, <2>8, <2>9,
             <2>10 DEF Start
<1>7. ASSUME NEW r \in Runtimes, AcceptUpdate(r) \/ PublishUpdate(r)
      PROVE  AuthoritativeFeedRuns'
  BY <1>7 DEF AcceptUpdate, PublishUpdate
<1>8. CASE UNCHANGED vars
  BY <1>8 DEF vars
<1> QED BY <1>1, <1>2, <1>3, <1>4, <1>5, <1>6, <1>7, <1>8 DEF Next
-----------------------------------------------------------------------------
(* The theorems.                                                           *)

(* The initial states have their types and satisfy the invariant. *)
LEMMA SwitchInvInit ==
  ASSUME Init PROVE TypeOK /\ SwitchInv
<1>1. PICK first \in Sessions, symbol \in Symbols : Init!(first, symbol)
  BY DEF Init
<1>2. TypeOK
  BY <1>1 DEF TypeOK, Phases
<1>3. SwitchInv
  BY <1>1 DEF SwitchInv, PauseOwned, Paused, Committed, AuthoritativeFeedRuns,
     FeedHeld, ProposalMoves, Running, FeedOwned, NotPrepared, Settled,
     PreviousApart, Synchronised, StartGoesOn, BeforeFeed
<1> QED BY <1>2, <1>3

(* Every variable keeps its type. *)
THEOREM TypeCorrect == Spec => []TypeOK
<1>1. Init => TypeOK
  BY SwitchInvInit
<1>2. TypeOK /\ [Next]_vars => TypeOK'
  BY TypeStep
<1> QED BY <1>1, <1>2, PTL DEF Spec

(* The invariant the other results rest on: one owner of the pause, and    *)
(* one feed for each transaction that is neither stopped under it nor      *)
(* given away before its commit.                                           *)
THEOREM SwitchInvariant == Spec => []SwitchInv
<1>1. Init => SwitchInv
  BY SwitchInvInit
<1>2. TypeOK /\ SwitchInv /\ [Next]_vars => SwitchInv'
  BY PauseStep, ProposalStep, SynchronisedStep, FeedOwnedStep, PreviousStep,
     StartStep, FeedStep DEF SwitchInv
<1> QED BY <1>1, <1>2, TypeCorrect, PTL DEF Spec

(* Entries are paused exactly while one transaction owes a resume or must  *)
(* never resume, however many transactions race and however the bot is     *)
(* stopped and restarted among them.                                       *)
THEOREM PauseNeverStrays == Spec => []PauseOwned
<1>1. SwitchInv => PauseOwned
  BY DEF SwitchInv
<1> QED BY <1>1, SwitchInvariant, PTL

(* The feed whose updates the bot accepts is running, carries the active   *)
(* symbol and is the one stop() would stop.                                *)
THEOREM FeedAuthority == Spec => []AuthoritativeFeedRuns
<1>1. SwitchInv => AuthoritativeFeedRuns
  BY DEF SwitchInv
<1> QED BY <1>1, SwitchInvariant, PTL

(* Entries, without the CASE. *)
LEMMA EntriesValue ==
  /\ switchOwner = None => Entries = "open"
  /\ switchOwner # None =>
       /\ phase[switchOwner] = "halted" => Entries = "blocked"
       /\ phase[switchOwner] \in {"syncing", "cleanup", "resuming"}
            => Entries = "moved"
       /\ phase[switchOwner] \notin Committed => Entries = "paused"
  BY DEF Entries, Committed

(* A restart as the authority sees it, without the CASE. *)
LEMMA RestartValue ==
  /\ "engine" \in torn => Restart = "torn"
  /\ "engine" \notin torn /\ starting \in BeforeEngineSymbol
       => Restart = "begun"
  /\ "engine" \notin torn /\ starting \notin BeforeEngineSymbol
       => Restart = "none"
  BY DEF Restart

LEMMA RestartValueNext ==
  /\ "engine" \in torn' => Restart' = "torn"
  /\ "engine" \notin torn' /\ starting' \in BeforeEngineSymbol
       => Restart' = "begun"
  /\ "engine" \notin torn' /\ starting' \notin BeforeEngineSymbol
       => Restart' = "none"
  BY DEF Restart

(* A step of a transaction is a step of the authority, or none.            *)
LEMMA TransactionRefines ==
  ASSUME TypeOK, SwitchInv, NEW n \in Transactions, NEW quiet \in BOOLEAN,
         TransactionStep(n, quiet)
  PROVE  [Authority!Next]_(Authority!vars)
<1> USE DEF TypeOK, SwitchInv, PauseOwned, Paused, Committed
<1>0. /\ switchOwner' = None => Entries' = "open"
      /\ switchOwner' # None =>
           /\ phase'[switchOwner'] = "halted" => Entries' = "blocked"
           /\ phase'[switchOwner'] \in {"syncing", "cleanup", "resuming"}
                => Entries' = "moved"
           /\ phase'[switchOwner'] \notin Committed => Entries' = "paused"
  BY DEF Entries
<1> USE EntriesValue, <1>0
<1> USE DEF Authority!vars
<1>r. ASSUME UNCHANGED <<torn, starting>> PROVE Restart' = Restart
  BY <1>r, RestartValue, RestartValueNext
<1>1. CASE Revalidate(n, quiet)
  BY <1>1, <1>r DEF Revalidate
<1>2. CASE PauseEntries(n)
  BY <1>2, <1>r DEF PauseEntries, Authority!Next, Authority!Pause
<1>3. CASE PrepareFeed(n) \/ PrepareFeedFails(n) \/ Refuse(n)
  BY <1>3, <1>r DEF PrepareFeed, PrepareFeedFails, Refuse
<1>4. CASE CommitActiveSymbol(n)
  BY <1>4, RestartValue, RestartValueNext
     DEF CommitActiveSymbol, Overtakes, ProposalMoves, Running,
         Authority!Next, Authority!Move
<1>5. CASE SyncDownstream(n)
  BY <1>5, <1>r DEF SyncDownstream, Authority!Next, Authority!Follow
<1>6. CASE SyncFails(n)
  BY <1>6, <1>r DEF SyncFails, Authority!Next, Authority!Block
<1>7. CASE CleanupOldFeed(n) \/ CleanupNewFeed(n)
  BY <1>7, <1>r DEF CleanupOldFeed, CleanupNewFeed
<1>8. CASE CleanupOldFeedFails(n)
  BY <1>8, <1>r DEF CleanupOldFeedFails, Authority!Next, Authority!Block
<1>9. CASE ResumeEntries(n)
  BY <1>9, <1>r, RestartValue
     DEF ResumeEntries, Synchronised, Authority!Next, Authority!Reopen,
         Authority!Cancel
<1> QED BY <1>1, <1>2, <1>3, <1>4, <1>5, <1>6, <1>7, <1>8, <1>9
        DEF TransactionStep

(* A step of start() is a step of a restart, or is not seen. *)
LEMMA StartRefines ==
  ASSUME TypeOK, SwitchInv, Start
  PROVE  [Authority!Next]_(Authority!vars)
<1> USE DEF TypeOK, Authority!vars
<1> USE RestartValue, RestartValueNext
<1>e. ASSUME UNCHANGED <<phase, switchOwner>>
      PROVE  Entries' = Entries
  BY <1>e DEF Entries
<1>1. ASSUME NEW id \in Sessions, NEW symbol \in Symbols,
             SetActiveSymbol(id, symbol)
      PROVE  Authority!BeginRestart
  BY <1>1, <1>e DEF SetActiveSymbol, Authority!BeginRestart
<1>2. CASE MakeEngine
  BY <1>2, <1>e DEF MakeEngine, Authority!Next, Authority!Rebuild
<1>3. CASE SetEngineSymbol
  <2>1. CASE "engine" \in torn
    BY <1>3, <1>e, <2>1 DEF SetEngineSymbol, Authority!Next, Authority!Rebuild
  <2>2. CASE "engine" \notin torn
    BY <1>3, <1>e, <2>2 DEF SetEngineSymbol, SwitchInv, StartGoesOn,
       Authority!Next, Authority!EndRestart
  <2> QED BY <2>1, <2>2
<1>4. CASE MakeBook \/ SetRuntime \/ MakeFeed \/ HoldFeed \/ StartFeed \/ Run
  BY <1>4, <1>e DEF MakeBook, SetRuntime, MakeFeed, HoldFeed, StartFeed, Run
<1>5. CASE StartFails
  BY <1>5, <1>e DEF StartFails, Authority!Next, Authority!FailRestart
<1> QED BY <1>1, <1>2, <1>3, <1>4, <1>5 DEF Start, Authority!Next

(* The switch implements the symbol authority: the active symbol changes   *)
(* once in a pause or at a restart, and entries reopen on it.              *)
THEOREM SwitchRefinesAuthority == Spec => ImplementsAuthority
<1>1. Init => Authority!Init
  BY EntriesValue, RestartValue DEF Init, Authority!Init
<1>2. TypeOK /\ SwitchInv /\ [Next]_vars => [Authority!Next]_(Authority!vars)
  <2> SUFFICES ASSUME TypeOK, SwitchInv, [Next]_vars
               PROVE  [Authority!Next]_(Authority!vars)
    OBVIOUS
  <2> USE DEF Authority!vars
  <2>1. ASSUME UNCHANGED <<phase, switchOwner>>
        PROVE  Entries' = Entries
    BY <2>1 DEF Entries
  <2>8. ASSUME UNCHANGED starting,
               torn' = torn \/ torn' = torn \cup {"feed"}
        PROVE  Restart' = Restart
    BY <2>8, RestartValue, RestartValueNext
  <2>2. ASSUME NEW n \in Transactions, NEW symbol \in Symbols,
               Propose(n, symbol)
        PROVE  [Authority!Next]_(Authority!vars)
    <3>1. UNCHANGED <<switchOwner, activeSymbol, engineSymbol>>
      BY <2>2 DEF Propose
    <3>2. switchOwner # n
      BY <2>2 DEF Propose, SwitchInv, PauseOwned, Paused, Committed
    <3>3. switchOwner # None => phase'[switchOwner] = phase[switchOwner]
      BY <2>2, <3>2 DEF Propose, TypeOK
    <3>4. Entries' = Entries
      BY <3>1, <3>3 DEF Entries
    <3>5. Restart' = Restart
      BY <2>2, <2>8 DEF Propose
    <3> QED BY <3>1, <3>4, <3>5
  <2>3. ASSUME NEW n \in Transactions, NEW quiet \in BOOLEAN,
               TransactionStep(n, quiet)
        PROVE  [Authority!Next]_(Authority!vars)
    BY <2>3, TransactionRefines
  <2>4. CASE BeginStop \/ DropFeed \/ FinishStop
    BY <2>1, <2>8, <2>4 DEF BeginStop, DropFeed, FinishStop
  <2>5. CASE Start
    BY <2>5, StartRefines
  <2>6. ASSUME NEW r \in Runtimes, AcceptUpdate(r) \/ PublishUpdate(r)
        PROVE  [Authority!Next]_(Authority!vars)
    BY <2>1, <2>8, <2>6 DEF AcceptUpdate, PublishUpdate
  <2>7. CASE UNCHANGED vars
    BY <2>1, <2>8, <2>7 DEF vars
  <2> QED BY <2>2, <2>3, <2>4, <2>5, <2>6, <2>7 DEF Next, Authority!Next
<1> QED BY <1>1, <1>2, TypeCorrect, SwitchInvariant, PTL
        DEF Spec, ImplementsAuthority, Authority!Spec
=============================================================================
