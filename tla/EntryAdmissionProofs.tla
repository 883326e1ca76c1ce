------------------------ MODULE EntryAdmissionProofs ------------------------
(***************************************************************************)
(* What EntryAdmission guarantees for every set of threads, requests and   *)
(* symbols and every bound: its types, that an order in flight and the     *)
(* position it opens belong to the side that holds execution control, and  *)
(* that a request acts once at most and is answered truthfully.            *)
(***************************************************************************)
EXTENDS EntryAdmission, SequenceTheorems, TLAPS

USE ThreadsDistinct, NoRequestDistinct, BoundsNatural

(* _record_manual_trade keeps a well-typed ledger within its limit, whether *)
(* or not it has to drop the oldest record.                                *)
LEMMA RecordAnswerTyped ==
  ASSUME ledger \in Seq(Answer), Len(ledger) <= LedgerLimit,
         effects \in [RequestIds -> Nat],
         NEW r \in Request, NEW o \in {"DENIED", "ENTERED", "CLOSED"},
         RecordAnswer(r, o)
  PROVE  /\ ledger' \in Seq(Answer) /\ Len(ledger') <= LedgerLimit
         /\ effects' \in [RequestIds -> Nat]
<1> DEFINE e == [request |-> r, outcome |-> o]
           kept == IF Len(ledger) >= LedgerLimit THEN Tail(ledger) ELSE ledger
<1>1. e \in Answer
  BY DEF Answer
<1>2. kept \in Seq(Answer) /\ Len(kept) + 1 <= LedgerLimit
  <2>1. CASE Len(ledger) >= LedgerLimit
    <3>1. ledger # <<>>
      BY <2>1
    <3>2. Tail(ledger) \in Seq(Answer) /\ Len(Tail(ledger)) = Len(ledger) - 1
      BY <3>1, HeadTailProperties
    <3> QED BY <2>1, <3>2, LenProperties
  <2>2. CASE ~(Len(ledger) >= LedgerLimit)
    BY <2>2, LenProperties
  <2> QED BY <2>1, <2>2
<1>3. ledger' = Append(kept, e)
  BY DEF RecordAnswer
<1> HIDE DEF e, kept
<1>4. ledger' \in Seq(Answer) /\ Len(ledger') = Len(kept) + 1
  BY <1>1, <1>2, <1>3, AppendProperties
<1>5. effects' \in [RequestIds -> Nat]
  BY DEF RecordAnswer
<1> QED BY <1>2, <1>4, <1>5

-----------------------------------------------------------------------------
(* Types: one lemma for each kind of step.                                 *)

USE DEF Owners, Sides, Free, Threads, Stages, Stage, controlVars,
        admissionVars, feedVars, clientVars, operatorVars, engineVars,
        symbolVars

(* FLAT is a position value. *)
LEMMA NoPositionTyped == NoPosition \in Position
  BY DEF NoPosition, Position

(* The steps of engine.try_entry keep the types. *)
LEMMA TryEntryTyped ==
  ASSUME TypeOK, NEW t \in Threads, TryEntry(t) PROVE TypeOK'
<1>1. CASE Authorize(t)
  BY <1>1 DEF TypeOK, Authorize
<1>2. CASE CommitEntry(t)
  <2>1. reservation' \in Reservation
    <3>1. reservation \in Reservation /\ engineSymbol \in Symbols
      BY DEF TypeOK
    <3>2. reservation' = [reservation EXCEPT !.orderSymbol = engineSymbol]
      BY <1>2 DEF CommitEntry
    <3> QED BY <3>1, <3>2 DEF Reservation
  <2> QED BY <1>2, <2>1 DEF TypeOK, CommitEntry
<1>3. CASE AbandonEntry(t)
  BY <1>3 DEF TypeOK, AbandonEntry
<1>4. CASE FillEntry(t)
  <2>1. position' \in Position /\ opened' \in 0..MaxPositions
    <3>1. reservation \in Reservation /\ opened \in 0..MaxPositions
      BY DEF TypeOK
    <3>2. opened < MaxPositions /\ opened' = opened + 1
          /\ position' = [id |-> opened + 1, side |-> reservation.side,
                          owner |-> reservation.source,
                          request |-> reservation.request,
                          symbol |-> reservation.orderSymbol]
      BY <1>4 DEF FillEntry
    <3>3. opened + 1 \in 0..MaxPositions
      BY <3>1, <3>2
    <3> QED BY <3>1, <3>2, <3>3 DEF Position, Reservation
  <2>2. effects' \in [RequestIds -> Nat]
    <3>1. reservation.request \in RequestIds \cup {NoRequest}
      BY DEF TypeOK, Reservation
    <3>2. effects \in [RequestIds -> Nat]
      BY DEF TypeOK
    <3>3. effects' = IF reservation.request = NoRequest THEN effects
                     ELSE [effects EXCEPT ![reservation.request] = @ + 1]
      BY <1>4 DEF FillEntry
    <3> QED BY <3>1, <3>2, <3>3
  <2> QED BY <1>4, <2>1, <2>2 DEF TypeOK, FillEntry
<1>5. CASE RejectEntry(t)
  BY <1>5 DEF TypeOK, RejectEntry
<1> QED BY <1>1, <1>2, <1>3, <1>4, <1>5 DEF TryEntry

(* The feed callback's steps keep the types. *)
LEMMA BotStepTyped ==
  ASSUME TypeOK, BotStep PROVE TypeOK'
<1>1. CASE ObserveMarket
  BY <1>1 DEF TypeOK, ObserveMarket
<1>2. CASE ReserveBotEntry
  BY <1>2 DEF TypeOK, ReserveBotEntry, NewReservation, Reservation
<1>3. ASSUME NEW side \in Sides, DecideBotEntry(side) PROVE TypeOK'
  <2>1. reservation' \in Reservation
    <3>1. reservation \in Reservation
      BY DEF TypeOK
    <3>2. reservation' = [reservation EXCEPT !.side = side]
      BY <1>3 DEF DecideBotEntry
    <3> QED BY <3>1, <3>2 DEF Reservation
  <2> QED BY <1>3, <2>1 DEF TypeOK, DecideBotEntry
<1>4. CASE TryEntry(WsThread)
  BY <1>4, TryEntryTyped
<1>5. CASE EndBotAdmission
  BY <1>5 DEF TypeOK, EndBotAdmission, NoReservation, Reservation
<1>6. ASSUME NEW exit \in BOOLEAN, OnPrice(exit) PROVE TypeOK'
  <2>1. position' \in Position /\ pendingOrder' \in BOOLEAN
    BY <1>6, NoPositionTyped DEF TypeOK, OnPrice
  <2>2. lastClose' \in Close
    <3>1. position.id \in 0..MaxPositions
      BY DEF TypeOK, Position
    <3> QED BY <1>6, <3>1 DEF TypeOK, OnPrice, Close
  <2> QED BY <1>6, <2>1, <2>2 DEF TypeOK, OnPrice
<1> QED BY <1>1, <1>2, <1>3, <1>4, <1>5, <1>6 DEF BotStep

(* The steps of a manual request keep the types. *)
LEMMA HumanStepTyped ==
  ASSUME TypeOK, NEW h \in Humans, HumanStep(h) PROVE TypeOK'
<1> USE DEF Reservation
<1>0. request[h] \in Request
  BY DEF TypeOK
<1>1. ASSUME NEW id \in RequestIds, NEW action \in Sides,
             Submit(h, id, action)
      PROVE  TypeOK'
  <2>1. request' \in [Humans -> Request]
    <3> DEFINE r == [id |-> id, action |-> action,
                     revision |-> controlRevision, symbol |-> activeSymbol,
                     expectedPosition |-> position.id,
                     shownSide |-> position.side]
    <3>1. r \in Request
      BY DEF TypeOK, Request, Position
    <3>2. request' = [request EXCEPT ![h] = r]
      BY <1>1 DEF Submit
    <3>3. request \in [Humans -> Request]
      BY DEF TypeOK
    <3> HIDE DEF r
    <3> QED BY <3>1, <3>2, <3>3
  <2> QED BY <1>1, <2>1 DEF TypeOK, Submit
<1>2. CASE Resend(h)
  BY <1>2 DEF TypeOK, Resend
<1>3. CASE AnswerRecorded(h)
  BY <1>3 DEF TypeOK, AnswerRecorded
<1>4. CASE Deny(h)
  <2>1. /\ ledger' \in Seq(Answer) /\ Len(ledger') <= LedgerLimit
        /\ effects' \in [RequestIds -> Nat]
    BY <1>0, <1>4, RecordAnswerTyped DEF TypeOK, Deny
  <2> QED BY <1>4, <2>1 DEF TypeOK, Deny
<1>5. CASE ReserveManualEntry(h)
  BY <1>0, <1>5 DEF TypeOK, ReserveManualEntry, NewReservation, Request
<1>6. CASE DecideManualEntry(h)
  <2>1. reservation' \in Reservation
    <3>1. /\ reservation \in Reservation
          /\ request[h].action \in Sides \cup {"NONE"}
      BY <1>0 DEF TypeOK, Request
    <3>2. reservation' = [reservation EXCEPT !.side = request[h].action]
      BY <1>6 DEF DecideManualEntry
    <3> QED BY <3>1, <3>2 DEF Reservation
  <2> QED BY <1>6, <2>1 DEF TypeOK, DecideManualEntry
<1>7. CASE TryEntry(h)
  BY <1>7, TryEntryTyped
<1>8. CASE SettleManualEntry(h)
  <2>1. /\ ledger' \in Seq(Answer) /\ Len(ledger') <= LedgerLimit
        /\ effects' \in [RequestIds -> Nat]
    BY <1>0, <1>8, RecordAnswerTyped DEF TypeOK, SettleManualEntry
  <2> QED BY <1>8, <2>1 DEF TypeOK, SettleManualEntry, NoReservation
<1>9. CASE ReserveManualClose(h)
  BY <1>9 DEF TypeOK, ReserveManualClose, Position
<1>10. CASE ManualClose(h)
  <2>1. effects' \in [RequestIds -> Nat]
    BY <1>10 DEF TypeOK, ManualClose
  <2>2. position' \in Position /\ pendingOrder' \in BOOLEAN
    BY <1>10, NoPositionTyped DEF TypeOK, ManualClose
  <2>3. lastClose' \in Close
    <3>1. position.id \in 0..MaxPositions
      BY DEF TypeOK, Position
    <3> QED BY <1>10, <3>1 DEF TypeOK, ManualClose, Close
  <2> QED BY <1>10, <2>1, <2>2, <2>3 DEF TypeOK, ManualClose
<1>11. CASE ManualCloseRaises(h)
  BY <1>11 DEF TypeOK, ManualCloseRaises
<1>12. CASE SettleManualClose(h)
  <2>1. /\ ledger' \in Seq(Answer) /\ Len(ledger') <= LedgerLimit
        /\ effects' \in [RequestIds -> Nat]
    BY <1>0, <1>12, RecordAnswerTyped DEF TypeOK, SettleManualClose
  <2> QED BY <1>12, <2>1 DEF TypeOK, SettleManualClose
<1> QED BY <1>1, <1>2, <1>3, <1>4, <1>5, <1>6, <1>7, <1>8, <1>9, <1>10, <1>11,
           <1>12 DEF HumanStep

(* The operator's handlers keep the types. *)
LEMMA OperatorStepTyped ==
  ASSUME TypeOK, OperatorStep PROVE TypeOK'
<1>1. ASSUME NEW authority \in Owners, SetExecutionControl(authority)
      PROVE  TypeOK'
  BY <1>1 DEF TypeOK, SetExecutionControl
<1>2. CASE StartLoop \/ StopLoop
  BY <1>2 DEF TypeOK, StartLoop, StopLoop
<1>3. CASE CheckEnable \/ WriteEnable \/ DisableExecution
  BY <1>3 DEF TypeOK, CheckEnable, WriteEnable, DisableExecution
<1>4. CASE EmergencyStop \/ EmergencyUnlock
  BY <1>4 DEF TypeOK, EmergencyStop, EmergencyUnlock
<1> QED BY <1>1, <1>2, <1>3, <1>4 DEF OperatorStep

LEMMA TypeInit ==
  ASSUME Init PROVE TypeOK
<1>1. reservation \in Reservation
  BY DEF Init, NoReservation, Reservation
<1>2. position \in Position
  BY NoPositionTyped DEF Init
<1>3. request \in [Humans -> Request]
  <2>1. NoRequestSent \in Request
    BY DEF NoRequestSent, Request
  <2> QED BY <2>1 DEF Init
<1>4. ledger \in Seq(Answer) /\ Len(ledger) <= LedgerLimit
  BY EmptySeq DEF Init
<1>5. lastClose \in Close
  BY DEF Init, Close
<1>6. effects \in [RequestIds -> Nat] /\ pc \in [Threads -> Stages]
  BY DEF Init
<1>7. /\ controlAuthority \in Owners /\ controlRevision \in 0..MaxRevision
      /\ priced \in 0..MaxPositions /\ opened \in 0..MaxPositions
      /\ closeReservation \in 0..MaxPositions
  BY DEF Init
<1>8. /\ observed \in Symbols /\ activeSymbol \in Symbols
      /\ engineSymbol \in Symbols
      /\ lockHolder \in Threads \cup {Free}
      /\ lifecycleState \in {"RUNNING", "STOPPED"}
      /\ loopState \in {"RUNNING", "STOPPED"}
      /\ emergencyState \in {"READY", "ACTION_REQUIRED"}
  BY DEF Init
<1>9. /\ executionEnabled \in BOOLEAN /\ enablePending \in BOOLEAN
      /\ pendingOrder \in BOOLEAN /\ symbolSwitchPaused \in BOOLEAN
  BY DEF Init
<1> QED
  BY <1>1, <1>2, <1>3, <1>4, <1>5, <1>6, <1>7, <1>8, <1>9 DEF TypeOK

LEMMA TypeStep ==
  ASSUME TypeOK, [Next]_vars PROVE TypeOK'
<1>1. TypeOK /\ UNCHANGED vars => TypeOK'
  BY DEF TypeOK, vars
<1> QED BY <1>1, BotStepTyped, HumanStepTyped, OperatorStepTyped DEF Next

(* Every variable keeps its type, and the ledger its limit, in every run.  *)
THEOREM TypeCorrect == Spec => []TypeOK
BY TypeInit, TypeStep, PTL DEF Spec

-----------------------------------------------------------------------------
(* The admission invariant.                                                *)

(* A step that leaves alone what the invariant reads keeps it. *)
LEMMA AdmissionFrame ==
  ASSUME AdmissionInv,
         UNCHANGED <<pc, lockHolder, reservation, controlVars, request,
                     ledger, position>>
  PROVE  AdmissionInv'
BY DEF AdmissionInv, LockExclusive, AuthorityHeld, RequestUnanswered,
       OwnerInControl, Recorded, Flat, NoPosition

(* A thread outside the lock that stays outside disturbs nothing. *)
LEMMA OutsideStep ==
  ASSUME TypeOK, AdmissionInv, NEW t \in Threads,
         pc[t] \notin LockedStages,
         NEW to \in Stages \ LockedStages, pc' = [pc EXCEPT ![t] = to],
         UNCHANGED <<lockHolder, reservation, controlVars>>,
         UNCHANGED position \/ position' = NoPosition,
         \/ UNCHANGED <<request, ledger>>
         \/ /\ t \in Humans
            /\ UNCHANGED ledger
            /\ \A h \in Humans \ {t} : request'[h] = request[h]
         \/ lockHolder = Free
  PROVE  AdmissionInv'
<1> USE DEF LockedStages, EntryStages
<1>1. \A u \in Threads : pc'[u] = IF u = t THEN to ELSE pc[u]
  BY DEF TypeOK
<1>2. LockExclusive'
  BY <1>1 DEF AdmissionInv, LockExclusive
<1>3. AuthorityHeld'
  BY <1>1 DEF AdmissionInv, AuthorityHeld
<1>4. RequestUnanswered'
  <2>1. CASE lockHolder = Free
    <3>1. \A u \in Threads : pc[u] \notin LockedStages
      BY <2>1 DEF AdmissionInv, LockExclusive
    <3> QED BY <1>1, <3>1 DEF RequestUnanswered
  <2>2. CASE UNCHANGED <<request, ledger>>
    BY <1>1, <2>2 DEF AdmissionInv, RequestUnanswered, Recorded
  <2>3. CASE /\ t \in Humans
             /\ UNCHANGED ledger
             /\ \A h \in Humans \ {t} : request'[h] = request[h]
    BY <1>1, <2>3 DEF AdmissionInv, RequestUnanswered, Recorded
  <2> QED BY <2>1, <2>2, <2>3
<1>5. OwnerInControl'
  BY DEF AdmissionInv, OwnerInControl, Flat, NoPosition
<1> QED BY <1>2, <1>3, <1>4, <1>5 DEF AdmissionInv

(* A thread that takes the free lock with a request nobody has answered,   *)
(* and writes the reservation of that request, establishes the invariant.  *)
LEMMA LockStep ==
  ASSUME TypeOK, AdmissionInv, NEW t \in Threads, lockHolder = Free,
         NEW to \in {"reserved", "closing"},
         pc' = [pc EXCEPT ![t] = to], lockHolder' = t,
         UNCHANGED <<controlVars, position, request, ledger>>,
         t \in Humans => ~Recorded(request[t].id),
         to = "reserved" =>
           reservation'.request = IF t = WsThread THEN NoRequest
                                  ELSE request[t].id
  PROVE  AdmissionInv'
<1> USE DEF LockedStages, EntryStages
<1>1. \A u \in Threads : pc'[u] = IF u = t THEN to ELSE pc[u]
  BY DEF TypeOK
<1>2. \A u \in Threads : pc[u] \notin LockedStages
  BY DEF AdmissionInv, LockExclusive
<1>3. LockExclusive'
  BY <1>1, <1>2 DEF LockExclusive
<1>4. AuthorityHeld'
  BY <1>1, <1>2 DEF AuthorityHeld
<1>5. RequestUnanswered'
  BY <1>1, <1>2 DEF RequestUnanswered, Recorded
<1>6. OwnerInControl'
  BY DEF AdmissionInv, OwnerInControl, Flat, NoPosition
<1> QED BY <1>3, <1>4, <1>5, <1>6 DEF AdmissionInv

(* A thread that gives the lock back leaves nobody inside. *)
LEMMA UnlockStep ==
  ASSUME TypeOK, AdmissionInv, NEW t \in Threads, pc[t] \in LockedStages,
         NEW to \in Stages \ LockedStages, pc' = [pc EXCEPT ![t] = to],
         lockHolder' = Free, UNCHANGED <<controlVars, position>>
  PROVE  AdmissionInv'
<1> USE DEF LockedStages, EntryStages
<1>1. \A u \in Threads : pc'[u] = IF u = t THEN to ELSE pc[u]
  BY DEF TypeOK
<1>2. \A u \in Threads \ {t} : pc[u] \notin LockedStages
  BY DEF AdmissionInv, LockExclusive
<1>3. \A u \in Threads : pc'[u] \notin LockedStages
  BY <1>1, <1>2
<1>4. LockExclusive' /\ AuthorityHeld' /\ RequestUnanswered'
  BY <1>3 DEF LockExclusive, AuthorityHeld, RequestUnanswered
<1>5. OwnerInControl'
  BY DEF AdmissionInv, OwnerInControl, Flat, NoPosition
<1> QED BY <1>4, <1>5 DEF AdmissionInv

(* The holder of the lock moves on, keeping its reservation's source,      *)
(* revision and request, and leaves a position its own side owns.          *)
LEMMA HolderStep ==
  ASSUME TypeOK, AdmissionInv, NEW t \in Threads, pc[t] \in LockedStages,
         NEW to \in LockedStages, pc' = [pc EXCEPT ![t] = to],
         UNCHANGED <<lockHolder, controlVars, request, ledger>>,
         reservation'.source = reservation.source,
         reservation'.revision = reservation.revision,
         reservation'.request = reservation.request,
         to \in EntryStages => pc[t] \in EntryStages,
         to \in {"authorized", "committed"} =>
           \/ pc[t] \in {"authorized", "committed"}
           \/ /\ reservation.source = controlAuthority
              /\ reservation.revision = controlRevision,
         \/ UNCHANGED position
         \/ position' = NoPosition
         \/ position'.owner = controlAuthority
  PROVE  AdmissionInv'
<1> USE DEF LockedStages, EntryStages
<1>1. \A u \in Threads : pc'[u] = IF u = t THEN to ELSE pc[u]
  BY DEF TypeOK
<1>2. LockExclusive'
  BY <1>1 DEF AdmissionInv, LockExclusive
<1>3. AuthorityHeld'
  BY <1>1 DEF AdmissionInv, AuthorityHeld
<1>4. RequestUnanswered'
  BY <1>1 DEF AdmissionInv, RequestUnanswered, Recorded
<1>5. OwnerInControl'
  BY DEF AdmissionInv, OwnerInControl, Flat, NoPosition
<1> QED BY <1>2, <1>3, <1>4, <1>5 DEF AdmissionInv

(* The steps of engine.try_entry keep the admission invariant. *)
LEMMA TryEntryAdmits ==
  ASSUME TypeOK, AdmissionInv, NEW t \in Threads, TryEntry(t)
  PROVE  AdmissionInv'
<1> USE DEF LockedStages, EntryStages
<1>1. CASE Authorize(t)
  <2>1. /\ reservation.source = controlAuthority
        /\ reservation.revision = controlRevision
    BY <1>1 DEF Authorize, Authorized, BotAuthorized, ManualAuthorized,
                ReservationCurrent
  <2> QED BY <1>1, <2>1, HolderStep DEF Authorize
<1>2. CASE CommitEntry(t)
  <2>1. reservation \in Reservation
    BY DEF TypeOK
  <2>2. reservation' = [reservation EXCEPT !.orderSymbol = engineSymbol]
    BY <1>2 DEF CommitEntry
  <2>3. /\ reservation'.source = reservation.source
        /\ reservation'.revision = reservation.revision
        /\ reservation'.request = reservation.request
    BY <2>1, <2>2 DEF Reservation
  <2> QED BY <1>2, <2>3, HolderStep DEF CommitEntry
<1>3. CASE AbandonEntry(t)
  BY <1>3, HolderStep DEF AbandonEntry
<1>4. CASE FillEntry(t)
  <2>1. position'.owner = reservation.source
    BY <1>4 DEF FillEntry
  <2>2. reservation.source = controlAuthority
    BY <1>4 DEF FillEntry, AdmissionInv, AuthorityHeld
  <2> QED BY <1>4, <2>1, <2>2, HolderStep DEF FillEntry
<1>5. CASE RejectEntry(t)
  BY <1>5, HolderStep DEF RejectEntry
<1> QED BY <1>1, <1>2, <1>3, <1>4, <1>5 DEF TryEntry

(* The feed callback keeps the admission invariant. *)
LEMMA BotStepAdmits ==
  ASSUME TypeOK, AdmissionInv, BotStep PROVE AdmissionInv'
<1> USE DEF LockedStages, EntryStages
<1>1. CASE ObserveMarket
  BY <1>1, OutsideStep DEF ObserveMarket
<1>2. CASE ReserveBotEntry
  BY <1>2, LockStep DEF ReserveBotEntry, NewReservation
<1>3. ASSUME NEW side \in Sides, DecideBotEntry(side) PROVE AdmissionInv'
  <2>1. reservation \in Reservation
    BY DEF TypeOK
  <2>2. reservation' = [reservation EXCEPT !.side = side]
    BY <1>3 DEF DecideBotEntry
  <2>3. /\ reservation'.source = reservation.source
        /\ reservation'.revision = reservation.revision
        /\ reservation'.request = reservation.request
    BY <2>1, <2>2 DEF Reservation
  <2> QED BY <1>3, <2>3, HolderStep DEF DecideBotEntry
<1>4. CASE TryEntry(WsThread)
  BY <1>4, TryEntryAdmits
<1>5. CASE EndBotAdmission
  BY <1>5, UnlockStep DEF EndBotAdmission
<1>6. ASSUME NEW exit \in BOOLEAN, OnPrice(exit) PROVE AdmissionInv'
  BY <1>6, OutsideStep DEF OnPrice
<1> QED BY <1>1, <1>2, <1>3, <1>4, <1>5, <1>6 DEF BotStep

(* A manual request keeps the admission invariant. *)
LEMMA HumanStepAdmits ==
  ASSUME TypeOK, AdmissionInv, NEW h \in Humans, HumanStep(h)
  PROVE  AdmissionInv'
<1> USE DEF LockedStages, EntryStages
<1>1. ASSUME NEW id \in RequestIds, NEW action \in Sides,
             Submit(h, id, action)
      PROVE  AdmissionInv'
  <2>1. \A g \in Humans \ {h} : request'[g] = request[g]
    BY <1>1 DEF TypeOK, Submit
  <2> QED BY <1>1, <2>1, OutsideStep DEF Submit
<1>2. CASE Resend(h)
  BY <1>2, OutsideStep DEF Resend
<1>3. CASE AnswerRecorded(h)
  BY <1>3, OutsideStep DEF AnswerRecorded
<1>4. CASE Deny(h)
  BY <1>4, OutsideStep DEF Deny
<1>5. CASE ReserveManualEntry(h)
  BY <1>5, LockStep DEF ReserveManualEntry, NewReservation
<1>6. CASE DecideManualEntry(h)
  <2>1. reservation \in Reservation
    BY DEF TypeOK
  <2>2. reservation' = [reservation EXCEPT !.side = request[h].action]
    BY <1>6 DEF DecideManualEntry
  <2>3. /\ reservation'.source = reservation.source
        /\ reservation'.revision = reservation.revision
        /\ reservation'.request = reservation.request
    BY <2>1, <2>2 DEF Reservation
  <2> QED BY <1>6, <2>3, HolderStep DEF DecideManualEntry
<1>7. CASE TryEntry(h)
  BY <1>7, TryEntryAdmits
<1>8. CASE SettleManualEntry(h)
  BY <1>8, UnlockStep DEF SettleManualEntry
<1>9. CASE ReserveManualClose(h)
  BY <1>9, LockStep DEF ReserveManualClose
<1>10. CASE ManualClose(h)
  BY <1>10, HolderStep DEF ManualClose
<1>11. CASE ManualCloseRaises(h)
  BY <1>11, UnlockStep DEF ManualCloseRaises
<1>12. CASE SettleManualClose(h)
  BY <1>12, UnlockStep DEF SettleManualClose
<1> QED BY <1>1, <1>2, <1>3, <1>4, <1>5, <1>6, <1>7, <1>8, <1>9, <1>10, <1>11,
           <1>12 DEF HumanStep

(* A control switch needs the free lock and a FLAT position: no entry is   *)
(* then authorised, and there is no position whose owner could be left.    *)
LEMMA OperatorStepAdmits ==
  ASSUME TypeOK, AdmissionInv, OperatorStep PROVE AdmissionInv'
<1>1. ASSUME NEW authority \in Owners, SetExecutionControl(authority)
      PROVE  AdmissionInv'
  <2> USE <1>1 DEF SetExecutionControl, LockedStages, EntryStages
  <2>1. \A t \in Threads : pc[t] \notin LockedStages
    BY DEF AdmissionInv, LockExclusive
  <2>2. LockExclusive' /\ AuthorityHeld' /\ RequestUnanswered'
    BY <2>1 DEF LockExclusive, AuthorityHeld, RequestUnanswered
  <2>3. OwnerInControl'
    BY DEF SwitchAllowed, OwnerInControl, Flat, NoPosition
  <2> QED BY <2>2, <2>3 DEF AdmissionInv
<1>2. CASE StartLoop \/ StopLoop
  BY <1>2, AdmissionFrame DEF StartLoop, StopLoop
<1>3. CASE CheckEnable \/ WriteEnable \/ DisableExecution
  BY <1>3, AdmissionFrame DEF CheckEnable, WriteEnable, DisableExecution
<1>4. CASE EmergencyStop \/ EmergencyUnlock
  BY <1>4, AdmissionFrame DEF EmergencyStop, EmergencyUnlock
<1> QED BY <1>1, <1>2, <1>3, <1>4 DEF OperatorStep

LEMMA AdmissionInit ==
  ASSUME Init PROVE AdmissionInv
BY DEF Init, AdmissionInv, LockExclusive, AuthorityHeld, RequestUnanswered,
       OwnerInControl, LockedStages, EntryStages, Flat

LEMMA AdmissionStep ==
  ASSUME TypeOK, AdmissionInv, [Next]_vars PROVE AdmissionInv'
<1>1. AdmissionInv /\ UNCHANGED vars => AdmissionInv'
  BY AdmissionFrame DEF vars
<1> QED BY <1>1, BotStepAdmits, HumanStepAdmits, OperatorStepAdmits DEF Next

(* The admission invariant holds in every run. *)
THEOREM AdmissionInvariant == Spec => []AdmissionInv
BY AdmissionInit, AdmissionStep, TypeCorrect, PTL DEF Spec

-----------------------------------------------------------------------------
(* An order in flight belongs to the side in control, at the revision its  *)
(* admission was reserved at.                                              *)
THEOREM CommitAuthority == Spec => []CommitUnderAuthority
<1>1. AdmissionInv => CommitUnderAuthority
  BY DEF AdmissionInv, AuthorityHeld, CommitUnderAuthority
<1> QED BY <1>1, AdmissionInvariant, PTL

(* Whoever opened the position keeps control for as long as it is open.    *)
THEOREM OwnershipStable == Spec => []OwnerInControl
<1>1. AdmissionInv => OwnerInControl
  BY DEF AdmissionInv
<1> QED BY <1>1, AdmissionInvariant, PTL

(* A step brings about a fill or a close only for a request without an     *)
(* answer: an id in the ledger is never acted on again.                    *)
LEMMA EffectsNeedNoAnswer ==
  ASSUME TypeOK, AdmissionInv, [Next]_vars,
         NEW id \in RequestIds, effects'[id] > effects[id]
  PROVE  ~Recorded(id)
<1> USE DEF LockedStages, EntryStages
<1>1. ASSUME NEW t \in Threads, FillEntry(t) PROVE ~Recorded(id)
  <2>1. reservation.request # NoRequest /\ reservation.request = id
    BY <1>1 DEF TypeOK, FillEntry
  <2>2. t # WsThread
    BY <1>1, <2>1 DEF FillEntry, AdmissionInv, RequestUnanswered
  <2>3. t \in Humans /\ pc[t] = "committed"
    BY <1>1, <2>2 DEF FillEntry
  <2> QED BY <2>1, <2>3 DEF AdmissionInv, RequestUnanswered
<1>2. ASSUME NEW h \in Humans, ManualClose(h) PROVE ~Recorded(id)
  <2>1. request[h].id = id
    BY <1>2 DEF TypeOK, ManualClose
  <2>2. pc[h] = "closing"
    BY <1>2 DEF ManualClose
  <2> QED BY <2>1, <2>2 DEF AdmissionInv, RequestUnanswered
<1>3. ASSUME NEW t \in Threads, TryEntry(t), ~FillEntry(t)
      PROVE  UNCHANGED effects
  BY <1>3 DEF TryEntry, Authorize, CommitEntry, AbandonEntry, RejectEntry
<1> effects[id] \in Nat /\ ~(effects[id] > effects[id])
  BY DEF TypeOK
<1>8. ASSUME NEW r, NEW o, RecordAnswer(r, o) PROVE FALSE
  <2>1. effects'[id] \in {0, effects[id]}
    BY <1>8 DEF RecordAnswer
  <2> QED BY <2>1
<1>4. CASE BotStep
  BY <1>1, <1>3, <1>4 DEF BotStep, ObserveMarket, ReserveBotEntry,
     DecideBotEntry, EndBotAdmission, OnPrice
<1>5. ASSUME NEW h \in Humans, HumanStep(h) PROVE ~Recorded(id)
  <2>1. CASE Deny(h) \/ SettleManualEntry(h) \/ SettleManualClose(h)
    BY <1>8, <2>1 DEF Deny, SettleManualEntry, SettleManualClose
  <2>2. CASE TryEntry(h) \/ ManualClose(h)
    BY <1>1, <1>2, <1>3, <2>2
  <2> QED BY <1>5, <2>1, <2>2 DEF HumanStep, Submit, Resend, AnswerRecorded,
     ReserveManualEntry, DecideManualEntry, ReserveManualClose,
     ManualCloseRaises
<1>6. CASE OperatorStep
  BY <1>6 DEF OperatorStep, SetExecutionControl, StartLoop, StopLoop,
     CheckEnable, WriteEnable, DisableExecution, EmergencyStop,
     EmergencyUnlock
<1>7. CASE UNCHANGED vars
  BY <1>7 DEF vars
<1> QED BY <1>4, <1>5, <1>6, <1>7 DEF Next

(* While an id is in the ledger, no step acts for it.                      *)
THEOREM RetriesNeverAct == Spec => RecordedNeverActs
<1>1. TypeOK /\ AdmissionInv /\ [Next]_vars =>
        [\A id \in RequestIds :
           effects'[id] > effects[id] => ~Recorded(id)]_vars
  BY EffectsNeedNoAnswer
<1> QED BY <1>1, TypeCorrect, AdmissionInvariant, PTL
        DEF Spec, RecordedNeverActs

-----------------------------------------------------------------------------
(* At most one fill or close for a request id.                             *)

(* An id whose record is missing has acted only if the thread that carried *)
(* it is still on its way to record the answer.                            *)
Answering(id) ==
  \E h \in Humans : request[h].id = id /\ pc[h] \in {"settling", "closed"}
ActedOnce ==
  \A id \in RequestIds :
    /\ effects[id] <= 1
    /\ effects[id] > 0 => Recorded(id) \/ Answering(id)

(* Recording an answer keeps the other records, or forgets what the        *)
(* dropped one's id did.                                                   *)
LEMMA RecordAnswerKeeps ==
  ASSUME TypeOK, NEW r \in Request, NEW o, RecordAnswer(r, o),
         NEW id \in RequestIds
  PROVE  /\ effects'[id] \in {0, effects[id]}
         /\ effects'[id] > 0 /\ Recorded(id) => Recorded(id)'
         /\ Recorded(r.id)'
<1> DEFINE e == [request |-> r, outcome |-> o]
           full == Len(ledger) >= LedgerLimit
           kept == IF full THEN Tail(ledger) ELSE ledger
<1>1. effects'[id] = IF full /\ id = Head(ledger).request.id THEN 0
                     ELSE effects[id]
  BY DEF RecordAnswer
<1>2. ledger \in Seq(Answer) /\ Len(ledger) \in Nat
  BY LenProperties DEF TypeOK
<1>3. full => /\ Len(kept) = Len(ledger) - 1
              /\ kept \in Seq(Answer)
              /\ Head(ledger) = ledger[1]
              /\ \A i \in 1..Len(kept) : kept[i] = ledger[i + 1]
  <2> SUFFICES ASSUME full PROVE /\ Len(kept) = Len(ledger) - 1
              /\ kept \in Seq(Answer)
              /\ Head(ledger) = ledger[1]
              /\ \A i \in 1..Len(kept) : kept[i] = ledger[i + 1]
    OBVIOUS
  <2>1. ledger # <<>>
    BY <1>2
  <2> QED BY <1>2, <2>1, HeadTailProperties
<1>4. kept \in Seq(Answer)
  BY <1>2, <1>3
<1>5. ledger' = Append(kept, e)
  BY DEF RecordAnswer
<1>6. /\ Len(ledger') = Len(kept) + 1 /\ Len(kept) \in Nat
      /\ \A i \in 1..Len(kept) : ledger'[i] = kept[i]
      /\ ledger'[Len(kept) + 1] = e
  <2> HIDE DEF kept, e
  <2> QED BY <1>4, <1>5
<1>7. Recorded(r.id)'
  <2>1. ledger'[Len(kept) + 1].request.id = r.id
    BY <1>6
  <2> HIDE DEF kept
  <2> QED BY <1>6, <2>1 DEF Recorded
<1>8. ASSUME effects'[id] > 0, Recorded(id) PROVE Recorded(id)'
  <2>1. PICK i \in 1..Len(ledger) : ledger[i].request.id = id
    BY <1>8 DEF Recorded
  <2>2. CASE full
    <3>1. i # 1
      BY <1>1, <1>3, <1>8, <2>1, <2>2
    <3>2. i - 1 \in 1..Len(kept) /\ kept[i - 1] = ledger[i]
      BY <1>2, <1>3, <2>1, <2>2, <3>1
    <3> HIDE DEF kept
    <3> QED BY <1>6, <2>1, <3>2 DEF Recorded
  <2>3. CASE ~full
    BY <1>2, <1>6, <2>1, <2>3 DEF Recorded
  <2> QED BY <2>2, <2>3
<1> QED BY <1>1, <1>7, <1>8

(* A step that leaves the effects, the ledger and whoever is answering     *)
(* alone.                                                                  *)
LEMMA ActedFrame ==
  ASSUME ActedOnce, UNCHANGED <<effects, ledger>>,
         \A h \in Humans :
           pc[h] \in {"settling", "closed"} =>
             pc'[h] \in {"settling", "closed"} /\ request'[h] = request[h]
  PROVE  ActedOnce'
BY DEF ActedOnce, Answering, Recorded

(* A thread records the answer of the request it carries and returns.      *)
LEMMA ActedAnswer ==
  ASSUME TypeOK, ActedOnce, NEW h \in Humans, NEW o,
         RecordAnswer(request[h], o), pc' = [pc EXCEPT ![h] = "idle"],
         UNCHANGED request
  PROVE  ActedOnce'
<1>1. request[h] \in Request
  BY DEF TypeOK
<1>2. SUFFICES ASSUME NEW id \in RequestIds
               PROVE  /\ effects'[id] <= 1
                      /\ effects'[id] > 0 => Recorded(id)' \/ Answering(id)'
  BY DEF ActedOnce
<1>3. /\ effects'[id] \in {0, effects[id]}
      /\ effects'[id] > 0 /\ Recorded(id) => Recorded(id)'
      /\ Recorded(request[h].id)'
  BY <1>1, RecordAnswerKeeps
<1>4. effects[id] <= 1 /\ (effects[id] > 0 => Recorded(id) \/ Answering(id))
  BY DEF ActedOnce
<1>5. Answering(id) => request[h].id = id \/ Answering(id)'
  BY DEF TypeOK, Answering
<1> QED BY <1>3, <1>4, <1>5

(* A thread inside the lock acts for an unanswered request, so for one     *)
(* that has not acted, and goes on to answer it.                           *)
LEMMA ActedAct ==
  ASSUME TypeOK, AdmissionInv, ActedOnce, NEW h \in Humans,
         pc[h] \in {"committed", "closing"},
         NEW to \in {"settling", "closed"}, pc' = [pc EXCEPT ![h] = to],
         effects' = [effects EXCEPT ![request[h].id] = @ + 1],
         UNCHANGED <<request, ledger>>
  PROVE  ActedOnce'
<1> USE DEF LockedStages
<1>1. \A g \in Humans : pc[g] \in {"settling", "closed"} => FALSE
  BY DEF AdmissionInv, LockExclusive
<1>2. ~Recorded(request[h].id)
  BY DEF AdmissionInv, RequestUnanswered
<1>3. effects \in [RequestIds -> Nat] /\ pc'[h] = to
  BY DEF TypeOK
<1>4. \A id \in RequestIds : effects[id] > 0 => Recorded(id)
  BY <1>1 DEF ActedOnce, Answering
<1>5. SUFFICES ASSUME NEW id \in RequestIds
               PROVE  /\ effects'[id] <= 1
                      /\ effects'[id] > 0 => Recorded(id)' \/ Answering(id)'
  BY DEF ActedOnce
<1>6. CASE id = request[h].id
  BY <1>2, <1>3, <1>4, <1>6 DEF Answering
<1>7. CASE id # request[h].id
  BY <1>3, <1>4, <1>7 DEF ActedOnce, Recorded
<1> QED BY <1>6, <1>7

LEMMA TryEntryActs ==
  ASSUME TypeOK, AdmissionInv, ActedOnce, NEW t \in Threads, TryEntry(t)
  PROVE  ActedOnce'
<1> USE DEF LockedStages, EntryStages
<1>1. CASE FillEntry(t)
  <2>1. CASE t = WsThread
    <3>1. reservation.request = NoRequest
      BY <1>1, <2>1 DEF FillEntry, AdmissionInv, RequestUnanswered
    <3> QED BY <1>1, <2>1, <3>1, ActedFrame DEF TypeOK, FillEntry
  <2>2. CASE t \in Humans
    <3>1. reservation.request = request[t].id
      BY <1>1, <2>2 DEF FillEntry, AdmissionInv, RequestUnanswered
    <3>2. CASE request[t].id = NoRequest
      BY <1>1, <2>2, <3>1, <3>2, ActedFrame DEF TypeOK, FillEntry
    <3> QED BY <1>1, <2>2, <3>1, <3>2, ActedAct DEF FillEntry
  <2> QED BY <2>1, <2>2
<1>2. CASE ~FillEntry(t)
  BY <1>2, ActedFrame DEF TypeOK, TryEntry, Authorize, CommitEntry,
     AbandonEntry, RejectEntry
<1> QED BY <1>1, <1>2

LEMMA BotStepActs ==
  ASSUME TypeOK, AdmissionInv, ActedOnce, BotStep PROVE ActedOnce'
<1>1. CASE TryEntry(WsThread)
  BY <1>1, TryEntryActs
<1>2. CASE ~TryEntry(WsThread)
  BY <1>2, ActedFrame DEF TypeOK, BotStep, ObserveMarket, ReserveBotEntry,
     DecideBotEntry, EndBotAdmission, OnPrice
<1> QED BY <1>1, <1>2

LEMMA HumanStepActs ==
  ASSUME TypeOK, AdmissionInv, ActedOnce, NEW h \in Humans, HumanStep(h)
  PROVE  ActedOnce'
<1>1. CASE Deny(h)
  BY <1>1, ActedAnswer DEF Deny
<1>2. CASE SettleManualEntry(h)
  BY <1>2, ActedAnswer DEF SettleManualEntry
<1>3. CASE SettleManualClose(h)
  BY <1>3, ActedAnswer DEF SettleManualClose
<1>4. CASE TryEntry(h)
  BY <1>4, TryEntryActs
<1>5. CASE ManualClose(h)
  <2>1. CASE Flat
    BY <1>5, <2>1, ActedFrame DEF TypeOK, ManualClose
  <2>2. CASE ~Flat
    BY <1>5, <2>2, ActedAct DEF ManualClose
  <2> QED BY <2>1, <2>2
<1>6. CASE ManualCloseRaises(h)
  BY <1>6, ActedFrame DEF TypeOK, ManualCloseRaises
<1>7. CASE Resend(h) \/ AnswerRecorded(h)
           \/ (\E id \in RequestIds, action \in Sides : Submit(h, id, action))
  BY <1>7, ActedFrame DEF TypeOK, Submit, Resend, AnswerRecorded
<1>8. CASE ReserveManualEntry(h) \/ DecideManualEntry(h)
           \/ ReserveManualClose(h)
  BY <1>8, ActedFrame DEF TypeOK, ReserveManualEntry, DecideManualEntry,
     ReserveManualClose
<1> QED BY <1>1, <1>2, <1>3, <1>4, <1>5, <1>6, <1>7, <1>8 DEF HumanStep

LEMMA ActedInit ==
  ASSUME Init PROVE ActedOnce
BY DEF Init, ActedOnce

LEMMA ActedStep ==
  ASSUME TypeOK, AdmissionInv, ActedOnce, [Next]_vars PROVE ActedOnce'
<1>1. ActedOnce /\ UNCHANGED vars => ActedOnce'
  BY ActedFrame DEF vars
<1>2. ActedOnce /\ OperatorStep => ActedOnce'
  BY ActedFrame DEF OperatorStep, SetExecutionControl, StartLoop, StopLoop,
     CheckEnable, WriteEnable, DisableExecution, EmergencyStop,
     EmergencyUnlock
<1> QED BY <1>1, <1>2, BotStepActs, HumanStepActs DEF Next

LEMMA ActedOnceInvariant == Spec => []ActedOnce
BY ActedInit, ActedStep, TypeCorrect, AdmissionInvariant, PTL DEF Spec

(* A request id acts at most once while the ledger remembers it, for any   *)
(* number of clients and ids and any ledger limit.                         *)
THEOREM ActsAtMostOnce == Spec => []AtMostOnce
<1>1. ActedOnce => AtMostOnce
  BY DEF ActedOnce, AtMostOnce
<1> QED BY <1>1, ActedOnceInvariant, PTL

-----------------------------------------------------------------------------
(* No client is told of an execution that did not happen.                  *)

(* An id has one record; a thread inside the lock will read its answer off *)
(* a position, or a last close, that only its own request or an exit left: *)
(* a position that carries the request's id was opened for it, and of the  *)
(* position it closes only an exit can have been first.  Nothing here      *)
(* looks at symbolSwitchPaused, so a switch beside it takes nothing away.  *)
LedgerIds ==
  /\ \A i \in 1..Len(ledger) : ledger[i].request.id \in RequestIds
  /\ \A i, j \in 1..Len(ledger) :
       ledger[i].request.id = ledger[j].request.id => i = j
RequestsSent ==
  \A h \in Humans : IF request[h] = NoRequestSent THEN pc[h] = "idle"
                    ELSE request[h].id \in RequestIds
Acted(h) == effects[request[h].id] > 0
AnswerDue(h) ==
  /\ pc[h] \in EntryStages => Flat
  /\ pc[h] = "settling" /\ ~Acted(h) => Flat
  /\ pc[h] = "closing" =>
       IF Flat
       THEN lastClose = [id |-> closeReservation, reason |-> "EXIT"]
       ELSE position.id = closeReservation
  /\ pc[h] = "closed" =>
       /\ Flat
       /\ lastClose = [id |-> closeReservation,
                       reason |-> IF Acted(h) THEN "MANUAL_CLOSE" ELSE "EXIT"]
AnswersDue == \A h \in Humans : AnswerDue(h)
SoundInv == NoFalseExecution /\ LedgerIds /\ RequestsSent /\ AnswersDue

(* The new record of an id the ledger does not hold comes last, after      *)
(* records it held before; what their ids did is remembered as it was, and *)
(* what the dropped record's id did is forgotten with its only record.     *)
LEMMA RecordShape ==
  ASSUME TypeOK, LedgerIds, NEW r \in Request, r.id \in RequestIds,
         ~Recorded(r.id), NEW o, RecordAnswer(r, o)
  PROVE  /\ effects'[r.id] = effects[r.id]
         /\ \A i \in 1..Len(ledger') :
              \/ ledger'[i] = [request |-> r, outcome |-> o]
              \/ \E j \in 1..Len(ledger) :
                   /\ ledger'[i] = ledger[j]
                   /\ effects'[ledger[j].request.id]
                        = effects[ledger[j].request.id]
         /\ LedgerIds'
<1> DEFINE e == [request |-> r, outcome |-> o]
           full == Len(ledger) >= LedgerLimit
           kept == IF full THEN Tail(ledger) ELSE ledger
           d == IF full THEN 1 ELSE 0
           n == Len(kept)
<1>1. /\ ledger \in Seq(Answer) /\ Len(ledger) \in Nat
      /\ full => Len(ledger) > 0
  BY LenProperties DEF TypeOK
<1>2. /\ n = Len(ledger) - d /\ n \in Nat
      /\ \A i \in 1..n : i + d \in 1..Len(ledger) /\ kept[i] = ledger[i + d]
      /\ full => Head(ledger) = ledger[1]
      /\ kept \in Seq(Answer)
  <2>1. CASE full
    <3>1. ledger # <<>>
      BY <1>1, <2>1
    <3>2. /\ Tail(ledger) \in Seq(Answer)
          /\ Len(Tail(ledger)) = Len(ledger) - 1
          /\ \A i \in 1..Len(Tail(ledger)) : Tail(ledger)[i] = ledger[i + 1]
          /\ Head(ledger) = ledger[1]
      BY <1>1, <3>1, HeadTailProperties
    <3> QED BY <1>1, <2>1, <3>2
  <2>2. CASE ~full
    BY <1>1, <2>2
  <2> QED BY <2>1, <2>2
<1>3. ledger' = Append(kept, e)
  BY DEF RecordAnswer
<1>4. \A id \in RequestIds :
        effects'[id] = IF full /\ id = Head(ledger).request.id THEN 0
                       ELSE effects[id]
  BY DEF RecordAnswer
<1>5. e = [request |-> r, outcome |-> o] /\ e.request = r
  OBVIOUS
<1> HIDE DEF e, kept
<1>6. /\ Len(ledger') = n + 1
      /\ \A i \in 1..n : ledger'[i] = kept[i]
      /\ ledger'[n + 1] = e
  <2>1. \A s : s \in Seq(Answer) =>
          /\ Len(Append(s, e)) = Len(s) + 1
          /\ \A i \in 1..Len(s) : Append(s, e)[i] = s[i]
          /\ Append(s, e)[Len(s) + 1] = e
    OBVIOUS
  <2> QED BY <1>2, <1>3, <2>1
<1> HIDE DEF n, full
<1>7. \A i \in 1..n : /\ i + d \in 1..Len(ledger) /\ i \in Nat
                      /\ ledger'[i] = ledger[i + d]
  BY <1>2, <1>6
<1>8. \A i \in 1..n : ledger'[i].request.id # r.id
  BY <1>7 DEF Recorded
<1>9. \A i \in 1..n :
        effects'[ledger'[i].request.id] = effects[ledger'[i].request.id]
  <2> SUFFICES ASSUME NEW i \in 1..n
               PROVE  effects'[ledger'[i].request.id]
                        = effects[ledger'[i].request.id]
    OBVIOUS
  <2>1. ledger'[i].request.id \in RequestIds
    BY <1>7 DEF LedgerIds
  <2>2. CASE full
    <3>1. 1 \in 1..Len(ledger) /\ i + 1 \in 1..Len(ledger) /\ i + 1 # 1
      BY <1>1, <1>7, <2>2
    <3>2. ledger'[i] = ledger[i + 1]
      BY <1>7, <2>2
    <3>3. ledger[i + 1].request.id # ledger[1].request.id
      BY <3>1 DEF LedgerIds
    <3> QED BY <1>2, <1>4, <2>1, <2>2, <3>2, <3>3
  <2>3. CASE ~full
    BY <1>4, <2>1, <2>3
  <2> QED BY <2>2, <2>3
<1>10. effects'[r.id] = effects[r.id]
  <2>1. full => Head(ledger).request.id # r.id
    BY <1>1, <1>2 DEF Recorded
  <2> QED BY <1>4, <2>1
<1>11. \A i \in 1..Len(ledger') : i \in 1..n \/ i = n + 1
  BY <1>2, <1>6
<1>12. \A i \in 1..Len(ledger') :
         \/ ledger'[i] = [request |-> r, outcome |-> o]
         \/ \E j \in 1..Len(ledger) :
              /\ ledger'[i] = ledger[j]
              /\ effects'[ledger[j].request.id]
                   = effects[ledger[j].request.id]
  <2> SUFFICES ASSUME NEW i \in 1..n
               PROVE  \E j \in 1..Len(ledger) :
                        /\ ledger'[i] = ledger[j]
                        /\ effects'[ledger[j].request.id]
                             = effects[ledger[j].request.id]
    BY <1>5, <1>6, <1>11
  <2> QED BY <1>7, <1>9
<1>13. LedgerIds'
  <2>1. \A i \in 1..Len(ledger') : ledger'[i].request.id \in RequestIds
    BY <1>5, <1>6, <1>7, <1>11 DEF LedgerIds
  <2>2. ASSUME NEW i \in 1..Len(ledger'), NEW j \in 1..Len(ledger'),
               ledger'[i].request.id = ledger'[j].request.id
        PROVE  i = j
    <3>1. CASE i \in 1..n /\ j \in 1..n
      <4>1. /\ i + d \in 1..Len(ledger) /\ ledger'[i] = ledger[i + d]
            /\ j + d \in 1..Len(ledger) /\ ledger'[j] = ledger[j + d]
            /\ i \in Nat /\ j \in Nat
        BY <1>7, <3>1
      <4>2. ledger[i + d].request.id = ledger[j + d].request.id
        BY <2>2, <4>1
      <4> HIDE DEF d
      <4>3. i + d = j + d
        BY <4>1, <4>2 DEF LedgerIds
      <4>4. d \in Nat
        BY DEF d
      <4> QED BY <4>1, <4>3, <4>4
    <3>2. CASE i = n + 1 \/ j = n + 1
      BY <1>5, <1>6, <1>8, <1>11, <2>2, <3>2
    <3> QED BY <1>11, <3>1, <3>2
  <2> QED BY <2>1, <2>2 DEF LedgerIds
<1> QED BY <1>10, <1>12, <1>13

(* A step that leaves the ledger and the effects alone. *)
LEMMA QuietLedger ==
  ASSUME UNCHANGED <<ledger, effects>>, SoundInv
  PROVE  NoFalseExecution' /\ LedgerIds'
BY DEF SoundInv, NoFalseExecution, LedgerIds

(* Steps that leave alone what a thread inside the lock will answer from.  *)
LEMMA DueFrame ==
  ASSUME AnswersDue,
         UNCHANGED <<position, lastClose, closeReservation, effects>>,
         \A h \in Humans :
           pc'[h] \in {"reserved", "gated", "authorized", "committed",
                       "settling", "closing", "closed"} =>
             /\ request'[h] = request[h]
             /\ pc'[h] = pc[h] \/ {pc[h], pc'[h]} \subseteq EntryStages
  PROVE  AnswersDue'
BY DEF AnswersDue, AnswerDue, Acted, EntryStages, Flat, NoPosition

(* Nobody answers while no HTTP thread is inside the lock. *)
LEMMA DueNobody ==
  ASSUME \A h \in Humans : pc'[h] \notin LockedStages PROVE AnswersDue'
BY DEF AnswersDue, AnswerDue, EntryStages, LockedStages

(* The one thread inside the lock has not acted before it fills or closes. *)
LEMMA NotYetActed ==
  ASSUME TypeOK, AdmissionInv, ActedOnce, RequestsSent, NEW h \in Humans,
         \/ pc[h] \in EntryStages \cup {"closing"}
         \/ lockHolder = Free /\ pc[h] = "submitted" /\ ~Recorded(request[h].id)
  PROVE  request[h].id \in RequestIds /\ effects[request[h].id] = 0
<1> USE DEF LockedStages, EntryStages
<1>1. request[h].id \in RequestIds
  BY DEF RequestsSent
<1>2. ~Recorded(request[h].id)
  BY DEF AdmissionInv, RequestUnanswered
<1>3. \A g \in Humans : pc[g] \notin {"settling", "closed"}
  BY DEF AdmissionInv, LockExclusive
<1>4. effects[request[h].id] \in Nat
  BY <1>1 DEF TypeOK
<1> QED BY <1>1, <1>2, <1>3, <1>4 DEF ActedOnce, Answering

(* When one HTTP thread is inside the lock, its answer is the only one due. *)
LEMMA DueHolder ==
  ASSUME TypeOK, AdmissionInv, NEW h \in Humans, pc[h] \in LockedStages,
         NEW to \in Stages, pc' = [pc EXCEPT ![h] = to], AnswerDue(h)'
  PROVE  AnswersDue'
<1>1. \A g \in Humans \ {h} : pc'[g] \notin LockedStages
  BY DEF TypeOK, AdmissionInv, LockExclusive
<1>2. \A g \in Humans \ {h} : AnswerDue(g)'
  BY <1>1 DEF AnswerDue, EntryStages, LockedStages
<1> QED BY <1>2 DEF AnswersDue

(* What an HTTP thread does for its own request, inside the lock, leaves    *)
(* the records of others alone.                                            *)
LEMMA ActsUnrecorded ==
  ASSUME TypeOK, AdmissionInv, SoundInv, NEW h \in Humans,
         pc[h] \in LockedStages, request[h].id \in RequestIds,
         effects' = [effects EXCEPT ![request[h].id] = @ + 1],
         UNCHANGED ledger
  PROVE  NoFalseExecution' /\ LedgerIds'
<1>1. ~Recorded(request[h].id)
  BY DEF AdmissionInv, RequestUnanswered
<1> QED BY <1>1 DEF TypeOK, SoundInv, NoFalseExecution, LedgerIds, Recorded

(* The steps of engine.try_entry leave the right answer due. *)
LEMMA TryEntrySound ==
  ASSUME TypeOK, AdmissionInv, ActedOnce, SoundInv, NEW t \in Threads,
         TryEntry(t)
  PROVE  SoundInv'
<1> USE DEF LockedStages, EntryStages
<1>1. UNCHANGED <<ledger, request>>
  BY DEF TryEntry, Authorize, CommitEntry, AbandonEntry, FillEntry, RejectEntry
<1>2. /\ \A u \in Threads \ {t} : pc'[u] = pc[u]
      /\ pc[t] \in EntryStages
      /\ pc'[t] \in EntryStages \cup {"settling"}
  BY DEF TypeOK, TryEntry, Authorize, CommitEntry, AbandonEntry, FillEntry,
         RejectEntry
<1>3. RequestsSent'
  BY <1>1, <1>2 DEF SoundInv, RequestsSent
<1>4. CASE ~FillEntry(t)
  <2>1. /\ UNCHANGED <<position, lastClose, closeReservation, effects>>
        /\ pc' = [pc EXCEPT ![t] = pc'[t]]
    BY <1>4 DEF TypeOK, TryEntry, Authorize, CommitEntry, AbandonEntry,
                RejectEntry
  <2>2. AnswersDue'
    <3>1. CASE pc'[t] \in EntryStages \/ t = WsThread
      BY <1>1, <1>2, <2>1, <3>1, DueFrame DEF SoundInv
    <3>2. CASE t \in Humans /\ pc'[t] = "settling"
      <4>1. Flat'
        BY <1>2, <2>1, <3>2
           DEF SoundInv, AnswersDue, AnswerDue, Flat, NoPosition
      <4>2. AnswerDue(t)'
        BY <3>2, <4>1 DEF AnswerDue
      <4> QED BY <1>2, <2>1, <3>2, <4>2, DueHolder
    <3> QED BY <1>2, <3>1, <3>2
  <2> QED BY <1>1, <1>3, <2>1, <2>2, QuietLedger DEF SoundInv
<1>5. CASE FillEntry(t)
  <2>1. pc[t] = "committed" /\ pc' = [pc EXCEPT ![t] = "settling"]
    BY <1>5 DEF FillEntry
  <2>2. CASE t = WsThread
    <3>1. \A h \in Humans : pc'[h] \notin LockedStages
      BY <1>2, <2>1, <2>2 DEF AdmissionInv, LockExclusive
    <3>2. effects' = effects
      BY <1>5, <2>1, <2>2 DEF FillEntry, AdmissionInv, RequestUnanswered
    <3> QED BY <1>1, <1>3, <3>1, <3>2, DueNobody, QuietLedger DEF SoundInv
  <2>3. CASE t \in Humans
    <3>1. reservation.request = request[t].id
      BY <2>1, <2>3 DEF AdmissionInv, RequestUnanswered
    <3>2. request[t].id \in RequestIds /\ effects[request[t].id] = 0
      BY <1>2, <2>3, NotYetActed DEF SoundInv
    <3>3. effects' = [effects EXCEPT ![request[t].id] = @ + 1]
      BY <1>5, <3>1, <3>2 DEF FillEntry
    <3>4. Acted(t)' /\ pc'[t] = "settling"
      BY <1>1, <2>1, <3>2, <3>3 DEF TypeOK, Acted
    <3>5. AnswersDue'
      BY <2>1, <2>3, <3>4, DueHolder DEF AnswerDue
    <3> QED BY <1>1, <1>3, <2>1, <2>3, <3>2, <3>3, <3>5, ActsUnrecorded
         DEF SoundInv
  <2> QED BY <2>2, <2>3
<1> QED BY <1>4, <1>5

(* The feed thread's exit of a position under a close shows as an exit.    *)
LEMMA BotStepSound ==
  ASSUME TypeOK, AdmissionInv, ActedOnce, SoundInv, BotStep
  PROVE  SoundInv'
<1> USE DEF LockedStages, EntryStages
<1>1. CASE TryEntry(WsThread)
  BY <1>1, TryEntrySound
<1>2. CASE ~TryEntry(WsThread)
  <2>1. /\ UNCHANGED <<request, ledger, effects, closeReservation>>
        /\ \A h \in Humans : pc'[h] = pc[h]
    BY <1>2 DEF TypeOK, BotStep, ObserveMarket, ReserveBotEntry,
                EndBotAdmission, DecideBotEntry, OnPrice
  <2>2. AnswersDue'
    <3>1. CASE UNCHANGED <<position, lastClose>>
      BY <2>1, <3>1, DueFrame DEF SoundInv
    <3>2. CASE ~UNCHANGED <<position, lastClose>>
      <4>1. /\ ~Flat /\ Flat'
            /\ lastClose' = [id |-> position.id, reason |-> "EXIT"]
        BY <1>2, <3>2 DEF BotStep, ObserveMarket, ReserveBotEntry,
           EndBotAdmission, DecideBotEntry, OnPrice, Flat, NoPosition
      <4>2. ASSUME NEW h \in Humans PROVE AnswerDue(h)'
        <5>1. AnswerDue(h)
          BY DEF SoundInv, AnswersDue
        <5> QED BY <2>1, <4>1, <5>1 DEF AnswerDue
      <4> QED BY <4>2 DEF AnswersDue
    <3> QED BY <3>1, <3>2
  <2>3. RequestsSent'
    BY <2>1 DEF SoundInv, RequestsSent
  <2> QED BY <2>1, <2>2, <2>3, QuietLedger DEF SoundInv
<1> QED BY <1>1, <1>2

(* A thread that records a sound answer, and leaves nobody inside the lock. *)
LEMMA AnswerStep ==
  ASSUME TypeOK, SoundInv, NEW h \in Humans, pc[h] # "idle",
         ~Recorded(request[h].id),
         \A g \in Humans \ {h} : pc[g] \notin LockedStages,
         pc' = [pc EXCEPT ![h] = "idle"],
         NEW o, RecordAnswer(request[h], o), o # "DENIED" => Acted(h),
         UNCHANGED request
  PROVE  SoundInv'
<1> USE DEF LockedStages
<1>1. request[h] \in Request /\ request[h].id \in RequestIds
  BY DEF TypeOK, SoundInv, RequestsSent
<1>2. /\ effects'[request[h].id] = effects[request[h].id]
      /\ \A i \in 1..Len(ledger') :
           \/ ledger'[i] = [request |-> request[h], outcome |-> o]
           \/ \E j \in 1..Len(ledger) :
                /\ ledger'[i] = ledger[j]
                /\ effects'[ledger[j].request.id]
                     = effects[ledger[j].request.id]
      /\ LedgerIds'
  BY <1>1, RecordShape DEF SoundInv
<1>3. NoFalseExecution'
  BY <1>2 DEF SoundInv, NoFalseExecution, Acted
<1>4. \A g \in Humans : pc'[g] = IF g = h THEN "idle" ELSE pc[g]
  BY DEF TypeOK
<1>5. AnswersDue'
  BY <1>4, DueNobody
<1>6. RequestsSent'
  BY <1>4 DEF SoundInv, RequestsSent
<1> QED BY <1>2, <1>3, <1>5, <1>6 DEF SoundInv

(* What the three steps that record an answer record: a denial before the  *)
(* request has acted, what the position says of an entry, what the last    *)
(* close says of a close.                                                  *)
LEMMA AnswersRead ==
  ASSUME TypeOK, AdmissionInv, ActedOnce, SoundInv, NEW h \in Humans
  PROVE  /\ Deny(h) => ~Acted(h)
         /\ SettleManualEntry(h) => (EntryConfirmed(h) => Acted(h))
         /\ SettleManualClose(h) =>
              (/\ Flat
               /\ lastClose = [id |-> closeReservation,
                               reason |-> "MANUAL_CLOSE"]) <=> Acted(h)
         /\ Deny(h) \/ SettleManualEntry(h) \/ SettleManualClose(h) =>
              /\ pc[h] # "idle" /\ ~Recorded(request[h].id)
              /\ request[h].id \in RequestIds
              /\ \A g \in Humans \ {h} : pc[g] \notin LockedStages
<1> USE DEF LockedStages
<1>1. AnswerDue(h) /\ RequestsSent
  BY DEF SoundInv, AnswersDue
<1>2. Deny(h) => ~Acted(h)
  BY <1>1, NotYetActed DEF Deny, Acted
<1>3. ASSUME Deny(h) \/ SettleManualEntry(h) \/ SettleManualClose(h)
      PROVE  /\ pc[h] # "idle" /\ ~Recorded(request[h].id)
             /\ request[h].id \in RequestIds
             /\ \A g \in Humans \ {h} : pc[g] \notin LockedStages
  BY <1>1, <1>3 DEF Deny, SettleManualEntry, SettleManualClose, AdmissionInv,
     RequestUnanswered, LockExclusive, RequestsSent
<1>4. SettleManualEntry(h) => (EntryConfirmed(h) => Acted(h))
  BY <1>1, <1>3 DEF SettleManualEntry, AnswerDue, EntryConfirmed, Flat,
                    NoPosition
<1>5. SettleManualClose(h) =>
        (/\ Flat
         /\ lastClose = [id |-> closeReservation, reason |-> "MANUAL_CLOSE"])
        <=> Acted(h)
  BY <1>1 DEF SettleManualClose, AnswerDue
<1> QED BY <1>2, <1>3, <1>4, <1>5

(* The steps of a request. *)
LEMMA HumanStepSound ==
  ASSUME TypeOK, AdmissionInv, ActedOnce, SoundInv, NEW h \in Humans,
         HumanStep(h)
  PROVE  SoundInv'
<1> USE DEF LockedStages, EntryStages
<1>0. /\ RequestsSent /\ AnswersDue /\ AnswerDue(h)
      /\ \A g \in Humans \ {h} : pc[h] \in LockedStages \/ lockHolder = Free
                                   => pc[g] \notin LockedStages
  BY DEF SoundInv, AnswersDue, AdmissionInv, LockExclusive
<1>1. ASSUME NEW id \in RequestIds, NEW action \in Sides,
             Submit(h, id, action)
      PROVE  SoundInv'
  <2>1. /\ \A g \in Humans \ {h} : request'[g] = request[g] /\ pc'[g] = pc[g]
        /\ request'[h].id = id /\ pc'[h] = "submitted"
    BY <1>1 DEF TypeOK, Submit
  <2>2. RequestsSent'
    BY <1>0, <2>1 DEF RequestsSent, NoRequestSent
  <2>3. AnswersDue'
    BY <1>0, <1>1, <2>1, DueFrame DEF Submit
  <2> QED BY <1>1, <2>2, <2>3, QuietLedger DEF SoundInv, Submit
<1>2. CASE Resend(h) \/ AnswerRecorded(h)
  <2>1. /\ \A u \in Threads \ {h} : pc'[u] = pc[u]
        /\ pc'[h] \in {"idle", "submitted"}
    BY <1>2 DEF TypeOK, Resend, AnswerRecorded
  <2>2. RequestsSent'
    BY <1>0, <1>2, <2>1 DEF RequestsSent, Resend, AnswerRecorded
  <2>3. AnswersDue'
    BY <1>0, <1>2, <2>1, DueFrame DEF Resend, AnswerRecorded
  <2> QED BY <1>2, <2>2, <2>3, QuietLedger
          DEF SoundInv, Resend, AnswerRecorded
<1>3. CASE Deny(h)
  BY <1>3, AnswersRead, AnswerStep DEF Deny
<1>4. CASE \/ ReserveManualEntry(h) \/ ReserveManualClose(h)
           \/ DecideManualEntry(h)
  <2>1. /\ \A u \in Threads \ {h} : pc'[u] = pc[u]
        /\ UNCHANGED <<request, ledger, effects, position, lastClose>>
        /\ pc[h] # "idle"
    BY <1>4 DEF TypeOK, ReserveManualEntry, ReserveManualClose,
                DecideManualEntry
  <2>2. RequestsSent'
    BY <1>0, <2>1 DEF RequestsSent
  <2>3. AnswerDue(h)'
    <3>1. CASE ReserveManualEntry(h) \/ DecideManualEntry(h)
      <4>1. Flat' /\ pc'[h] \in EntryStages
        BY <3>1, <2>1 DEF TypeOK, ReserveManualEntry, DecideManualEntry,
                          IsEntry, Flat, NoPosition
      <4> QED BY <4>1 DEF AnswerDue
    <3>2. CASE ReserveManualClose(h)
      <4>1. ~Flat' /\ pc'[h] = "closing" /\ closeReservation' = position'.id
        BY <3>2, <2>1 DEF TypeOK, ReserveManualClose, IsClose, Flat, NoPosition
      <4> QED BY <4>1 DEF AnswerDue
    <3> QED BY <1>4, <3>1, <3>2
  <2>4. pc[h] \in LockedStages \/ lockHolder = Free
    BY <1>4 DEF ReserveManualEntry, ReserveManualClose, DecideManualEntry
  <2>5. \A g \in Humans \ {h} : pc'[g] \notin LockedStages
    BY <1>0, <2>1, <2>4
  <2>6. AnswersDue'
    BY <2>3, <2>5 DEF AnswersDue, AnswerDue
  <2> QED BY <2>1, <2>2, <2>6, QuietLedger DEF SoundInv
<1>5. CASE TryEntry(h)
  BY <1>5, TryEntrySound
<1>6. CASE SettleManualEntry(h)
  BY <1>6, AnswersRead, AnswerStep DEF SettleManualEntry
<1>7. CASE ManualClose(h)
  <2>1. /\ pc[h] = "closing" /\ pc' = [pc EXCEPT ![h] = "closed"]
        /\ pc'[h] = "closed"
        /\ UNCHANGED <<request, ledger, closeReservation>>
    BY <1>7 DEF TypeOK, ManualClose
  <2>2. request[h].id \in RequestIds /\ effects[request[h].id] = 0
    BY <1>0, <2>1, NotYetActed
  <2>3. RequestsSent'
    BY <1>0, <2>1 DEF TypeOK, RequestsSent
  <2>4. CASE Flat
    <3>1. UNCHANGED <<position, lastClose, effects>>
      BY <1>7, <2>4 DEF ManualClose
    <3>2. AnswerDue(h)'
      BY <1>0, <2>1, <2>2, <2>4, <3>1 DEF AnswerDue, Acted, Flat, NoPosition
    <3>3. AnswersDue'
      BY <2>1, <3>2, DueHolder
    <3> QED BY <2>1, <2>3, <3>1, <3>3, QuietLedger DEF SoundInv
  <2>5. CASE ~Flat
    <3>1. /\ lastClose' = [id |-> closeReservation, reason |-> "MANUAL_CLOSE"]
          /\ Flat' /\ effects' = [effects EXCEPT ![request[h].id] = @ + 1]
      BY <1>0, <1>7, <2>1, <2>5 DEF ManualClose, AnswerDue, Flat, NoPosition
    <3>2. Acted(h)'
      BY <2>1, <2>2, <3>1 DEF TypeOK, Acted
    <3>3. AnswerDue(h)'
      BY <2>1, <3>1, <3>2 DEF AnswerDue
    <3>4. AnswersDue'
      BY <2>1, <3>3, DueHolder
    <3> QED BY <2>1, <2>2, <2>3, <3>1, <3>4, ActsUnrecorded DEF SoundInv
  <2> QED BY <2>4, <2>5
<1>8. CASE ManualCloseRaises(h)
  <2>1. /\ \A u \in Threads \ {h} : pc'[u] = pc[u]
        /\ pc[h] = "closing" /\ pc'[h] = "idle"
        /\ UNCHANGED <<request, ledger, effects>>
    BY <1>8 DEF TypeOK, ManualCloseRaises
  <2>2. RequestsSent'
    BY <1>0, <2>1 DEF RequestsSent
  <2>3. AnswersDue'
    BY <1>0, <2>1, DueNobody
  <2> QED BY <2>1, <2>2, <2>3, QuietLedger DEF SoundInv
<1>9. CASE SettleManualClose(h)
  BY <1>9, AnswersRead, AnswerStep DEF SettleManualClose
<1> QED BY <1>1, <1>2, <1>3, <1>4, <1>5, <1>6, <1>7, <1>8, <1>9 DEF HumanStep

(* Steps that touch nothing of a request: the operator's, and a symbol     *)
(* switch's.                                                               *)
LEMMA SoundFrame ==
  ASSUME SoundInv, UNCHANGED <<pc, clientVars, position, lastClose,
                               closeReservation>>
  PROVE  SoundInv'
BY DueFrame, QuietLedger DEF SoundInv, RequestsSent, clientVars

LEMMA SoundStep ==
  ASSUME TypeOK, AdmissionInv, ActedOnce, SoundInv, [Next]_vars
  PROVE  SoundInv'
<1>1. CASE UNCHANGED vars
  BY <1>1, SoundFrame DEF vars
<1>2. CASE OperatorStep
  BY <1>2, SoundFrame DEF OperatorStep, SetExecutionControl, StartLoop,
     StopLoop, CheckEnable, WriteEnable, DisableExecution, EmergencyStop,
     EmergencyUnlock
<1> QED BY <1>1, <1>2, BotStepSound, HumanStepSound DEF Next

LEMMA SoundInit == ASSUME Init PROVE SoundInv
BY DEF Init, SoundInv, NoFalseExecution, LedgerIds, RequestsSent, AnswersDue,
       AnswerDue, EntryStages

LEMMA SoundInvariant == Spec => []SoundInv
BY SoundInit, SoundStep, TypeCorrect, AdmissionInvariant, ActedOnceInvariant,
   PTL DEF Spec

-----------------------------------------------------------------------------
(* The recorded answers are true, as long as no symbol switch pauses entry. *)

(* What acted is not recorded as denied; the position an entry opened is   *)
(* still there when its answer is read, above the price the feed has seen, *)
(* because the feed cannot be past the lock while a client holds it.       *)
Told ==
  \A i \in 1..Len(ledger) :
    effects[ledger[i].request.id] > 0 => ledger[i].outcome # "DENIED"
EntryKept(h) ==
  pc[h] = "settling" /\ Acted(h) =>
    /\ position.request = request[h].id
    /\ pc[WsThread] = "pricing" => priced < position.id
EntriesKept == \A h \in Humans : EntryKept(h)
TruthInv == Told /\ EntriesKept /\ priced <= opened /\ ~symbolSwitchPaused

(* Steps that record nothing, act for nobody and take no position away.    *)
LEMMA TruthFrame ==
  ASSUME TypeOK, TruthInv,
         UNCHANGED <<ledger, effects, position, opened, symbolSwitchPaused>>,
         priced' \in {priced, opened},
         \A h \in Humans : pc'[h] = "settling" =>
           \/ pc[h] = "settling" /\ request'[h] = request[h]
           \/ ~Acted(h)',
         \/ pc'[WsThread] = "pricing" => pc[WsThread] = "pricing"
                                         /\ priced' = priced
         \/ \A h \in Humans : pc'[h] # "settling"
  PROVE  TruthInv'
<1>1. Told' /\ ~symbolSwitchPaused'
  BY DEF TruthInv, Told
<1>2. EntriesKept'
  BY DEF TruthInv, EntriesKept, EntryKept, Acted
<1>3. priced' <= opened'
  BY DEF TypeOK, TruthInv
<1> QED BY <1>1, <1>2, <1>3 DEF TruthInv

(* The steps that record an answer: what acted is not recorded as denied.  *)
LEMMA TruthAnswer ==
  ASSUME TypeOK, AdmissionInv, ActedOnce, SoundInv, TruthInv,
         NEW h \in Humans,
         Deny(h) \/ SettleManualEntry(h) \/ SettleManualClose(h)
  PROVE  TruthInv'
<1>1. /\ pc[h] # "idle" /\ ~Recorded(request[h].id)
      /\ request[h].id \in RequestIds /\ request[h] \in Request
      /\ \A g \in Humans \ {h} : pc[g] \notin LockedStages
  BY AnswersRead DEF TypeOK
<1>2. PICK o : RecordAnswer(request[h], o) /\ (Acted(h) => o # "DENIED")
  <2>1. CASE Deny(h)
    BY <2>1, AnswersRead DEF Deny
  <2>2. CASE SettleManualEntry(h)
    <3>1. EntryKept(h) /\ pc[h] = "settling"
      BY <2>2 DEF TruthInv, EntriesKept, SettleManualEntry
    <3> QED BY <2>2, <3>1 DEF SettleManualEntry, EntryConfirmed, EntryKept
  <2>3. CASE SettleManualClose(h)
    <3> DEFINE mine == /\ Flat
                       /\ lastClose = [id |-> closeReservation,
                                       reason |-> "MANUAL_CLOSE"]
    <3>1. /\ RecordAnswer(request[h], IF mine THEN "CLOSED" ELSE "DENIED")
          /\ mine <=> Acted(h)
      BY <2>3, AnswersRead DEF SettleManualClose
    <3> HIDE DEF mine
    <3> QED BY <3>1
  <2> QED BY <2>1, <2>2, <2>3
<1>3. /\ effects'[request[h].id] = effects[request[h].id]
      /\ \A i \in 1..Len(ledger') :
           \/ ledger'[i] = [request |-> request[h], outcome |-> o]
           \/ \E j \in 1..Len(ledger) :
                /\ ledger'[i] = ledger[j]
                /\ effects'[ledger[j].request.id]
                     = effects[ledger[j].request.id]
  BY <1>1, <1>2, RecordShape DEF SoundInv
<1>4. Told'
  BY <1>2, <1>3 DEF TruthInv, Told, Acted
<1>5. UNCHANGED <<priced, opened, symbolSwitchPaused>>
  BY DEF Deny, SettleManualEntry, SettleManualClose
<1>6. \A g \in Humans : pc'[g] # "settling"
  BY <1>1 DEF TypeOK, LockedStages, Deny, SettleManualEntry, SettleManualClose
<1> QED BY <1>4, <1>5, <1>6 DEF TruthInv, EntriesKept, EntryKept

LEMMA TryEntryTruthful ==
  ASSUME TypeOK, AdmissionInv, ActedOnce, SoundInv, TruthInv,
         NEW t \in Threads, TryEntry(t)
  PROVE  TruthInv'
<1> USE DEF LockedStages, EntryStages
<1>1. UNCHANGED <<ledger, request, priced, symbolSwitchPaused>>
  BY DEF TryEntry, Authorize, CommitEntry, AbandonEntry, FillEntry, RejectEntry
<1>2. /\ \A u \in Threads \ {t} : pc'[u] = pc[u]
      /\ pc[t] \in EntryStages
      /\ pc'[t] \in EntryStages \cup {"settling"}
  BY DEF TypeOK, TryEntry, Authorize, CommitEntry, AbandonEntry, FillEntry,
         RejectEntry
<1>3. CASE ~FillEntry(t)
  <2>1. UNCHANGED <<position, effects, opened>>
    BY <1>3 DEF TryEntry, Authorize, CommitEntry, AbandonEntry, RejectEntry
  <2>2. \A h \in Humans : pc'[h] = "settling" => pc[h] = "settling" \/ h = t
    BY <1>2
  <2>3. t \in Humans => ~Acted(t)'
    BY <1>1, <1>2, <2>1, NotYetActed DEF SoundInv, Acted
  <2> QED BY <1>1, <1>2, <2>1, <2>2, <2>3, TruthFrame
<1>4. CASE FillEntry(t)
  <2>1. /\ opened' = opened + 1 /\ opened \in Nat /\ priced \in Nat
        /\ pc[t] = "committed" /\ pc'[t] = "settling"
    BY <1>4 DEF TypeOK, FillEntry
  <2>2. priced' <= opened' /\ priced < opened'
    BY <1>1, <2>1 DEF TruthInv
  <2>3. CASE t = WsThread
    <3>1. \A h \in Humans : pc'[h] # "settling"
      BY <1>2, <2>1, <2>3 DEF AdmissionInv, LockExclusive
    <3>2. effects' = effects
      BY <1>4, <2>1, <2>3 DEF FillEntry, AdmissionInv, RequestUnanswered
    <3> QED BY <1>1, <2>2, <3>1, <3>2
         DEF TruthInv, Told, EntriesKept, EntryKept
  <2>4. CASE t \in Humans
    <3>1. reservation.request = request[t].id
      BY <2>1, <2>4 DEF AdmissionInv, RequestUnanswered
    <3>2. request[t].id \in RequestIds /\ ~Recorded(request[t].id)
      BY <1>2, <2>4, NotYetActed DEF SoundInv, AdmissionInv, RequestUnanswered
    <3>3. /\ effects' = [effects EXCEPT ![request[t].id] = @ + 1]
          /\ position'.id = opened' /\ position'.request = request[t].id
      BY <1>4, <2>1, <3>1, <3>2 DEF FillEntry
    <3>4. Told'
      BY <1>1, <3>2, <3>3
         DEF TypeOK, SoundInv, LedgerIds, TruthInv, Told, Recorded
    <3>5. \A h \in Humans \ {t} : pc'[h] # "settling"
      BY <1>2, <2>4 DEF AdmissionInv, LockExclusive
    <3>6. EntriesKept'
      BY <1>1, <2>2, <3>3, <3>5 DEF EntriesKept, EntryKept
    <3> QED BY <1>1, <2>2, <3>4, <3>6 DEF TruthInv
  <2> QED BY <2>3, <2>4
<1> QED BY <1>3, <1>4

(* The feed thread takes a position away from nobody who just opened it.   *)
LEMMA BotStepTruthful ==
  ASSUME TypeOK, AdmissionInv, ActedOnce, SoundInv, TruthInv, BotStep
  PROVE  TruthInv'
<1> USE DEF LockedStages, EntryStages
<1>1. CASE TryEntry(WsThread)
  BY <1>1, TryEntryTruthful
<1>2. CASE ObserveMarket \/ ReserveBotEntry
           \/ \E side \in Sides : DecideBotEntry(side)
  <2>1. /\ UNCHANGED <<request, ledger, effects, position, opened,
                       symbolSwitchPaused>>
        /\ priced' \in {priced, opened}
        /\ \A h \in Humans : pc'[h] = pc[h]
    BY <1>2 DEF TypeOK, ObserveMarket, ReserveBotEntry, DecideBotEntry
  <2>2. pc'[WsThread] # "pricing"
    BY <1>2 DEF TypeOK, TruthInv, ObserveMarket, ReserveBotEntry,
                DecideBotEntry
  <2> QED BY <2>1, <2>2, TruthFrame
<1>3. CASE EndBotAdmission
  <2>1. /\ UNCHANGED <<request, ledger, effects, position, priced, opened,
                       symbolSwitchPaused>>
        /\ \A h \in Humans : pc'[h] = pc[h]
    BY <1>3 DEF TypeOK, EndBotAdmission
  <2>2. \A h \in Humans : pc'[h] # "settling"
    BY <1>3, <2>1 DEF EndBotAdmission, AdmissionInv, LockExclusive
  <2> QED BY <2>1, <2>2, TruthFrame
<1>4. ASSUME NEW exit \in BOOLEAN, OnPrice(exit) PROVE TruthInv'
  <2>1. /\ UNCHANGED <<request, ledger, effects, priced, opened,
                       symbolSwitchPaused>>
        /\ \A h \in Humans : pc'[h] = pc[h]
        /\ pc[WsThread] = "pricing" /\ pc'[WsThread] # "pricing"
        /\ UNCHANGED position \/ position.id <= priced
    BY <1>4 DEF TypeOK, OnPrice
  <2>2. CASE UNCHANGED position
    BY <2>1, <2>2, TruthFrame
  <2>3. CASE position.id <= priced
    <3>1. position.id \in Nat /\ priced \in Nat
      BY DEF TypeOK, Position
    <3>2. \A h \in Humans : ~(pc[h] = "settling" /\ Acted(h))
      BY <2>1, <2>3, <3>1 DEF TruthInv, EntriesKept, EntryKept
    <3>3. EntriesKept'
      BY <2>1, <3>2 DEF EntriesKept, EntryKept, Acted
    <3> QED BY <2>1, <3>3 DEF TruthInv, Told
  <2> QED BY <2>1, <2>2, <2>3
<1> QED BY <1>1, <1>2, <1>3, <1>4 DEF BotStep

LEMMA HumanStepTruthful ==
  ASSUME TypeOK, AdmissionInv, ActedOnce, SoundInv, TruthInv,
         NEW h \in Humans, HumanStep(h)
  PROVE  TruthInv'
<1> USE DEF LockedStages, EntryStages
<1>1. CASE Deny(h) \/ SettleManualEntry(h) \/ SettleManualClose(h)
  BY <1>1, TruthAnswer
<1>2. CASE TryEntry(h)
  BY <1>2, TryEntryTruthful DEF Threads
<1>3. CASE ManualClose(h)
  <2>1. /\ pc[h] = "closing" /\ pc' = [pc EXCEPT ![h] = "closed"]
        /\ UNCHANGED <<request, ledger, priced, opened, symbolSwitchPaused>>
    BY <1>3 DEF ManualClose
  <2>2. request[h].id \in RequestIds /\ ~Recorded(request[h].id)
    BY <2>1, NotYetActed DEF SoundInv, AdmissionInv, RequestUnanswered
  <2>3. \/ effects' = effects
        \/ effects' = [effects EXCEPT ![request[h].id] = @ + 1]
    BY <1>3 DEF ManualClose
  <2>4. Told'
    BY <2>1, <2>2, <2>3
       DEF TypeOK, SoundInv, LedgerIds, TruthInv, Told, Recorded
  <2>5. \A g \in Humans : pc'[g] # "settling"
    BY <2>1 DEF TypeOK, AdmissionInv, LockExclusive, Threads
  <2> QED BY <2>1, <2>4, <2>5 DEF TruthInv, EntriesKept, EntryKept
<1>4. CASE /\ ~(Deny(h) \/ SettleManualEntry(h) \/ SettleManualClose(h))
           /\ ~TryEntry(h) /\ ~ManualClose(h)
  <2>1. /\ UNCHANGED <<ledger, effects, position, priced, opened,
                       symbolSwitchPaused>>
        /\ \A t \in Threads \ {h} : pc'[t] = pc[t]
        /\ \A g \in Humans \ {h} : request'[g] = request[g]
        /\ pc'[h] # "settling"
    BY <1>4 DEF TypeOK, HumanStep, Submit, Resend, AnswerRecorded,
       ReserveManualEntry, DecideManualEntry, ReserveManualClose,
       ManualCloseRaises
  <2>2. pc'[WsThread] = pc[WsThread]
    BY <2>1, ThreadsDistinct DEF Threads
  <2>3. \A g \in Humans : pc'[g] = "settling" =>
          pc[g] = "settling" /\ request'[g] = request[g]
    BY <2>1 DEF Threads
  <2> QED BY <2>1, <2>2, <2>3, TruthFrame
<1> QED BY <1>1, <1>2, <1>3, <1>4

(* A client is told that its trade was executed exactly when it was, by    *)
(* this request, for any number of clients and ids and any ledger limit.   *)
THEOREM AnswersTrue == Spec => []AnswerTruthful
<1>1. Init => TruthInv
  BY DEF Init, TruthInv, Told, EntriesKept, EntryKept
<1>2. TypeOK /\ AdmissionInv /\ ActedOnce /\ SoundInv /\ TruthInv
        /\ [Next]_vars => TruthInv'
  <2>1. TypeOK /\ TruthInv /\ (UNCHANGED vars \/ OperatorStep) => TruthInv'
    BY TruthFrame DEF vars, clientVars, engineVars, feedVars, symbolVars,
       OperatorStep, SetExecutionControl, StartLoop, StopLoop, CheckEnable,
       WriteEnable, DisableExecution, EmergencyStop, EmergencyUnlock
  <2> QED BY <2>1, BotStepTruthful, HumanStepTruthful DEF Next
<1>3. SoundInv /\ TruthInv => AnswerTruthful
  <2> SUFFICES ASSUME SoundInv, TruthInv, NEW i \in 1..Len(ledger)
               PROVE  ledger[i].outcome # "DENIED"
                        <=> effects[ledger[i].request.id] > 0
    BY DEF AnswerTruthful
  <2> QED BY DEF SoundInv, NoFalseExecution, TruthInv, Told
<1> QED BY <1>1, <1>2, <1>3, TypeCorrect, AdmissionInvariant,
           ActedOnceInvariant, SoundInvariant, PTL DEF Spec

-----------------------------------------------------------------------------
(* The refinement of TradingDesk.                                          *)

(* From its authorisation on, an entry has the side that sends it in       *)
(* control, and so has a human's close.                                    *)
ControlHeld ==
  \A t \in Threads : pc[t] \in {"authorized", "committed", "closing"} =>
    controlAuthority = IF t = WsThread THEN "BOT" ELSE "MANUAL"

LEMMA ControlStep ==
  ASSUME TypeOK, AdmissionInv, ControlHeld, [Next]_vars PROVE ControlHeld'
<1>1. ASSUME NEW t \in Threads, NEW to \in Stages,
             pc' = [pc EXCEPT ![t] = to], UNCHANGED controlAuthority,
             to \in {"authorized", "committed", "closing"} =>
               controlAuthority = IF t = WsThread THEN "BOT" ELSE "MANUAL"
      PROVE  ControlHeld'
  BY <1>1 DEF TypeOK, ControlHeld
<1>2. ASSUME NEW t \in Threads, TryEntry(t) PROVE ControlHeld'
  <2>1. CASE Authorize(t)
    BY <1>1, <2>1 DEF Authorize, Stage, Stages, Authorized, BotAuthorized,
       ManualAuthorized, controlVars
  <2>2. CASE CommitEntry(t)
    BY <1>1, <2>2 DEF CommitEntry, Stage, Stages, ControlHeld, controlVars
  <2>3. CASE AbandonEntry(t) \/ FillEntry(t) \/ RejectEntry(t)
    BY <1>1, <2>3 DEF AbandonEntry, FillEntry, RejectEntry, Stage, Stages,
       controlVars
  <2> QED BY <1>2, <2>1, <2>2, <2>3 DEF TryEntry
<1>3. CASE BotStep
  BY <1>1, <1>2, <1>3 DEF BotStep, ObserveMarket, ReserveBotEntry,
     DecideBotEntry, EndBotAdmission, OnPrice, Stage, Stages, controlVars,
     Threads
<1>4. ASSUME NEW h \in Humans, HumanStep(h) PROVE ControlHeld'
  <2>1. h \in Threads /\ h # WsThread
    BY ThreadsDistinct DEF Threads
  <2>2. CASE ReserveManualClose(h)
    BY <1>1, <2>1, <2>2 DEF ReserveManualClose, Stage, Stages, Admissible,
       controlVars
  <2>3. CASE TryEntry(h)
    BY <1>2, <2>1, <2>3
  <2>4. CASE ~TryEntry(h) /\ ~ReserveManualClose(h)
    BY <1>1, <1>4, <2>1, <2>4 DEF HumanStep, Submit, Resend, AnswerRecorded,
       Deny, ReserveManualEntry, DecideManualEntry, SettleManualEntry,
       ManualClose, ManualCloseRaises, SettleManualClose, Stage, Stages,
       controlVars
  <2> QED BY <2>2, <2>3, <2>4
<1>5. CASE OperatorStep
  <2>1. pc' = pc
    BY <1>5 DEF OperatorStep, SetExecutionControl, StartLoop, StopLoop,
       CheckEnable, WriteEnable, DisableExecution, EmergencyStop,
       EmergencyUnlock
  <2>2. ASSUME NEW authority \in Owners, SetExecutionControl(authority)
        PROVE  \A t \in Threads : pc[t] \notin LockedStages
    BY <2>2 DEF SetExecutionControl, AdmissionInv, LockExclusive, Threads
  <2>3. CASE UNCHANGED controlVars
    BY <2>1, <2>3 DEF ControlHeld, controlVars
  <2>4. CASE \E authority \in Owners : SetExecutionControl(authority)
    BY <2>1, <2>2, <2>4 DEF ControlHeld, LockedStages, Stages
  <2> QED BY <1>5, <2>3, <2>4 DEF OperatorStep, StartLoop, StopLoop,
     CheckEnable, WriteEnable, DisableExecution, EmergencyStop,
     EmergencyUnlock
<1>6. CASE UNCHANGED vars
  BY <1>6 DEF vars, controlVars, ControlHeld
<1> QED BY <1>3, <1>4, <1>5, <1>6 DEF Next

(* Since answers are true, what became of a request can be read off what   *)
(* it did and whether it is answered.                                      *)
StatusMap == [id \in RequestIds |-> Status(id)]
Became(recorded, acts) ==
  IF recorded THEN IF acts > 0 THEN "executed" ELSE "denied"
  ELSE IF acts > 0 THEN "acted" ELSE "open"

LEMMA StatusBecame ==
  ASSUME AnswerTruthful
  PROVE  \A id \in RequestIds : Status(id) = Became(Recorded(id), effects[id])
BY DEF AnswerTruthful, Status, Became, Recorded

LEMMA StatusBecameNext ==
  ASSUME AnswerTruthful'
  PROVE  \A id \in RequestIds :
           Status(id)' = Became(Recorded(id)', effects'[id])
BY DEF AnswerTruthful, Status, Became, Recorded

(* A new answer leaves the answers of other requests, or drops them and    *)
(* forgets what they did.                                                  *)
LEMMA AnswerLeaves ==
  ASSUME TypeOK, LedgerIds, NEW r \in Request, r.id \in RequestIds,
         ~Recorded(r.id), NEW o, RecordAnswer(r, o),
         NEW id \in RequestIds \ {r.id}
  PROVE  \/ (Recorded(id)' <=> Recorded(id)) /\ effects'[id] = effects[id]
         \/ Recorded(id) /\ ~Recorded(id)' /\ effects'[id] = 0
<1>1. /\ effects'[id] \in {0, effects[id]}
      /\ effects'[id] > 0 /\ Recorded(id) => Recorded(id)'
  BY RecordAnswerKeeps
<1>2. ASSUME NEW i \in 1..Len(ledger'), ledger'[i].request.id = id
      PROVE  Recorded(id) /\ effects'[id] = effects[id]
  <2>1. ledger'[i] # [request |-> r, outcome |-> o]
    BY <1>2
  <2>2. PICK j \in 1..Len(ledger) :
               /\ ledger'[i] = ledger[j]
               /\ effects'[ledger[j].request.id]
                    = effects[ledger[j].request.id]
    BY <2>1, RecordShape
  <2> QED BY <1>2, <2>2 DEF Recorded
<1>5. Recorded(id)' => Recorded(id) /\ effects'[id] = effects[id]
  BY <1>2 DEF Recorded
<1>3. ~Recorded(id) => effects'[id] = effects[id]
  <2>1. /\ ledger \in Seq(Answer) /\ Len(ledger) \in Nat
        /\ LedgerLimit \in Nat \ {0}
    BY LenProperties, BoundsNatural DEF TypeOK
  <2>2. CASE Len(ledger) >= LedgerLimit
    <3>1. ledger # <<>> /\ 1 \in 1..Len(ledger)
      BY <2>1, <2>2
    <3>2. Head(ledger) = ledger[1]
      BY <2>1, <3>1, HeadTailProperties
    <3> QED BY <3>1, <3>2 DEF RecordAnswer, Recorded
  <2>3. CASE ~(Len(ledger) >= LedgerLimit)
    BY <2>3 DEF RecordAnswer
  <2> QED BY <2>2, <2>3
<1>4. effects[id] \in Nat
  BY DEF TypeOK
<1> QED BY <1>1, <1>3, <1>4, <1>5

LEMMA DeskAnswers ==
  ASSUME TypeOK, LedgerIds, AnswerTruthful, AnswerTruthful',
         NEW r \in Request, r.id \in RequestIds, ~Recorded(r.id),
         NEW o, RecordAnswer(r, o), UNCHANGED <<controlVars, position>>
  PROVE  Desk!Next
<1> DEFINE dropped == {d \in RequestIds : Recorded(d) /\ ~Recorded(d)'}
<1>1. \A d \in RequestIds : StatusMap[d] = Became(Recorded(d), effects[d])
  BY StatusBecame DEF StatusMap
<1>2. \A d \in RequestIds : Status(d)' = Became(Recorded(d)', effects'[d])
  BY StatusBecameNext
<1>3. Recorded(r.id)' /\ effects'[r.id] = effects[r.id]
  BY RecordAnswerKeeps, RecordShape
<1>4. ASSUME NEW d \in RequestIds
      PROVE  Status(d)' =
               IF d = r.id
               THEN IF StatusMap[r.id] = "acted" THEN "executed" ELSE "denied"
               ELSE IF d \in dropped THEN "open" ELSE StatusMap[d]
  <2>1. CASE d = r.id
    BY <1>1, <1>2, <1>3, <2>1 DEF Became
  <2>2. CASE d # r.id
    BY <1>1, <1>2, <2>2, AnswerLeaves DEF Became
  <2> QED BY <2>1, <2>2
<1>5. dropped \in SUBSET {d \in RequestIds : Desk!Answered(d)}
  BY <1>1 DEF Desk!Answered, Became, StatusMap
<1>6. ~Desk!Answered(r.id)
  BY <1>1 DEF Desk!Answered, Became, StatusMap
<1> HIDE DEF dropped
<1>7. Desk!Answer(r.id)
  BY <1>4, <1>5, <1>6 DEF Desk!Answer, StatusMap, controlVars
<1> QED BY <1>7 DEF Desk!Next

(* A fill or a close for a request inside the lock. *)
LEMMA DeskActs ==
  ASSUME TypeOK, AnswerTruthful, AnswerTruthful', ControlHeld,
         NEW h \in Humans, pc[h] \in {"committed", "closing"},
         NEW id \in RequestIds, ~Recorded(id), effects[id] = 0,
         effects' = [effects EXCEPT ![id] = @ + 1],
         UNCHANGED <<ledger, controlVars>>,
         position'.owner = IF position.owner = "NONE" THEN "MANUAL"
                           ELSE "NONE"
  PROVE  Desk!Next
<1>1. controlAuthority = "MANUAL"
  BY ThreadsDistinct DEF ControlHeld, Threads
<1>2. \A d \in RequestIds : Recorded(d)' <=> Recorded(d)
  BY DEF Recorded
<1>3. /\ effects'[id] = 1
      /\ \A d \in RequestIds \ {id} : effects'[d] = effects[d]
  BY DEF TypeOK
<1>4. Status(id) = "open" /\ Status(id)' = "acted"
  BY <1>2, <1>3, StatusBecame, StatusBecameNext DEF Became
<1>5. \A d \in RequestIds \ {id} : Status(d)' = Status(d)
  BY <1>2, <1>3, StatusBecame, StatusBecameNext DEF Became
<1>6. /\ StatusMap' = [StatusMap EXCEPT ![id] = "acted"]
      /\ StatusMap[id] = "open"
  BY <1>4, <1>5 DEF StatusMap
<1>7. Desk!Acts(id)
  BY <1>1, <1>6 DEF Desk!Acts, StatusMap, controlVars
<1> QED BY <1>7 DEF Desk!Next

(* Steps that leave the ledger and what requests did alone. *)
LEMMA StatusKept ==
  ASSUME UNCHANGED <<ledger, effects>> PROVE StatusMap' = StatusMap
BY DEF StatusMap, Status, Recorded

LEMMA DeskStill ==
  ASSUME UNCHANGED <<ledger, effects, controlVars, position>>
  PROVE  UNCHANGED Desk!vars
BY StatusKept DEF Desk!vars, StatusMap, controlVars

(* The desk has an owner exactly while a position is open. *)
LEMMA DeskOwner ==
  ASSUME TypeOK, OwnerInControl
  PROVE  /\ Flat => position.owner = "NONE"
         /\ ~Flat => position.owner \in {"BOT", "MANUAL"}
BY DEF TypeOK, OwnerInControl, Flat, NoPosition, Owners

LEMMA DeskFills ==
  ASSUME TypeOK, AdmissionInv, ActedOnce, SoundInv, ControlHeld,
         AnswerTruthful, AnswerTruthful', NEW t \in Threads, FillEntry(t)
  PROVE  Desk!Next
<1>1. /\ pc[t] = "committed" /\ position.owner = "NONE"
      /\ position'.owner = reservation.source
      /\ reservation.source = controlAuthority
      /\ UNCHANGED <<ledger, controlVars>>
  BY DeskOwner DEF FillEntry, Stage, AdmissionInv, AuthorityHeld
<1>2. CASE t = WsThread
  <2>1. effects' = effects
    BY <1>1, <1>2 DEF FillEntry, AdmissionInv, RequestUnanswered, EntryStages
  <2>2. controlAuthority = "BOT"
    BY <1>1, <1>2 DEF ControlHeld
  <2>3. Desk!BotOpens
    BY <1>1, <2>1, <2>2, StatusKept
       DEF Desk!BotOpens, StatusMap, controlVars
  <2> QED BY <2>3 DEF Desk!Next
<1>3. ASSUME t \in Humans, NEW id, id = request[t].id
      PROVE  Desk!Next
  <2>1. /\ id \in RequestIds /\ effects[id] = 0 /\ ~Recorded(id)
        /\ reservation.request = id
    BY <1>1, <1>3, NotYetActed
       DEF EntryStages, LockedStages, Stages, SoundInv, AdmissionInv,
           RequestUnanswered
  <2>2. effects' = [effects EXCEPT ![id] = @ + 1]
    BY <2>1, NoRequestDistinct DEF FillEntry
  <2>3. controlAuthority = "MANUAL"
    BY <1>1, <1>3, ThreadsDistinct DEF ControlHeld
  <2> QED BY <1>1, <1>3, <2>1, <2>2, <2>3, DeskActs
<1> QED BY <1>2, <1>3 DEF Threads

LEMMA DeskHuman ==
  ASSUME TypeOK, AdmissionInv, ActedOnce, SoundInv, ControlHeld,
         AnswerTruthful, AnswerTruthful', NEW h \in Humans, HumanStep(h)
  PROVE  Desk!Next \/ UNCHANGED Desk!vars
<1>1. CASE Deny(h) \/ SettleManualEntry(h) \/ SettleManualClose(h)
  <2>1. /\ request[h] \in Request /\ request[h].id \in RequestIds
        /\ ~Recorded(request[h].id)
    BY <1>1, AnswersRead DEF TypeOK
  <2>2. PICK o : RecordAnswer(request[h], o)
    BY <1>1 DEF Deny, SettleManualEntry, SettleManualClose
  <2>3. UNCHANGED <<controlVars, position>>
    BY <1>1 DEF Deny, SettleManualEntry, SettleManualClose, engineVars
  <2> QED BY <2>1, <2>2, <2>3, DeskAnswers DEF SoundInv
<1>2. CASE TryEntry(h)
  <2>1. CASE FillEntry(h)
    BY <2>1, DeskFills DEF Threads
  <2>2. CASE ~FillEntry(h)
    BY <1>2, <2>2, DeskStill DEF TryEntry, Authorize, CommitEntry,
       AbandonEntry, RejectEntry, clientVars, engineVars
  <2> QED BY <2>1, <2>2
<1>3. ASSUME ManualClose(h), NEW id, id = request[h].id
      PROVE  Desk!Next \/ UNCHANGED Desk!vars
  <2>1. CASE Flat
    BY <1>3, <2>1, DeskStill DEF ManualClose
  <2>2. CASE ~Flat
    <3>1. /\ id \in RequestIds /\ effects[id] = 0 /\ ~Recorded(id)
          /\ pc[h] = "closing"
      BY <1>3, NotYetActed
         DEF ManualClose, Stage, LockedStages, Stages, SoundInv, AdmissionInv,
             RequestUnanswered
    <3>2. /\ effects' = [effects EXCEPT ![id] = @ + 1]
          /\ position' = NoPosition
          /\ UNCHANGED <<ledger, controlVars>>
      BY <1>3, <2>2 DEF ManualClose
    <3>3. /\ position.owner # "NONE" /\ position'.owner = "NONE"
      BY <2>2, <3>2, DeskOwner DEF AdmissionInv, NoPosition
    <3> QED BY <3>1, <3>2, <3>3, DeskActs
  <2> QED BY <2>1, <2>2
<1>4. CASE /\ ~(Deny(h) \/ SettleManualEntry(h) \/ SettleManualClose(h))
           /\ ~TryEntry(h) /\ ~ManualClose(h)
  BY <1>4, DeskStill DEF HumanStep, Submit, Resend, AnswerRecorded,
     ReserveManualEntry, DecideManualEntry, ReserveManualClose,
     ManualCloseRaises, clientVars, engineVars
<1> QED BY <1>1, <1>2, <1>3, <1>4

LEMMA DeskStep ==
  ASSUME TypeOK, AdmissionInv, ActedOnce, SoundInv, ControlHeld,
         AnswerTruthful, AnswerTruthful', [Next]_vars
  PROVE  [Desk!Next]_(Desk!vars)
<1>1. CASE BotStep
  <2>1. CASE FillEntry(WsThread)
    BY <2>1, DeskFills DEF Threads
  <2>2. ASSUME NEW exit \in BOOLEAN, OnPrice(exit)
        PROVE  Desk!Exit \/ UNCHANGED Desk!vars
    <3>1. CASE exit
      <4>1. /\ position.owner # "NONE" /\ position'.owner = "NONE"
            /\ UNCHANGED <<ledger, effects, controlVars>>
        BY <2>2, <3>1, DeskOwner
           DEF OnPrice, AdmissionInv, NoPosition, clientVars
      <4> QED BY <4>1, StatusKept DEF Desk!Exit, StatusMap, controlVars
    <3>2. CASE ~exit
      BY <2>2, <3>2, DeskStill DEF OnPrice, clientVars
    <3> QED BY <3>1, <3>2
  <2>3. CASE ~FillEntry(WsThread) /\ ~(\E exit \in BOOLEAN : OnPrice(exit))
    BY <1>1, <2>3, DeskStill DEF BotStep, ObserveMarket, ReserveBotEntry,
       DecideBotEntry, TryEntry, Authorize, CommitEntry, AbandonEntry,
       RejectEntry, EndBotAdmission, clientVars, engineVars
  <2> QED BY <2>1, <2>2, <2>3 DEF Desk!Next
<1>2. CASE \E h \in Humans : HumanStep(h)
  BY <1>2, DeskHuman
<1>3. ASSUME NEW authority \in Owners, SetExecutionControl(authority)
      PROVE  Desk!PassControl
  <2>1. /\ position.owner = "NONE" /\ UNCHANGED <<ledger, effects, position>>
        /\ controlAuthority' = authority /\ authority # controlAuthority
    BY <1>3, DeskOwner DEF SetExecutionControl, SwitchAllowed, AdmissionInv,
       clientVars, engineVars
  <2> QED BY <2>1, StatusKept DEF Desk!PassControl, StatusMap, Owners
<1>4. CASE \/ StartLoop \/ StopLoop \/ CheckEnable \/ WriteEnable
           \/ DisableExecution \/ EmergencyStop \/ EmergencyUnlock
           \/ UNCHANGED vars
  BY <1>4, DeskStill DEF vars, StartLoop, StopLoop, CheckEnable, WriteEnable,
     DisableExecution, EmergencyStop, EmergencyUnlock, clientVars, engineVars
<1> QED BY <1>1, <1>2, <1>3, <1>4 DEF Next, OperatorStep, Desk!Next

(* The boundary implements TradingDesk, for any number of clients and ids   *)
(* and any ledger limit.                                                   *)
THEOREM BoundaryRefinesDesk == Spec => ImplementsDesk
<1>1. Init => ControlHeld /\ Desk!Init
  BY DEF Init, ControlHeld, Desk!Init, Status, Recorded, NoPosition
<1>2. TypeOK /\ AdmissionInv /\ ControlHeld /\ [Next]_vars => ControlHeld'
  BY ControlStep
<1>3. TypeOK /\ AdmissionInv /\ ActedOnce /\ SoundInv /\ ControlHeld
        /\ AnswerTruthful /\ AnswerTruthful' /\ [Next]_vars
        => [Desk!Next]_(Desk!vars)
  BY DeskStep
<1> QED
  BY <1>1, <1>2, <1>3, TypeCorrect, AdmissionInvariant, ActedOnceInvariant,
     SoundInvariant, AnswersTrue, PTL DEF Spec, ImplementsDesk, Desk!Spec
=============================================================================
