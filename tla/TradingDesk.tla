---------------------------- MODULE TradingDesk ----------------------------
(***************************************************************************)
(* What the entry boundary promises its users: there is one position, and  *)
(* the side in control opened it; control passes only while there is none. *)
(* A request opens or closes it at most once, under human control, and is  *)
(* answered with what it did; what it did is forgotten with its answer.    *)
(***************************************************************************)

CONSTANT RequestIds

VARIABLES
  control,   \* who may open a position: "BOT", "MANUAL"
  owner,     \* who opened the position, or "NONE"
  status     \* of a request: "open", "acted"; answered "executed", "denied"

vars == <<control, owner, status>>

Answered(id) == status[id] \in {"executed", "denied"}

Init ==
  /\ control = "BOT" /\ owner = "NONE"
  /\ status = [id \in RequestIds |-> "open"]

PassControl ==
  /\ owner = "NONE"
  /\ control' \in {"BOT", "MANUAL"} \ {control}
  /\ UNCHANGED <<owner, status>>

BotOpens ==
  /\ control = "BOT" /\ owner = "NONE"
  /\ owner' = "BOT"
  /\ UNCHANGED <<control, status>>

(* SL, TP or a strategy exit. *)
Exit ==
  /\ owner # "NONE" /\ owner' = "NONE"
  /\ UNCHANGED <<control, status>>

Acts(id) ==
  /\ control = "MANUAL"
  /\ status[id] = "open"
  /\ owner' = IF owner = "NONE" THEN "MANUAL" ELSE "NONE"
  /\ status' = [status EXCEPT ![id] = "acted"]
  /\ UNCHANGED control

(* Older answers may be dropped for the new one. *)
Answer(id) ==
  /\ ~Answered(id)
  /\ \E dropped \in SUBSET {d \in RequestIds : Answered(d)} :
       status' = [d \in RequestIds |->
         IF d = id THEN IF status[id] = "acted" THEN "executed" ELSE "denied"
         ELSE IF d \in dropped THEN "open" ELSE status[d]]
  /\ UNCHANGED <<control, owner>>

Next ==
  \/ PassControl \/ BotOpens \/ Exit
  \/ \E id \in RequestIds : Acts(id) \/ Answer(id)

Spec == Init /\ [][Next]_vars
=============================================================================
