----------------------------- MODULE LiveAccount -----------------------------
(***************************************************************************)
(* What LIVE trading promises about the account: an entry is sent only for *)
(* a flat account whose position the engine does not hold, so entries come *)
(* one after the other, and each ends before the next begins; the engine   *)
(* takes for its own only a position that is there, and forgets it only    *)
(* when the account is flat.  The promise ends with an entry whose request *)
(* was lost on the wire.                                                   *)
(***************************************************************************)

VARIABLES
  exposure,   \* "flat", "entering", "exposed"; "lost" after a lost request
  believed    \* the engine holds a position

vars == <<exposure, believed>>

Init == exposure = "flat" /\ believed = FALSE

Enter ==
  /\ exposure = "flat" /\ ~believed
  /\ exposure' = "entering"
  /\ UNCHANGED believed

Refuse ==
  /\ exposure = "entering" /\ exposure' = "flat"
  /\ UNCHANGED believed

Open ==
  /\ exposure = "entering" /\ exposure' = "exposed"
  /\ UNCHANGED believed

Believe ==
  /\ exposure = "exposed"
  /\ believed' = TRUE
  /\ UNCHANGED exposure

(* By a close of the engine, of the operator or of the exchange. *)
Close ==
  /\ exposure = "exposed" /\ exposure' = "flat"
  /\ UNCHANGED believed

Forget ==
  /\ exposure = "flat"
  /\ believed' = FALSE
  /\ UNCHANGED exposure

Lose ==
  /\ exposure = "entering" /\ exposure' = "lost"
  /\ UNCHANGED believed

Astray ==
  /\ exposure = "lost"
  /\ believed' \in BOOLEAN
  /\ UNCHANGED exposure

Next ==
  Enter \/ Refuse \/ Open \/ Believe \/ Close \/ Forget \/ Lose \/ Astray

Spec == Init /\ [][Next]_vars
=============================================================================
