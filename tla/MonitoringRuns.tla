--------------------------- MODULE MonitoringRuns ---------------------------
(***************************************************************************)
(* What the monitoring trigger promises whoever sends a request, and sends *)
(* it again: the runner runs once at a time; it is not run for a request   *)
(* while the time of an earlier run that did not report a failure lasts;   *)
(* the result of a run that succeeded is what the request is answered with *)
(* for as long as that time lasts, and no other result is.                 *)
(*                                                                         *)
(* A claim is a number; its time ends early only when its owner gives it   *)
(* up before it has succeeded.                                             *)
(***************************************************************************)
EXTENDS Naturals

CONSTANTS Keys, MaxClaims

VARIABLES
  runs,      \* by claim: its request, what became of its run, its time
  running,   \* the claims whose run is in the runner
  answers,   \* by request: the claim whose result is the answer, if any
  now

vars == <<runs, running, answers, now>>

NoAnswer == 0
Claims == 1..MaxClaims

Init ==
  /\ \A n \in Claims : runs[n].state = "none"
  /\ running = {}
  /\ answers = [k \in Keys |-> NoAnswer]
  /\ now = 0

Lasts(n) == runs[n].until > now

(* The answer to k may go once its time is over. *)
Lapses(k) ==
  /\ \A n \in Claims : answers[k] = n => ~Lasts(n)
  /\ answers' = [answers EXCEPT ![k] = NoAnswer]

Accept(n, k) ==
  /\ runs[n].state = "none"
  /\ runs' = [runs EXCEPT ![n] = [key |-> k, state |-> "claimed",
                                  until |-> runs'[n].until]]
  /\ Lapses(k)
  /\ UNCHANGED <<running, now>>

(* No other run of the request has a time that lasts, failures apart. *)
Start(n) ==
  /\ running = {} /\ running' = {n}
  /\ runs[n].state = "claimed"
  /\ \A m \in Claims :
       /\ m # n /\ runs[m].key = runs[n].key
       /\ runs[m].state \in {"open", "succeeded"}
       => ~Lasts(m)
  /\ runs' = [runs EXCEPT ![n].state = "open"]
  /\ UNCHANGED <<answers, now>>

(* The runner returns, or its process dies. *)
Leave ==
  /\ running # {} /\ running' = {}
  /\ UNCHANGED <<runs, answers, now>>

(* The time of a success is not shorter than that of its claim. *)
Succeed(n) ==
  /\ runs[n].state = "open" /\ n \notin running
  /\ runs' = [runs EXCEPT ![n] = [@ EXCEPT !.state = "succeeded",
                                           !.until = runs'[n].until]]
  /\ Lasts(n) => runs'[n].until >= runs[n].until
  /\ answers' = [answers EXCEPT ![runs[n].key] = n]
  /\ UNCHANGED <<running, now>>

Fail(n) ==
  /\ runs[n].state \in {"claimed", "open"} /\ n \notin running
  /\ runs' = [runs EXCEPT ![n].state = "failed"]
  /\ answers[runs[n].key] = NoAnswer
  /\ UNCHANGED <<running, answers, now>>

GiveUp(n) ==
  /\ runs[n].state # "succeeded" /\ Lasts(n)
  /\ runs' = [runs EXCEPT ![n].until = now]
  /\ UNCHANGED <<running, answers, now>>

Forget(k) ==
  /\ Lapses(k)
  /\ UNCHANGED <<runs, running, now>>

Tick ==
  /\ now' = now + 1
  /\ UNCHANGED <<runs, running, answers>>

Next ==
  \/ \E n \in Claims :
       \/ \E k \in Keys : Accept(n, k)
       \/ Start(n) \/ Succeed(n) \/ Fail(n) \/ GiveUp(n)
  \/ \E k \in Keys : Forget(k)
  \/ Leave \/ Tick

Spec == Init /\ [][Next]_vars
=============================================================================
