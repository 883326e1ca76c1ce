-------------------------- MODULE MCEmergencyStop --------------------------
(* Small instances of EmergencyStop for TLC.                               *)
EXTENDS EmergencyStop

(* No order is special, so they are taken in turn.                         *)
InTurn ==
  \A o, p \in Orders : orders[o].kind # "none" /\ p < o => orders[p].kind # "none"

Settled ==
  /\ \A t \in Threads : pc[t] = "idle"
  /\ \A o \in Orders : ~Open(o)

(* Bound: after the first route, another one is called when trading has     *)
(* settled.                                                                *)
RoutesApart ==
  Press \/ Unlock \/ Begin =>
    \/ session = "running" /\ emergency = "READY"
    \/ Settled

MCSpec ==
  /\ EmergencyInit
  /\ [][EmergencyNext /\ RoutesApart /\ InTurn']_emergencyVars
  /\ EmergencyFairness
=============================================================================
