---------------------------- MODULE FlowAccount ----------------------------
(***************************************************************************)
(* What the commit of external cash flows promises the trading result: new *)
(* transfers are taken together, in a transaction that is the only one; it *)
(* ends when the loss state has separated each of them, once, and keeps    *)
(* every earlier one but those that a save of the runtime has taken away.  *)
(* The runtime works on what was separated when no transaction was pending. *)
(***************************************************************************)
EXTENDS Naturals

CONSTANT Transfers

VARIABLES
  stage,      \* of each transfer: "open", "pending", "processed"
  separated,  \* how often the loss state separates it
  known,      \* the same, as the runtime has it
  dropped     \* transfers that a save of the runtime took away

vars == <<stage, separated, known, dropped>>

Of(s) == {e \in Transfers : stage[e] = s}
In(flows) == {e \in Transfers : flows[e] > 0}
Taken == Of("processed") \cup Of("pending")

Init ==
  /\ stage = [e \in Transfers |-> "open"]
  /\ separated = [e \in Transfers |-> 0] /\ known = separated
  /\ dropped = {}

Begin ==
  /\ Of("pending") = {}
  /\ \E new \in (SUBSET Of("open")) \ {{}} :
       stage' = [e \in Transfers |-> IF e \in new THEN "pending" ELSE stage[e]]
  /\ UNCHANGED <<separated, known, dropped>>

(* The transaction's loss state is written; it may be more than once. *)
Separate ==
  /\ Of("pending") # {}
  /\ separated' \in [Transfers -> {0, 1}]
  /\ In(separated') \subseteq Taken
  /\ Taken \ dropped \subseteq In(separated')
  /\ UNCHANGED <<stage, known, dropped>>

(* A save of the runtime. *)
Overwrite ==
  /\ separated' = known
  /\ dropped' = dropped \cup (In(separated) \ In(known))
  /\ UNCHANGED <<stage, known>>

Finish ==
  /\ Of("pending") # {}
  /\ Taken \subseteq In(separated) \cup dropped
  /\ stage' = [e \in Transfers |->
                 IF stage[e] = "pending" THEN "processed" ELSE stage[e]]
  /\ UNCHANGED <<separated, known, dropped>>

Load ==
  /\ Of("pending") = {}
  /\ known' = separated
  /\ UNCHANGED <<stage, separated, dropped>>

Next == Begin \/ Separate \/ Overwrite \/ Finish \/ Load

Spec == Init /\ [][Next]_vars
=============================================================================
