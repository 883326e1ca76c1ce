------------------------- MODULE MCLossGovernance --------------------------
(* Small instances of LossGovernance for TLC.                              *)
EXTENDS LossGovernance

(* Named bound: while a commit of cash flows is under way, or its journal  *)
(* stuck, no gate is asked and no configuration changes or recovers.       *)
FewCommits ==
  flow'.stage # "none" =>
    pc'[Gate] = "idle" /\ web'.kind \notin {"recover", "config"}

FewCommitsSpec == Init /\ [][Next /\ FewCommits]_vars
=============================================================================
