---------------------------- MODULE MCSafeSwitch ----------------------------
(* Small instances of SafeSwitch for TLC. Sessions and symbols are          *)
(* interchangeable, so one of each may be the first: every behaviour is a   *)
(* renaming of one that starts there.                                       *)
EXTENDS SafeSwitch

CONSTANTS FirstSession, FirstSymbol

MCInit == Init /\ ws = FirstSession /\ activeSymbol = FirstSymbol
MCSpec == MCInit /\ [][Next]_vars /\ Fairness

(* Where two transactions, the stop and the start are interleaved: updates *)
(* of the first feed before any transaction begins, and no others.  What   *)
(* an update does is in marketSymbol, which the properties do not read.    *)
FewUpdates ==
  \A r \in Runtimes :
    callback[r] = "accepted" =>
      r = FirstSession /\ \A n \in Transactions : phase[n] = "unborn"
FewUpdatesSpec == MCInit /\ [][Next /\ FewUpdates']_vars /\ Fairness
=============================================================================
