------------------------ MODULE MCEntryDuringSwitch ------------------------
(* Small instances of EntryDuringSwitch for TLC.                           *)
EXTENDS EntryDuringSwitch, TLC

(* Neither symbol is special, nor either request id.                       *)
Symmetry == Permutations(Symbols) \cup Permutations(RequestIds)
=============================================================================
