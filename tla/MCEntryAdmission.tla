-------------------------- MODULE MCEntryAdmission --------------------------
(* Small instances of EntryAdmission for TLC.                              *)
EXTENDS EntryAdmission, TLC

(* The HTTP threads and the request ids are interchangeable.               *)
Symmetry == Permutations(Humans) \cup Permutations(RequestIds)
=============================================================================
