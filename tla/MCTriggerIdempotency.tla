------------------------ MODULE MCTriggerIdempotency ------------------------
(* Small instances of TriggerIdempotency for TLC.                          *)
EXTENDS TriggerIdempotency, TLC

Symmetry == Permutations(Workers) \cup Permutations(Fingerprints)
=============================================================================
