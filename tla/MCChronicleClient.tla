------------------------- MODULE MCChronicleClient -------------------------
(* ChronicleClient on a few concurrent calls. *)
EXTENDS ChronicleClient, TLC

Symmetry == Permutations(Callers)
=============================================================================
