--------------------------- MODULE MCEventStores ---------------------------
(* EventStores on interchangeable calls and keys. *)
EXTENDS EventStores, TLC

Symmetry == Permutations(Callers) \cup Permutations(Keys)
=============================================================================
