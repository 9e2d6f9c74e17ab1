--------------------------- MODULE MCObservations ---------------------------
(* Observations of one or two observers. *)
EXTENDS Observations, TLC

Symmetry == Permutations(Observers) \cup Permutations(Reconnects)
=============================================================================
