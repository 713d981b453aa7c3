----------------------------- MODULE MCV3Stream -----------------------------
(* Symmetry for the run of V3Stream: no property tells the values apart.   *)
EXTENDS V3Stream, TLC

SomeValues == Permutations(Values)

=============================================================================
