--------------------------- MODULE MCSessionCache ---------------------------
(* Instances of the session cache: readers, wrapper writers and keys are   *)
(* interchangeable.                                                        *)
EXTENDS SessionCache, TLC

Symmetry == Permutations(Readers) \cup Permutations(Keys)

=============================================================================
