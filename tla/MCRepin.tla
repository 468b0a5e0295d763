------------------------------- MODULE MCRepin -------------------------------
EXTENDS Repin, TLC

(* Nothing tells owners, hosts or calls apart. *)
Symmetry ==
  Permutations(Owners) \cup Permutations(Hosts) \cup Permutations(Procs)

=============================================================================
