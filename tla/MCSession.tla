------------------------------ MODULE MCSession ------------------------------
(* The session store and a replica of it: leases of three keys in two      *)
(* tracked rows, and records of one key across takeovers.                  *)
EXTENDS SessionReplication, TLC

Symmetry == Permutations(Owners)

=============================================================================
