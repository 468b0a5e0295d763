---------------------------- MODULE MCConfigBus ----------------------------
(* Small instances of the config bus: the requests clients submit.         *)
EXTENDS ConfigBus, TLC

CONSTANTS c1, c2, k1, k2, q1, q2, q3, q4, q5, q6, q7

Request(id, key, mode, base, candidate, target) ==
  [id |-> id, key |-> key, mode |-> mode, base |-> base,
   candidate |-> candidate, target |-> target]

(* Two writers that contend for the same base, a commit-confirmed, its     *)
(* confirmation, its cancellation and a rollback.                          *)
DecideRequests ==
  {Request(q1, k1, "commitConfirmed", 0, c1, None),
   Request(q2, k2, "commit", 1, None, None),
   Request(q3, None, "cancelConfirmed", 1, None, None),
   Request(q4, None, "rollback", 1, None, [kind |-> "previous"]),
   Request(q5, None, "commit", 1, c2, None)}

(* The same on a longer history: a second commit-confirmed after the first *)
(* is decided, and rollbacks to the bootstrap config.                      *)
LongRequests ==
  DecideRequests \cup
  {Request(q6, None, "commitConfirmed", 2, c2, None),
   Request(q7, None, "rollback", 2, None, [kind |-> "version", version |-> 0])}

(* For two buses: a commit-confirmed that is retried and what may decide   *)
(* it, a second request under its key, and an unkeyed request that may be  *)
(* submitted twice under one identifier.                                   *)
PairRequests ==
  {Request(q1, k1, "commitConfirmed", 0, c1, None),
   Request(q2, k2, "commit", 1, None, None),
   Request(q3, None, "cancelConfirmed", 1, None, None),
   Request(q4, None, "rollback", 1, None, [kind |-> "previous"]),
   Request(q5, k1, "commit", 0, c2, None),
   Request(q6, None, "commit", 0, c2, None)}

Symmetry == Permutations(Buses)

=============================================================================
