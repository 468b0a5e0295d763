---------------------------- MODULE MCConfigFanout ----------------------------
EXTENDS ConfigFanout

Option(policy, capacity, budget) ==
  [policy |-> policy, capacity |-> capacity, budget |-> budget]

(* Every policy, with and without a byte budget; the marker of a resync    *)
(* does not fit a budget of 1, and a change of size 3 no budget below 3.   *)
SmallOptions ==
  {Option("ForceResync", 1, None), Option("ForceResync", 2, 1),
   Option("DisconnectOnLag", 1, None), Option("DisconnectOnLag", 2, 2),
   Option("DropOldest", 1, None), Option("DropOldest", 2, 3),
   Option("DropNewest", 2, 3)}

=============================================================================
