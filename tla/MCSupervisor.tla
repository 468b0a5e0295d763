----------------------------- MODULE MCSupervisor ------------------------------
EXTENDS Supervisor

(* The name of a task says its criticality. *)
ByName == [n \in Tasks |-> CASE n = "f" -> "fatal"
                             [] n = "d" -> "degrade"]

=============================================================================
