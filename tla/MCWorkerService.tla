-------------------------- MODULE MCWorkerService --------------------------
(* Small instances of WorkerService. *)
EXTENDS WorkerService, TLC

CONSTANTS s1, s2, n1, n2

OnePartition == [n \in Nodes |-> 0]

Symmetry == Permutations({s1, s2})
=============================================================================
