-------------------------- MODULE MCCallPipeline --------------------------
(* Small instances of CallPipeline. *)
EXTENDS CallPipeline, TLC

CONSTANTS s1, s2, n1, n2

OnePartition == [n \in Nodes |-> 0]

NodeSymmetry == Permutations({n1, n2})
=============================================================================
