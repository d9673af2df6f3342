-------------------------- MODULE MCCallScheduler --------------------------
(* Small instances of CallScheduler. *)
EXTENDS CallScheduler, TLC

CONSTANTS s1, s2, s3, n1, n2

\* Both nodes listen on the same partition, as with the default NODE_PARTITION.
OnePartition == [n \in Nodes |-> 0]

Symmetry == Permutations({s1, s2}) \cup Permutations({n1, n2})
=============================================================================
