-------------------------- MODULE MCScheduledJobs --------------------------
(* Small instances of ScheduledJobs. *)
EXTENDS ScheduledJobs, TLC

CONSTANTS j1, j2

\* One job gives up at its first failure, the other one has more attempts.
OneAndTwo == [j \in Jobs |-> IF j = j1 THEN 1 ELSE 2]
ZeroAndTwo == [j \in Jobs |-> IF j = j1 THEN 0 ELSE 2]
=============================================================================
