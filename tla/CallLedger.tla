----------------------------- MODULE CallLedger ------------------------------
(***************************************************************************)
(* What the call queue promises for each request, without partitions,      *)
(* nodes or offsets.  A submitted request is decided once: it is assigned  *)
(* to a worker, or set aside (no capacity, refused by the broker, not      *)
(* readable).  An assignment is final.  A request set aside is looked at   *)
(* again only after a crash of the scheduler.                              *)
(***************************************************************************)
CONSTANT Sessions

VARIABLES
  stage,     \* how far each request is
  crashed    \* whether the scheduler was ever restarted

Stages == {"new", "submitted", "assigned", "aside"}

Init ==
  /\ stage = [s \in Sessions |-> "new"]
  /\ crashed = FALSE

Advance(s, from, to) ==
  /\ stage[s] = from
  /\ stage' = [stage EXCEPT ![s] = to]
  /\ UNCHANGED crashed

Submit(s) == Advance(s, "new", "submitted")

Assign(s) == Advance(s, "submitted", "assigned")

SetAside(s) == Advance(s, "submitted", "aside")

Reconsider(s) == crashed /\ Advance(s, "aside", "assigned")

Crash == crashed' = TRUE /\ UNCHANGED stage

Next ==
  \/ \E s \in Sessions : Submit(s) \/ Assign(s) \/ SetAside(s) \/ Reconsider(s)
  \/ Crash

Spec == Init /\ [][Next]_<<stage, crashed>>
=============================================================================
