------------------------ MODULE MCOutboundCallback ------------------------
(* Small instances of OutboundCallback. *)
EXTENDS OutboundCallback, TLC

CONSTANTS c1, c2, a1, a2, u1, u2

\* Both callbacks are for one address, or each for its own.
OneCaller == [o \in Callbacks |-> u1]
TwoCallers == [o \in Callbacks |-> IF o = c1 THEN u1 ELSE u2]

Symmetry == Permutations({a1, a2})
Symmetries == Symmetry \cup Permutations({c1, c2})
=============================================================================
