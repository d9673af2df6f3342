----------------------------- MODULE MCSipCalls -----------------------------
(* Small instances of SipCalls. *)
EXTENDS SipCalls, TLC

CONSTANTS s1, s2

Symmetry == Permutations({s1, s2})
=============================================================================
