-------------------------- MODULE MCReceiverQueue --------------------------
(* Small instances of ReceiverQueue. *)
EXTENDS ReceiverQueue

CONSTANTS s1, s2, s3, h1, h2
=============================================================================
