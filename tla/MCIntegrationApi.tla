-------------------------- MODULE MCIntegrationApi --------------------------
(* Small instances of IntegrationApi. *)
EXTENDS IntegrationApi
=============================================================================
