------------------------- MODULE MCProviderTracking -------------------------
(* An instance of ProviderTracking for TLC: the app is opened, and its      *)
(* reconciliation is still going on when the provider signs out.            *)
EXTENDS ProviderTracking
=============================================================================
