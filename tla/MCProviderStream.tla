-------------------------- MODULE MCProviderStream --------------------------
(* The Provider call on a small instance; its constants are numbers.       *)
EXTENDS ProviderStream
=============================================================================
