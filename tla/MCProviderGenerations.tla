----------------------- MODULE MCProviderGenerations -----------------------
(* Instances of ProviderGenerations for TLC.                               *)
EXTENDS ProviderGenerations
=============================================================================
