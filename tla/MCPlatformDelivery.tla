------------------------- MODULE MCPlatformDelivery -------------------------
(* Instances of PlatformDelivery for TLC.                                  *)
EXTENDS PlatformDelivery
=============================================================================
