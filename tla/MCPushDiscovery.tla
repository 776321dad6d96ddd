--------------------------- MODULE MCPushDiscovery ---------------------------
(* Small instances of PushDiscovery for TLC.                               *)
EXTENDS PushDiscovery
=============================================================================
