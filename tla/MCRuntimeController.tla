------------------------- MODULE MCRuntimeController -------------------------
(* Small instances of RuntimeController for TLC.                           *)
EXTENDS RuntimeController
=============================================================================
