--------------------------- MODULE MCMailDiscovery ---------------------------
(* Small instances of MailDiscovery for TLC.                               *)
EXTENDS MailDiscovery, TLC

Symmetry == Permutations(Emails)
=============================================================================
