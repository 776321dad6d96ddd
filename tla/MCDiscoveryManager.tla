-------------------------- MODULE MCDiscoveryManager --------------------------
(* Small instances of DiscoveryManager for TLC.                            *)
EXTENDS DiscoveryManager, TLC

\* Loops are only told apart by what they are used for.
Symmetry == Permutations(Loops)
=============================================================================
