--------------------------- MODULE MCAuthorization ---------------------------
(* Small instances of Authorization for TLC.                               *)
EXTENDS Authorization, TLC

\* Two calls of one tool are alike, and so are two codes, and two requests.
Symmetry == Permutations(Starters) \union Permutations(Codes)
            \union Permutations(Requests)
=============================================================================
