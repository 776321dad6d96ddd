---------------------------- MODULE MCMailWrites ----------------------------
(* Small instances of MailWrites for TLC.                                  *)
EXTENDS MailWrites, TLC

\* Tool calls are alike, and so are mails.
Symmetry == Permutations(Calls) \union Permutations(Emails)
=============================================================================
