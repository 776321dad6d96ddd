-------------------------- MODULE MCAccountRegistry --------------------------
(* Small instances of AccountRegistry for TLC.                             *)
EXTENDS AccountRegistry

CONSTANTS c1, c2, c3

\* c1 and c2 open one mailbox, c3 another.
Mailboxes == [c \in Credentials |-> IF c = c3 THEN "m2" ELSE "m1"]
=============================================================================
