--------------------------- MODULE MCCredentialFlow ---------------------------
(* Small instances of CredentialFlow for TLC.                              *)
EXTENDS CredentialFlow

CONSTANTS c1, c2, c3, a1, g1

\* c1 and c2 open one mailbox, c3 another.
Mailboxes == [c \in Credentials |-> IF c = c3 THEN "m2" ELSE "m1"]

\* The configuration the process was started with binds one of the Agents.
FirstConfig ==
  [agents |-> Agents, bindings |-> {[agent |-> g1, bot |-> a1]},
   channels |-> [b \in Bots |-> [agent |-> Unset, valid |-> TRUE]]]

FirstAccounts == {a.id : a \in discoverPluginAccounts(FirstConfig)}
=============================================================================
