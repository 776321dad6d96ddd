---------------------------- MODULE InboxDelivery ----------------------------
(***************************************************************************)
(* What mail discovery promises of one Plugin Account, without pages,      *)
(* cursors, files or polls: a line of mail with delivery at least once.    *)
(*                                                                         *)
(* A line is opened for a mail account and holds the mail that arrives     *)
(* there from then on, and nothing older.  A mail is taken up one at a     *)
(* time; a failure may lose what was taken up, not the mail.  It only      *)
(* leaves the line when it has been settled or has left the Inbox.         *)
(***************************************************************************)
EXTENDS FiniteSets

CONSTANTS
  Accounts,  \* mail accounts a line can be opened for
  Emails,    \* mail
  NoEmail,   \* nothing is taken up
  NoLine     \* there is no line

VARIABLES
  owner,     \* the account each mail belongs to
  arrived,   \* mail that exists or has existed
  strayed,   \* mail that is or has been outside the Inbox
  line,      \* the line in force: its account and the mail waiting in it
  opening,   \* the line about to replace it
  taken,     \* the mail taken up now
  settled    \* mail with a final outcome

vars == <<owner, arrived, strayed, line, opening, taken, settled>>

Line(a, S) == [account |-> a, mail |-> S]

Joined(l, e) ==
  IF l # NoLine /\ l.account = owner[e]
  THEN Line(l.account, l.mail \union {e})
  ELSE l

\* A mail arrives, in the Inbox or elsewhere, and joins the lines of its account.
Arrive(e) ==
  /\ e \notin arrived
  /\ arrived' = arrived \union {e}
  /\ strayed' \in {strayed, strayed \union {e}}
  /\ line' = Joined(line, e)
  /\ opening' = Joined(opening, e)
  /\ UNCHANGED <<owner, taken, settled>>

\* A mail leaves the Inbox, or returns to it.
Stray(e) ==
  /\ strayed' = strayed \union {e}
  /\ UNCHANGED <<owner, arrived, line, opening, taken, settled>>

\* A line of account a is prepared: mail counts from this moment.
Open(a) ==
  /\ opening = NoLine
  /\ opening' = Line(a, {})
  /\ UNCHANGED <<owner, arrived, strayed, line, taken, settled>>

\* The prepared line replaces the one in force.
Switch ==
  /\ opening # NoLine /\ taken = NoEmail
  /\ line' = opening
  /\ opening' = NoLine
  /\ UNCHANGED <<owner, arrived, strayed, taken, settled>>

\* A mail in line is taken up: handed to the Agent, or over its limit.
TakeUp(e) ==
  /\ taken = NoEmail /\ opening = NoLine
  /\ line # NoLine /\ e \in line.mail
  /\ taken' = e
  /\ UNCHANGED <<owner, arrived, strayed, line, opening, settled>>

\* Its outcome becomes final.
Settle ==
  /\ taken # NoEmail
  /\ settled' = settled \union {taken}
  /\ taken' = NoEmail
  /\ UNCHANGED <<owner, arrived, strayed, line, opening>>

\* Mail leaves the line: only what is settled or has been outside the Inbox.
Pass(S) ==
  /\ line # NoLine /\ taken = NoEmail
  /\ S \subseteq settled \union strayed
  /\ line' = Line(line.account, line.mail \ S)
  /\ UNCHANGED <<owner, arrived, strayed, opening, taken, settled>>

\* What is under way is given up; the line in force keeps its mail.
GiveUp ==
  /\ taken' = NoEmail
  /\ opening' = NoLine
  /\ UNCHANGED <<owner, arrived, strayed, line, settled>>

Init ==
  /\ owner \in [Emails -> Accounts]
  /\ arrived = {} /\ strayed = {} /\ settled = {}
  /\ line = NoLine /\ opening = NoLine
  /\ taken = NoEmail

Next ==
  \/ \E e \in Emails : Arrive(e) \/ Stray(e) \/ TakeUp(e)
  \/ \E a \in Accounts : Open(a)
  \/ Switch \/ Settle \/ GiveUp
  \/ \E S \in SUBSET Emails : Pass(S)

Spec == Init /\ [][Next]_vars
=============================================================================
