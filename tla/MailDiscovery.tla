---------------------------- MODULE MailDiscovery ----------------------------
(***************************************************************************)
(* Mail discovery of one Plugin Account: MailChangesPoller.pollOnce, the   *)
(* FileDiscoveryStateStore it reads and writes, the loop of                *)
(* AccountDiscoveryManager that calls it again and again, and the JMAP     *)
(* server (external) whose Email/changes it follows.                       *)
(*                                                                         *)
(* A poll is a chain of awaits, so it is a chain of steps here: the server *)
(* changes between any two of them, and each may fail or be cut off by a   *)
(* crash or by the replacement of the account's runtime.  Only `file`      *)
(* survives a cut; what the poll holds in memory is lost.                  *)
(***************************************************************************)
EXTENDS Integers, Sequences, FiniteSets

CONSTANTS
  Accounts,      \* JMAP mail accounts the Plugin Account may be bound to
  Emails,        \* email ids
  NoEmail,       \* no email is being handled
  NoState,       \* no discovery state: ENOENT on disk, nothing loaded in memory
  MaxChanges,    \* options.maxChanges: changes per Email/changes page
  MaxPages,      \* options.maxPagesPerRun: pages per poll
  MaxProcessed,  \* MAX_PROCESSED_EMAIL_IDS: ids the state file remembers
  MaxState,      \* bound of the model: highest JMAP state of an account
  MaxFaults      \* bound of the model: failures, crashes and restarts

ASSUME DiscoveryAssumption ==
  /\ NoEmail \notin Emails
  /\ NoState \notin [account : Accounts, since : Nat, processed : Seq(Emails)]
  /\ NoState \notin [account : Accounts, mail : SUBSET Emails]
  /\ MaxChanges \in Nat \ {0} /\ MaxPages \in Nat \ {0}
  /\ MaxProcessed \in Nat \ {0}
  /\ MaxState \in Nat /\ MaxFaults \in Nat

VARIABLES
  modseq,     \* server: the Email state of each account
  owner,      \* server: the account an email belongs to, fixed from the start
  born,       \* server: the state at which an email was created
  place,      \* server: where an email is now
  file,       \* the discovery state file, or NoState
  binding,    \* getMailAccountId() of the runtime that discovery uses now
  pc,         \* the await the poll is at
  state,      \* local `state` of #pollOnce
  page,       \* the Email/changes page being handled
  pages,      \* local `pagesProcessed`
  cur,        \* the email whose dispatch is in flight or not yet recorded
  base,       \* history: sinceState of the last saved baseline
  attempts,   \* history: how often each email was handed to the Agent
  recorded,   \* history: emails whose outcome reached the state file
  newer,      \* history: the emails recorded since each was recorded last
  crowded,    \* history: repeated dispatches of emails that were pushed out
  faults      \* history: faults so far, capped by MaxFaults

server  == <<modseq, owner, born, place>>
local   == <<pc, state, page, pages, cur>>
history == <<base, attempts, recorded, newer, crowded>>
vars    == <<server, file, binding, local, history, faults>>

(***************************************************************************)
(* An email is "unborn", in the Inbox ever since it was created ("inbox"), *)
(* outside it ("other"), in the Inbox after a time outside it ("moved"),   *)
(* or "destroyed".                                                         *)
(***************************************************************************)
Places  == {"unborn", "inbox", "other", "moved", "destroyed"}
InInbox(e) == place[e] \in {"inbox", "moved"}

NoPage == [upTo |-> 0, more |-> FALSE, todo |-> {}]

Remembered(s) == {s[i] : i \in DOMAIN s}

\* the array without e; the array never holds an id twice
Without(s, e) ==
  IF e \in Remembered(s)
  THEN LET i == CHOOSE k \in DOMAIN s : s[k] = e
       IN  SubSeq(s, 1, i - 1) \o SubSeq(s, i + 1, Len(s))
  ELSE s

\* slice(-n)
LastOf(s, n) == IF Len(s) > n THEN SubSeq(s, Len(s) - n + 1, Len(s)) ELSE s

\* mutant: the list keeps the oldest ids
RemembersOldest(s, e) == IF Len(s) < MaxProcessed THEN Append(Without(s, e), e)
                         ELSE s

appendProcessedEmailId(s, e) == LastOf(Append(Without(s, e), e), MaxProcessed)

createInitialDiscoveryState(a, s) ==
  [account |-> a, since |-> s, processed |-> <<>>]

----------------------------------------------------------------------------
(* The server: mail arrives, is moved and is destroyed; each change takes  *)
(* the account to its next state.                                          *)

Changed(a) == /\ modseq[a] < MaxState
              /\ modseq' = [modseq EXCEPT ![a] = @ + 1]

NewMail(e, p) ==
  /\ place[e] = "unborn"
  /\ Changed(owner[e])
  /\ born'  = [born EXCEPT ![e] = modseq'[owner[e]]]
  /\ place' = [place EXCEPT ![e] = p]
  /\ UNCHANGED <<owner, file, binding, local, history, faults>>

Relocate(e) ==
  /\ place[e] \notin {"unborn", "destroyed"}
  /\ Changed(owner[e])
  /\ \E p \in {"destroyed", IF InInbox(e) THEN "other" ELSE "moved"} :
       place' = [place EXCEPT ![e] = p]
  /\ UNCHANGED <<owner, born, file, binding, local, history, faults>>

----------------------------------------------------------------------------
(* The poll.                                                               *)

\* The poll ends: its locals are gone and the loop is idle or has stopped.
Leave(next) ==
  /\ pc' = next
  /\ state' = NoState /\ page' = NoPage /\ pages' = 0 /\ cur' = NoEmail

\* Load the file. Without a usable state, take the server's current one.
LoadState(usable) ==
  /\ pc = "idle"
  /\ IF usable
     THEN /\ state' = file
          /\ pc' = "page"
     ELSE /\ state' = createInitialDiscoveryState(binding, modseq[binding])
          /\ pc' = "baseline"
  /\ pages' = 0
  /\ UNCHANGED <<server, file, binding, page, cur, history, faults>>

\* mutant: the cursor of another account is taken for this one's
KeepsForeignCursor == LoadState(file # NoState)

StartPoll == LoadState(file # NoState /\ file.account = binding)

SaveBaseline ==
  /\ pc = "baseline"
  /\ file' = state
  /\ base' = state.since
  /\ Leave("idle")
  /\ UNCHANGED <<server, binding, attempts, recorded, newer, crowded, faults>>

\* mutant: a mail created by the last change of the page is left out
CandidatesBefore(n) ==
  {e \in Emails : /\ owner[e] = binding
                  /\ place[e] \notin {"unborn", "destroyed"}
                  /\ state.since < born[e] /\ born[e] < n
                  /\ e \notin Remembered(state.processed)}

\* The emails a page up to state n names that are not yet remembered.
candidateIds(n) ==
  {e \in Emails : /\ owner[e] = binding
                  /\ place[e] \notin {"unborn", "destroyed"}
                  /\ state.since < born[e] /\ born[e] <= n
                  /\ e \notin Remembered(state.processed)}

\* Email/changes: the server picks how far a page goes, maxChanges at most.
GetChanges ==
  /\ pc = "page"
  /\ \E n \in state.since .. modseq[binding] :
       /\ n <= state.since + MaxChanges
       /\ n = state.since => n = modseq[binding]
       /\ page' = [upTo |-> n, more |-> n < modseq[binding],
                   todo |-> candidateIds(n)]
  /\ pc' = "fetch"
  /\ UNCHANGED <<server, file, binding, state, pages, cur, history, faults>>

\* getMessages: ids that are gone or not in the Inbox now are passed over.
GetMessages ==
  /\ pc = "fetch"
  /\ page' = [page EXCEPT !.todo = {e \in @ : InInbox(e)}]
  /\ pc' = "mail"
  /\ UNCHANGED <<server, file, binding, state, pages, cur, history, faults>>

\* The server's order of a page is not fixed: any remaining email is next.
TakeNext(e) ==
  /\ pc = "mail"
  /\ e \in page.todo
  /\ cur' = e
  /\ pc' = "record"

\* As many ids as the list holds have followed the id of e.
PushedOut(e) == MaxProcessed <= Cardinality(newer[e])

Dispatch(e) ==
  /\ TakeNext(e)
  /\ attempts' = [attempts EXCEPT ![e] = @ + 1]
  /\ crowded' = IF e \in recorded /\ PushedOut(e) THEN crowded + 1 ELSE crowded
  /\ UNCHANGED <<server, file, binding, state, page, pages, base, recorded,
                 newer, faults>>

StopAtLimit(e) ==
  /\ TakeNext(e)
  /\ UNCHANGED <<server, file, binding, state, page, pages, history, faults>>

\* The dispatch returned: remember the id, then save.
Remember(saved) ==
  /\ pc = "record"
  /\ state' = [state EXCEPT !.processed = appendProcessedEmailId(@, cur)]
  /\ file' = IF saved THEN state' ELSE file
  /\ recorded' = recorded \union {cur}
  /\ newer' = [e \in Emails |->
       IF e \in recorded \ {cur} THEN newer[e] \union {cur} ELSE {}]
  /\ page' = [page EXCEPT !.todo = @ \ {cur}]
  /\ cur' = NoEmail
  /\ pc' = "mail"
  /\ UNCHANGED <<server, binding, pages, base, attempts, crowded, faults>>

\* mutant: the ids of a page are saved together with the cursor only
RecordInMemory == Remember(FALSE)

Record == Remember(TRUE)

\* The page is done: move the cursor and save, then fetch the next page or end.
MoveCursor(cursor, goOn) ==
  /\ pc = "mail"
  /\ file' = [state EXCEPT !.since = cursor]
  /\ IF goOn
     THEN /\ pc' = "page" /\ state' = file'
          /\ page' = NoPage /\ pages' = pages + 1 /\ cur' = NoEmail
     ELSE Leave("idle")
  /\ UNCHANGED <<server, binding, history, faults>>

MayGoOn == page.more /\ pages + 1 < MaxPages

\* mutants: the number of pages is not limited; the cursor moves before the
\* page is handled; the save keeps the old cursor
AdvanceUnlimited == page.todo = {} /\ MoveCursor(page.upTo, page.more)
AdvanceEarly     == MoveCursor(page.upTo, MayGoOn)
AdvanceInPlace   == page.todo = {} /\ MoveCursor(state.since, MayGoOn)

AdvanceCursor == page.todo = {} /\ MoveCursor(page.upTo, MayGoOn)

----------------------------------------------------------------------------
(* What goes wrong.                                                        *)

Fault == /\ faults < MaxFaults
         /\ faults' = faults + 1

\* A request, the dispatch or a save fails: the loop polls again later, or
\* ends for good on 401 and 403.
PollFails ==
  /\ pc \notin {"idle", "stopped"}
  /\ Fault
  /\ \E next \in {"idle", "stopped"} : Leave(next)
  /\ UNCHANGED <<server, file, binding, history>>

\* cannotCalculateChanges, a foreign oldState or a page that does not advance.
FatalDiscoveryError ==
  /\ pc = "page"
  /\ Fault
  /\ Leave("stopped")
  /\ UNCHANGED <<server, file, binding, history>>

\* A crash, a service restart, or a new runtime for the account replacing the
\* old one: the loop is cut where it is and a new one starts.
Restart(a) ==
  /\ Fault
  /\ binding' = a
  /\ Leave("idle")
  /\ UNCHANGED <<server, file, history>>

----------------------------------------------------------------------------
Init ==
  /\ modseq = [a \in Accounts |-> 0]
  /\ owner \in [Emails -> Accounts]
  /\ born = [e \in Emails |-> 0]
  /\ place = [e \in Emails |-> "unborn"]
  /\ file = NoState
  /\ binding \in Accounts
  /\ pc = "idle" /\ state = NoState /\ page = NoPage /\ pages = 0
  /\ cur = NoEmail
  /\ base = 0
  /\ attempts = [e \in Emails |-> 0]
  /\ recorded = {}
  /\ newer = [e \in Emails |-> {}] /\ crowded = 0
  /\ faults = 0

Server ==
  \/ \E e \in Emails, p \in {"inbox", "other"} : NewMail(e, p)
  \/ \E e \in Emails : Relocate(e)

HandleMail == \E e \in Emails : Dispatch(e) \/ StopAtLimit(e)

PollStep == \/ StartPoll \/ SaveBaseline \/ GetChanges \/ GetMessages
            \/ HandleMail \/ Record \/ AdvanceCursor

Next == \/ Server
        \/ PollStep
        \/ PollFails \/ FatalDiscoveryError
        \/ \E a \in Accounts : Restart(a)

\* The event loop runs every pending continuation, and the delay between two
\* polls always ends; failures and mail traffic are under no obligation.
Spec == Init /\ [][Next]_vars /\ WF_vars(PollStep)

----------------------------------------------------------------------------
IdLists == Seq(Emails)

DiscoveryStates ==
  [account : Accounts, since : Nat, processed : IdLists]

TypeOK ==
  /\ modseq \in [Accounts -> 0 .. MaxState]
  /\ owner \in [Emails -> Accounts]
  /\ born \in [Emails -> 0 .. MaxState]
  /\ place \in [Emails -> Places]
  /\ file \in DiscoveryStates \union {NoState}
  /\ binding \in Accounts
  /\ pc \in {"idle", "baseline", "page", "fetch", "mail", "record", "stopped"}
  /\ state \in DiscoveryStates \union {NoState}
  /\ page \in [upTo : Nat, more : BOOLEAN, todo : SUBSET Emails]
  /\ pages \in 0 .. MaxPages - 1
  /\ cur \in Emails \union {NoEmail}
  /\ base \in 0 .. MaxState
  /\ attempts \in [Emails -> Nat]
  /\ recorded \in SUBSET Emails
  /\ newer \in [Emails -> SUBSET Emails] /\ crowded \in Nat
  /\ faults \in 0 .. MaxFaults

(* The saved cursor never passes a mail that has been in the Inbox since it *)
(* arrived without that mail's outcome having been saved before: no crash,  *)
(* failed request, page limit or replaced account makes discovery lose it.  *)
NothingSkipped ==
  file # NoState =>
    \A e \in Emails :
      /\ owner[e] = file.account
      /\ place[e] = "inbox"
      /\ base < born[e] /\ born[e] <= file.since
      => e \in recorded

(* The Agent is only ever given mail of the account that is bound at that   *)
(* moment, created after that account's baseline: "historical mail is never *)
(* replayed or auto-replied after a replacement" (the comment in            *)
(* #pollOnce), whatever the interleaving of replacement and polls.          *)
NoHistoricalDispatch ==
  [][\A e \in Emails :
       attempts'[e] # attempts[e] =>
         /\ file # NoState /\ file.account = binding
         /\ owner[e] = binding
         /\ base < born[e]]_vars

\* The list has room for every other id of an email's own page and of the page
\* after it: true of the default maxChanges, 100 against 200 ids, and not of
\* every legal one.
RoomForTwoPages == 2 * MaxChanges - 1 <= MaxProcessed

(* Once an email's outcome has been saved the email is handed to the Agent  *)
(* again, however often its page is fetched again, only after at least      *)
(* MAX_PROCESSED_EMAIL_IDS others have been recorded since; and never at    *)
(* all where the list has room for two pages.                               *)
NoRepeatAfterRecord ==
  [][\A e \in recorded :
       attempts'[e] # attempts[e] => PushedOut(e) /\ ~RoomForTwoPages]_vars

(* Delivery is at least once.  Each failure or crash costs at most one      *)
(* repeated dispatch over all the emails together, the dispatch it cut off  *)
(* between the Agent's turn and the save, and besides these only what the   *)
(* bounded list no longer remembers is repeated: nothing, where it has room *)
(* for two pages.  Repeated has a member for each dispatch of an email but  *)
(* its first.                                                               *)
Repeated == UNION {{e} \X (1 .. attempts[e] - 1) : e \in Emails}

OneRepeatPerFault ==
  Cardinality(Repeated) <= faults + (IF RoomForTwoPages THEN 0 ELSE crowded)

(* A mail that is in the Inbox and past the baseline is eventually settled: *)
(* its outcome is saved, unless it leaves the Inbox, discovery stops for    *)
(* good, or the account is bound to another mailbox.                        *)
Awaited(e) == /\ place[e] = "inbox"
              /\ file # NoState /\ file.account = binding
              /\ owner[e] = binding /\ base < born[e]

EveryMailSettled ==
  \A e \in Emails :
    Awaited(e) ~> (e \in recorded \/ pc = "stopped" \/ ~Awaited(e))

(* Discovery implements InboxDelivery: whatever polls, pages, faults and    *)
(* new bindings do to the cursor file, mail waits in line from its arrival  *)
(* until it is settled or leaves the Inbox, mail from before the line was   *)
(* opened never gets into it, and only mail in line is taken up.            *)
LineOf(s) ==
  IF s = NoState THEN NoState
  ELSE [account |-> s.account,
        mail    |-> {e \in Emails : /\ place[e] # "unborn"
                                    /\ owner[e] = s.account
                                    /\ s.since < born[e]}]

Delivery == INSTANCE InboxDelivery WITH
  NoLine  <- NoState,
  arrived <- {e \in Emails : place[e] # "unborn"},
  strayed <- {e \in Emails : place[e] \in {"other", "moved", "destroyed"}},
  line    <- LineOf(file),
  opening <- LineOf(IF pc = "baseline" THEN state ELSE NoState),
  taken   <- cur,
  settled <- recorded

DeliversInbox == Delivery!Spec
=============================================================================
