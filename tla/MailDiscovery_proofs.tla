------------------------ MODULE MailDiscovery_proofs ------------------------
(***************************************************************************)
(* What MailDiscovery guarantees for every set of accounts and emails, all *)
(* page sizes and limits, and any number of failures and restarts.         *)
(***************************************************************************)
EXTENDS MailDiscovery, SequenceTheorems, FiniteSetTheorems, FunctionTheorems,
        TLAPS

Polling   == pc \in {"page", "fetch", "mail", "record"}
OnPage    == pc \in {"fetch", "mail", "record"}

\* An email's creation state is one its account has reached.
BornInv ==
  \A e \in Emails : place[e] # "unborn" => born[e] <= modseq[owner[e]]

\* The file's cursor is a state of its account, not before the baseline, and
\* the file only remembers emails whose outcome was recorded.
FileInv ==
  file # NoState =>
    /\ file.since <= modseq[file.account]
    /\ base <= file.since
    /\ Remembered(file.processed) \subseteq recorded

\* A baseline about to be saved is a state the bound account has reached.
BaselineInv ==
  pc = "baseline" =>
    /\ state # NoState
    /\ state.since <= modseq[state.account]
    /\ state.processed = <<>>

\* While it handles pages, the poll holds what the file holds.
MemoryInv ==
  Polling => /\ file # NoState /\ state = file
             /\ file.account = binding

\* What a page still has to handle lies past the cursor, and a mail of the
\* page that never left the Inbox is either still to do or recorded.
PageInv ==
  OnPage =>
    /\ file.since <= page.upTo /\ page.upTo <= modseq[binding]
    /\ \A e \in page.todo :
         place[e] # "unborn" /\ owner[e] = binding /\ file.since < born[e]
    /\ \A e \in Emails :
         /\ owner[e] = binding /\ place[e] = "inbox"
         /\ file.since < born[e] /\ born[e] <= page.upTo
         => e \in page.todo \/ e \in recorded

\* An email is in hand exactly while its outcome is not recorded.
CurInv == /\ pc = "record" => cur \in page.todo
          /\ pc # "record" => cur = NoEmail

IInv == /\ TypeOK /\ BornInv /\ FileInv /\ BaselineInv /\ MemoryInv
        /\ PageInv /\ CurInv /\ NothingSkipped

----------------------------------------------------------------------------
(* The list of processed ids.                                              *)

\* Taking an id out of the list of processed ids leaves a list of ids, all of
\* which were in it.
LEMMA WithoutProperties ==
  ASSUME NEW s \in Seq(Emails), NEW e \in Emails
  PROVE  /\ Without(s, e) \in Seq(Emails)
         /\ Remembered(Without(s, e)) \subseteq Remembered(s)
<1>1. CASE e \notin Remembered(s)
  BY <1>1 DEF Without
<1>2. CASE e \in Remembered(s)
  <2> DEFINE i == CHOOSE k \in DOMAIN s : s[k] = e
  <2>1. i \in 1 .. Len(s)
    BY <1>2 DEF Remembered
  <2>2. Without(s, e) = SubSeq(s, 1, i - 1) \o SubSeq(s, i + 1, Len(s))
    BY <1>2 DEF Without
  <2> HIDE DEF i
  <2>3. /\ SubSeq(s, 1, i - 1) \in Seq(Emails)
        /\ SubSeq(s, i + 1, Len(s)) \in Seq(Emails)
        /\ \A k \in DOMAIN SubSeq(s, 1, i - 1) :
             SubSeq(s, 1, i - 1)[k] \in Remembered(s)
        /\ \A k \in DOMAIN SubSeq(s, i + 1, Len(s)) :
             SubSeq(s, i + 1, Len(s))[k] \in Remembered(s)
    BY <2>1 DEF Remembered
  <2> DEFINE l == SubSeq(s, 1, i - 1)
             r == SubSeq(s, i + 1, Len(s))
  <2> HIDE DEF l, r
  <2>4. l \o r \in Seq(Emails) /\ \A k \in DOMAIN (l \o r) :
          (l \o r)[k] \in Remembered(s)
    BY <2>3 DEF l, r
  <2> QED
    BY <2>2, <2>4 DEF Remembered, l, r
<1> QED
  BY <1>1, <1>2

\* appendProcessedEmailId adds no id but the new one, and its result is a
\* list of ids again.
LEMMA AppendProcessedProperties ==
  ASSUME NEW s \in Seq(Emails), NEW e \in Emails
  PROVE  /\ appendProcessedEmailId(s, e) \in Seq(Emails)
         /\ Remembered(appendProcessedEmailId(s, e))
              \subseteq Remembered(s) \union {e}
<1> DEFINE w == Without(s, e)
           t == Append(w, e)
<1>1. w \in Seq(Emails) /\ Remembered(w) \subseteq Remembered(s)
  BY WithoutProperties
<1> HIDE DEF w
<1>2. t \in Seq(Emails) /\ Remembered(t) \subseteq Remembered(s) \union {e}
  BY <1>1 DEF Remembered
<1> HIDE DEF t
<1>3. LastOf(t, MaxProcessed) \in Seq(Emails)
      /\ Remembered(LastOf(t, MaxProcessed)) \subseteq Remembered(t)
  BY <1>2, DiscoveryAssumption DEF LastOf, Remembered
<1> QED
  BY <1>2, <1>3 DEF appendProcessedEmailId, t, w

----------------------------------------------------------------------------
(* The inductive invariant.                                                *)

\* NoState is told from every state, and a fresh list of ids is a list of ids.
LEMMA States == NoState \notin DiscoveryStates /\ <<>> \in IdLists
BY DiscoveryAssumption DEF DiscoveryStates, IdLists

\* Initially nothing has been created, remembered or dispatched.
LEMMA InitInv == Init => IInv
<1> SUFFICES ASSUME Init PROVE IInv
  OBVIOUS
<1>1. TypeOK
  BY DiscoveryAssumption DEF Init, TypeOK, Places, DiscoveryStates, NoPage
<1>2. BornInv
  BY DiscoveryAssumption DEF Init, BornInv
<1>3. FileInv
  BY DiscoveryAssumption DEF Init, FileInv
<1>4. BaselineInv
  BY DiscoveryAssumption DEF Init, BaselineInv
<1>5. MemoryInv
  BY DiscoveryAssumption DEF Init, MemoryInv, Polling
<1>6. PageInv
  BY DiscoveryAssumption DEF Init, PageInv, OnPage, MemoryInv, Polling, NoPage
<1>7. CurInv
  BY DiscoveryAssumption DEF Init, CurInv
<1>8. NothingSkipped
  BY DiscoveryAssumption DEF Init, NothingSkipped
<1> QED
  BY <1>1, <1>2, <1>3, <1>4, <1>5, <1>6, <1>7, <1>8 DEF IInv

\* A new mail is created at a state beyond every cursor saved so far.
LEMMA NewMailStep ==
  ASSUME IInv, NEW e \in Emails, NEW p \in {"inbox", "other"},
         NewMail(e, p)
  PROVE  IInv'
<1> USE DiscoveryAssumption DEF NewMail, Changed,
                                server, local, history
<1>1. TypeOK'
  BY DEF IInv, TypeOK, Places, DiscoveryStates, NoPage
<1>2. BornInv'
  BY DEF IInv, BornInv, TypeOK, DiscoveryStates
<1>3. FileInv'
  BY DEF IInv, FileInv, TypeOK, DiscoveryStates
<1>4. BaselineInv'
  BY DEF IInv, BaselineInv, TypeOK, DiscoveryStates
<1>5. MemoryInv'
  BY DEF IInv, MemoryInv, Polling, TypeOK, DiscoveryStates
<1>6. PageInv'
  BY DEF IInv, PageInv, OnPage, MemoryInv, Polling, NoPage, TypeOK, DiscoveryStates
<1>7. CurInv'
  BY DEF IInv, CurInv, TypeOK, DiscoveryStates
<1>8. NothingSkipped'
  BY DEF IInv, NothingSkipped, FileInv, TypeOK, DiscoveryStates
<1> QED
  BY <1>1, <1>2, <1>3, <1>4, <1>5, <1>6, <1>7, <1>8 DEF IInv

\* Moving or destroying a mail only changes where it is: one that leaves the
\* Inbox is owed nothing any more.
LEMMA RelocateStep ==
  ASSUME IInv, NEW e \in Emails, Relocate(e)
  PROVE  IInv'
<1> USE DiscoveryAssumption DEF Relocate, Changed, InInbox,
                                server, local, history
<1>1. TypeOK'
  BY DEF IInv, TypeOK, Places, DiscoveryStates, NoPage
<1>2. BornInv'
  BY DEF IInv, BornInv, TypeOK, DiscoveryStates
<1>3. FileInv'
  BY DEF IInv, FileInv, TypeOK, DiscoveryStates
<1>4. BaselineInv'
  BY DEF IInv, BaselineInv, TypeOK, DiscoveryStates
<1>5. MemoryInv'
  BY DEF IInv, MemoryInv, Polling, TypeOK, DiscoveryStates
<1>6. PageInv'
  BY DEF IInv, PageInv, OnPage, MemoryInv, Polling, NoPage, TypeOK, DiscoveryStates
<1>7. CurInv'
  BY DEF IInv, CurInv, TypeOK, DiscoveryStates
<1>8. NothingSkipped'
  BY DEF IInv, NothingSkipped, TypeOK, DiscoveryStates
<1> QED
  BY <1>1, <1>2, <1>3, <1>4, <1>5, <1>6, <1>7, <1>8 DEF IInv

\* A poll starts from the saved state of its own account, or from the
\* server's current one.
LEMMA StartPollStep ==
  ASSUME IInv, StartPoll
  PROVE  IInv'
<1> USE DiscoveryAssumption DEF StartPoll, LoadState, createInitialDiscoveryState,
                                server, local, history
<1>1. TypeOK'
  BY States DEF IInv, TypeOK, Places, DiscoveryStates, NoPage
<1>2. BornInv'
  BY DEF IInv, BornInv, TypeOK, DiscoveryStates
<1>3. FileInv'
  BY DEF IInv, FileInv, TypeOK, DiscoveryStates
<1>4. BaselineInv'
  BY States DEF IInv, BaselineInv, TypeOK, DiscoveryStates
<1>5. MemoryInv'
  BY DEF IInv, MemoryInv, Polling, TypeOK, DiscoveryStates
<1>6. PageInv'
  BY DEF IInv, PageInv, OnPage, MemoryInv, Polling, NoPage, TypeOK, DiscoveryStates
<1>7. CurInv'
  BY DEF IInv, CurInv, TypeOK, DiscoveryStates
<1>8. NothingSkipped'
  BY DEF IInv, NothingSkipped, TypeOK, DiscoveryStates
<1> QED
  BY <1>1, <1>2, <1>3, <1>4, <1>5, <1>6, <1>7, <1>8 DEF IInv

\* A new baseline owes nothing to the mail before it.
LEMMA SaveBaselineStep ==
  ASSUME IInv, SaveBaseline
  PROVE  IInv'
<1> USE DiscoveryAssumption DEF SaveBaseline, Leave,
                                server, local, history
<1>1. TypeOK'
  BY DEF IInv, BaselineInv, TypeOK, Places, DiscoveryStates, NoPage
<1>2. BornInv'
  BY DEF IInv, BornInv, TypeOK, DiscoveryStates
<1>3. FileInv'
  BY DEF IInv, FileInv, BaselineInv, Remembered, TypeOK, DiscoveryStates
<1>4. BaselineInv'
  BY DEF IInv, BaselineInv, TypeOK, DiscoveryStates
<1>5. MemoryInv'
  BY DEF IInv, MemoryInv, Polling, TypeOK, DiscoveryStates
<1>6. PageInv'
  BY DEF IInv, PageInv, OnPage, MemoryInv, Polling, NoPage, TypeOK, DiscoveryStates
<1>7. CurInv'
  BY DEF IInv, CurInv, TypeOK, DiscoveryStates
<1>8. NothingSkipped'
  BY DEF IInv, NothingSkipped, TypeOK, DiscoveryStates
<1> QED
  BY <1>1, <1>2, <1>3, <1>4, <1>5, <1>6, <1>7, <1>8 DEF IInv

\* A page names every mail up to its new state that is not remembered.
LEMMA GetChangesStep ==
  ASSUME IInv, GetChanges
  PROVE  IInv'
<1> USE DiscoveryAssumption DEF GetChanges, candidateIds,
                                server, local, history
<1>1. TypeOK'
  BY DEF IInv, MemoryInv, Polling, TypeOK, Places, DiscoveryStates, NoPage
<1>2. BornInv'
  BY DEF IInv, BornInv, TypeOK, DiscoveryStates
<1>3. FileInv'
  BY DEF IInv, FileInv, TypeOK, DiscoveryStates
<1>4. BaselineInv'
  BY DEF IInv, BaselineInv, TypeOK, DiscoveryStates
<1>5. MemoryInv'
  BY DEF IInv, MemoryInv, Polling, TypeOK, DiscoveryStates
<1>6. PageInv'
  BY DEF IInv, FileInv, NothingSkipped, PageInv, OnPage, MemoryInv, Polling, NoPage, TypeOK, DiscoveryStates
<1>7. CurInv'
  BY DEF IInv, CurInv, TypeOK, DiscoveryStates
<1>8. NothingSkipped'
  BY DEF IInv, NothingSkipped, TypeOK, DiscoveryStates
<1> QED
  BY <1>1, <1>2, <1>3, <1>4, <1>5, <1>6, <1>7, <1>8 DEF IInv

\* Only mail outside the Inbox is dropped from the page.
LEMMA GetMessagesStep ==
  ASSUME IInv, GetMessages
  PROVE  IInv'
<1> USE DiscoveryAssumption DEF GetMessages, InInbox,
                                server, local, history
<1>1. TypeOK'
  BY DEF IInv, TypeOK, Places, DiscoveryStates, NoPage
<1>2. BornInv'
  BY DEF IInv, BornInv, TypeOK, DiscoveryStates
<1>3. FileInv'
  BY DEF IInv, FileInv, TypeOK, DiscoveryStates
<1>4. BaselineInv'
  BY DEF IInv, BaselineInv, TypeOK, DiscoveryStates
<1>5. MemoryInv'
  BY DEF IInv, MemoryInv, Polling, TypeOK, DiscoveryStates
<1>6. PageInv'
  BY DEF IInv, PageInv, OnPage, MemoryInv, Polling, NoPage, TypeOK, DiscoveryStates
<1>7. CurInv'
  BY DEF IInv, CurInv, TypeOK, DiscoveryStates
<1>8. NothingSkipped'
  BY DEF IInv, NothingSkipped, TypeOK, DiscoveryStates
<1> QED
  BY <1>1, <1>2, <1>3, <1>4, <1>5, <1>6, <1>7, <1>8 DEF IInv

\* Taking the next mail of the page moves it nowhere.
LEMMA HandleMailStep ==
  ASSUME IInv, NEW e \in Emails, Dispatch(e) \/ StopAtLimit(e)
  PROVE  IInv'
<1> USE DiscoveryAssumption DEF Dispatch, StopAtLimit, TakeNext,
                                server, local, history
<1>1. TypeOK'
  <2>1. attempts \in [Emails -> Nat] /\ crowded \in Nat
    BY DEF IInv, TypeOK
  <2>2. attempts' \in [Emails -> Nat]
    BY <2>1
  <2>3. crowded' \in Nat
    BY <2>1
  <2>4. newer' = newer
    OBVIOUS
  <2> QED
    BY <2>2, <2>3, <2>4 DEF IInv, TypeOK
<1>2. BornInv'
  BY DEF IInv, BornInv, TypeOK, DiscoveryStates
<1>3. FileInv'
  BY DEF IInv, FileInv, TypeOK, DiscoveryStates
<1>4. BaselineInv'
  BY DEF IInv, BaselineInv, TypeOK, DiscoveryStates
<1>5. MemoryInv'
  BY DEF IInv, MemoryInv, Polling, TypeOK, DiscoveryStates
<1>6. PageInv'
  BY DEF IInv, PageInv, OnPage, MemoryInv, Polling, NoPage, TypeOK, DiscoveryStates
<1>7. CurInv'
  BY DEF IInv, CurInv, TypeOK, DiscoveryStates
<1>8. NothingSkipped'
  BY DEF IInv, NothingSkipped, TypeOK, DiscoveryStates
<1> QED
  BY <1>1, <1>2, <1>3, <1>4, <1>5, <1>6, <1>7, <1>8 DEF IInv

\* The cursor moves only when every mail of the page has been recorded.
LEMMA AdvanceStep ==
  ASSUME IInv, AdvanceCursor
  PROVE  IInv'
<1> USE DiscoveryAssumption DEF AdvanceCursor, MoveCursor, MayGoOn, Leave,
                                server, local, history
<1>1. TypeOK'
  <2>1. state \in DiscoveryStates
    BY DEF IInv, MemoryInv, Polling, TypeOK
  <2>2. file' \in DiscoveryStates
    BY <2>1 DEF IInv, TypeOK, DiscoveryStates
  <2>3. state' \in DiscoveryStates \union {NoState}
    BY <2>2
  <2>4. page' = NoPage /\ pages' \in 0 .. MaxPages - 1
    BY DEF IInv, TypeOK
  <2>5. page' \in [upTo : Nat, more : BOOLEAN, todo : SUBSET Emails]
    BY <2>4 DEF NoPage
  <2> QED
    BY <2>2, <2>3, <2>4, <2>5 DEF IInv, TypeOK
<1>2. BornInv'
  BY DEF IInv, BornInv, TypeOK, DiscoveryStates
<1>3. FileInv'
  BY States DEF IInv, MemoryInv, Polling, PageInv, OnPage, FileInv, TypeOK, DiscoveryStates
<1>4. BaselineInv'
  BY DEF IInv, BaselineInv, TypeOK, DiscoveryStates
<1>5. MemoryInv'
  BY States DEF IInv, MemoryInv, Polling, TypeOK, DiscoveryStates
<1>6. PageInv'
  BY DEF IInv, PageInv, OnPage, MemoryInv, Polling, NoPage, TypeOK, DiscoveryStates
<1>7. CurInv'
  BY DEF IInv, CurInv, TypeOK, DiscoveryStates
<1>8. NothingSkipped'
  BY States DEF IInv, MemoryInv, Polling, PageInv, OnPage, NothingSkipped, TypeOK, DiscoveryStates
<1> QED
  BY <1>1, <1>2, <1>3, <1>4, <1>5, <1>6, <1>7, <1>8 DEF IInv

\* A failure or a restart loses what the poll had in memory, not the file.
LEMMA FaultStep ==
  ASSUME IInv, NEW a \in Accounts,
         PollFails \/ FatalDiscoveryError \/ Restart(a)
  PROVE  IInv'
<1> USE DiscoveryAssumption DEF PollFails, FatalDiscoveryError, Restart, Leave, Fault,
                                server, local, history
<1>1. TypeOK'
  <2>1. pages' \in 0 .. MaxPages - 1 /\ faults' \in 0 .. MaxFaults
    BY DEF IInv, TypeOK
  <2>2. binding' \in Accounts /\ page' = NoPage /\ state' = NoState
    BY DEF IInv, TypeOK
  <2>3. page' \in [upTo : Nat, more : BOOLEAN, todo : SUBSET Emails]
    BY <2>2 DEF NoPage
  <2> QED
    BY <2>1, <2>2, <2>3 DEF IInv, TypeOK
<1>2. BornInv'
  BY DEF IInv, BornInv, TypeOK, DiscoveryStates
<1>3. FileInv'
  BY DEF IInv, FileInv, TypeOK, DiscoveryStates
<1>4. BaselineInv'
  BY DEF IInv, BaselineInv, TypeOK, DiscoveryStates
<1>5. MemoryInv'
  BY DEF IInv, MemoryInv, Polling, TypeOK, DiscoveryStates
<1>6. PageInv'
  BY DEF IInv, PageInv, OnPage, MemoryInv, Polling, NoPage, TypeOK, DiscoveryStates
<1>7. CurInv'
  BY DEF IInv, CurInv, TypeOK, DiscoveryStates
<1>8. NothingSkipped'
  BY DEF IInv, NothingSkipped, TypeOK, DiscoveryStates
<1> QED
  BY <1>1, <1>2, <1>3, <1>4, <1>5, <1>6, <1>7, <1>8 DEF IInv

\* The outcome of the mail at hand is remembered and saved.
LEMMA RecordStep ==
  ASSUME IInv, Record
  PROVE  IInv'
<1> USE DiscoveryAssumption DEF Record, Remember, server, local, history
<1>1. /\ state \in DiscoveryStates /\ state = file /\ cur \in page.todo
      /\ cur \in Emails /\ file.account = binding /\ file # NoState
  BY DEF IInv, MemoryInv, Polling, CurInv, TypeOK
<1>2. /\ appendProcessedEmailId(state.processed, cur) \in IdLists
      /\ Remembered(appendProcessedEmailId(state.processed, cur))
           \subseteq Remembered(state.processed) \union {cur}
  BY <1>1, AppendProcessedProperties DEF IdLists, DiscoveryStates
<1>3. /\ file' = [state EXCEPT
                     !.processed = appendProcessedEmailId(state.processed, cur)]
      /\ state' = file'
  OBVIOUS
<1>4. /\ file' \in DiscoveryStates /\ file'.account = file.account
      /\ file'.since = file.since
      /\ file'.processed = appendProcessedEmailId(state.processed, cur)
  BY <1>1, <1>2, <1>3 DEF DiscoveryStates
<1>5. TypeOK'
  <2>1. page' \in [upTo : Nat, more : BOOLEAN, todo : SUBSET Emails]
    BY DEF IInv, TypeOK
  <2> QED
    BY <1>1, <1>3, <1>4, <2>1 DEF IInv, TypeOK
<1>6. BornInv'
  BY DEF IInv, BornInv
<1>7. FileInv'
  BY <1>1, <1>2, <1>4 DEF IInv, FileInv
<1>8. BaselineInv' /\ CurInv'
  BY DEF BaselineInv, CurInv
<1>9. MemoryInv'
  BY <1>1, <1>3, <1>4, States DEF MemoryInv
<1>10. PageInv'
  BY <1>1, <1>4 DEF IInv, PageInv, OnPage, TypeOK
<1>11. NothingSkipped'
  BY <1>1, <1>4 DEF IInv, NothingSkipped
<1> QED
  BY <1>5, <1>6, <1>7, <1>8, <1>9, <1>10, <1>11 DEF IInv

\* Every step of the system, and every stutter, keeps the invariant.
LEMMA NextInv == IInv /\ [Next]_vars => IInv'
<1> SUFFICES ASSUME IInv, [Next]_vars PROVE IInv'
  OBVIOUS
<1>1. CASE Server
  BY <1>1, NewMailStep, RelocateStep DEF Server
<1>2. CASE PollStep
  BY <1>2, StartPollStep, SaveBaselineStep, GetChangesStep, GetMessagesStep,
     HandleMailStep, RecordStep, AdvanceStep DEF PollStep, HandleMail
<1>3. CASE PollFails \/ FatalDiscoveryError
  <2>1. PICK a \in Accounts : a = binding
    BY DEF IInv, TypeOK
  <2> QED
    BY <1>3, <2>1, FaultStep
<1>4. CASE \E a \in Accounts : Restart(a)
  BY <1>4, FaultStep
<1>5. CASE UNCHANGED vars
  BY <1>5 DEF vars, server, local, history, IInv, TypeOK, BornInv, FileInv,
     BaselineInv, MemoryInv, PageInv, CurInv, NothingSkipped, Polling, OnPage
<1> QED
  BY <1>1, <1>2, <1>3, <1>4, <1>5 DEF Next

\* The invariant holds in every reachable state.
THEOREM Invariant == Spec => []IInv
BY InitInv, NextInv, PTL DEF Spec

\* Every variable keeps its type.
THEOREM TypeCorrect == Spec => []TypeOK
<1>1. IInv => TypeOK
  BY DEF IInv
<1> QED
  BY <1>1, Invariant, PTL

----------------------------------------------------------------------------
\* The saved cursor never passes a mail that stayed in the Inbox without its
\* outcome having been saved, whatever fails or restarts.
THEOREM NoMailSkipped == Spec => []NothingSkipped
<1>1. IInv => NothingSkipped
  BY DEF IInv
<1> QED
  BY <1>1, Invariant, PTL

\* Only Dispatch hands an email to the Agent, and the email is then one of the
\* bound account, created after its baseline.
LEMMA DispatchStep ==
  ASSUME IInv, Next, NEW e \in Emails, attempts'[e] # attempts[e]
  PROVE  /\ file # NoState /\ file.account = binding
         /\ owner[e] = binding
         /\ base < born[e]
<1>1. PICK f \in Emails : Dispatch(f)
  BY DEF Next, Server, PollStep, HandleMail, NewMail, Relocate, StartPoll,
     LoadState, SaveBaseline, GetChanges, GetMessages, StopAtLimit, Record,
     Remember, AdvanceCursor, MoveCursor, PollFails, FatalDiscoveryError,
     Restart, history
<1>2. e = f
  BY <1>1 DEF Dispatch, IInv, TypeOK
<1> QED
  BY <1>1, <1>2 DEF Dispatch, TakeNext, IInv, MemoryInv, PageInv, FileInv,
     Polling, OnPage, TypeOK, DiscoveryStates

\* The Agent is only given mail of the account bound at that moment, created
\* after that account's baseline.
THEOREM OnlyNewMailDispatched == Spec => NoHistoricalDispatch
<1>1. IInv /\ [Next]_vars =>
        [\A e \in Emails : attempts'[e] # attempts[e] =>
           /\ file # NoState /\ file.account = binding
           /\ owner[e] = binding
           /\ base < born[e]]_vars
  BY DispatchStep
<1> QED
  BY <1>1, Invariant, PTL DEF Spec, NoHistoricalDispatch

----------------------------------------------------------------------------
(* Discovery implements InboxDelivery.                                     *)

\* There is a line exactly when there is a saved state or a baseline on its
\* way, and its account is the account of that state.
LEMMA LineProperties ==
  ASSUME NEW s \in DiscoveryStates
  PROVE  /\ LineOf(s) # NoState
         /\ LineOf(s).account = s.account
         /\ LineOf(s).mail = {e \in Emails : /\ place[e] # "unborn"
                                             /\ owner[e] = s.account
                                             /\ s.since < born[e]}
<1>1. s # NoState /\ s.account \in Accounts
  BY States DEF DiscoveryStates
<1> DEFINE M == {e \in Emails : /\ place[e] # "unborn"
                                /\ owner[e] = s.account
                                /\ s.since < born[e]}
<1>2. LineOf(s) = [account |-> s.account, mail |-> M]
  BY <1>1 DEF LineOf
<1>3. [account |-> s.account, mail |-> M]
        \in [account : Accounts, mail : SUBSET Emails]
  BY <1>1
<1> QED
  BY <1>2, <1>3, DiscoveryAssumption

\* Nothing has arrived, and no line is open.
LEMMA DeliveryInit == Init => Delivery!Init
<1> SUFFICES ASSUME Init PROVE Delivery!Init
  OBVIOUS
<1> QED
  BY DEF Init, Delivery!Init, LineOf

\* A new mail joins the lines of its account: its creation state lies beyond
\* the cursor of each.
LEMMA NewMailArrives ==
  ASSUME IInv, NEW e \in Emails, NEW p \in {"inbox", "other"},
         NewMail(e, p)
  PROVE  Delivery!Arrive(e)
<1> USE DEF NewMail, Changed, local, history, IInv, TypeOK
<1>1. /\ place[e] = "unborn" /\ place' = [place EXCEPT ![e] = p]
      /\ UNCHANGED <<owner, file, pc, state, cur, recorded>>
  OBVIOUS
<1>2. ASSUME NEW s \in DiscoveryStates,
             s.since <= modseq[s.account]
      PROVE  LineOf(s)' = Delivery!Joined(LineOf(s), e)
  <2> DEFINE M == {f \in Emails : /\ place[f] # "unborn"
                                  /\ owner[f] = s.account
                                  /\ s.since < born[f]}
  <2>1. s # NoState /\ s.account \in Accounts
    BY States DEF DiscoveryStates
  <2>2. s.since \in Nat
    BY DEF DiscoveryStates
  <2>3. owner[e] = s.account => s.since < born'[e]
    BY <1>2, <2>1, <2>2
  <2>4. M' = IF owner[e] = s.account THEN M \union {e} ELSE M
    BY <1>1, <1>2, <2>3
  <2>5. LineOf(s)' = [account |-> s.account, mail |-> M']
    BY <1>2, <2>1 DEF LineOf
  <2> QED
    BY <2>1, <2>4, <2>5, LineProperties DEF Delivery!Joined, Delivery!Line, LineOf
<1>3. LineOf(file)' = Delivery!Joined(LineOf(file), e)
  <2>1. CASE file = NoState
    BY <1>1, <2>1 DEF LineOf, Delivery!Joined
  <2>2. CASE file # NoState
    BY <1>1, <1>2, <2>2 DEF FileInv
  <2> QED
    BY <2>1, <2>2
<1> DEFINE o == IF pc = "baseline" THEN state ELSE NoState
<1>4. LineOf(o)' = Delivery!Joined(LineOf(o), e)
  <2>1. CASE pc = "baseline"
    <3>1. state \in DiscoveryStates /\ state.since <= modseq[state.account]
      BY <2>1 DEF BaselineInv
    <3> QED
      BY <1>1, <1>2, <2>1, <3>1
  <2>2. CASE pc # "baseline"
    BY <1>1, <2>2 DEF LineOf, Delivery!Joined
  <2> QED
    BY <2>1, <2>2
<1> QED
  BY <1>1, <1>3, <1>4 DEF Delivery!Arrive

\* A mail that is moved or destroyed has been outside the Inbox from then on,
\* and keeps its place in line.
LEMMA RelocateStrays ==
  ASSUME IInv, NEW e \in Emails, Relocate(e)
  PROVE  Delivery!Stray(e)
<1> USE DEF Relocate, Changed, InInbox, local, history, IInv, TypeOK, Places
<1>1. PICK p \in {"destroyed", "other", "moved"} :
        place' = [place EXCEPT ![e] = p]
  OBVIOUS
<1>2. /\ place[e] \notin {"unborn", "destroyed"}
      /\ UNCHANGED <<owner, born, file, pc, state, cur, recorded>>
  OBVIOUS
<1>3. /\ {f \in Emails : place'[f] # "unborn"}
           = {f \in Emails : place[f] # "unborn"}
      /\ {f \in Emails : place'[f] \in {"other", "moved", "destroyed"}}
           = {f \in Emails : place[f] \in {"other", "moved", "destroyed"}}
             \union {e}
  BY <1>1, <1>2
<1>4. ASSUME NEW s PROVE LineOf(s)' = LineOf(s)
  BY <1>1, <1>2 DEF LineOf
<1> QED
  BY <1>2, <1>3, <1>4 DEF Delivery!Stray

\* A step that leaves the server alone moves no mail, and changes a line only
\* with the state it is read from.
LEMMA QuietServer ==
  ASSUME UNCHANGED server
  PROVE  /\ UNCHANGED owner
         /\ {e \in Emails : place[e] # "unborn"}'
              = {e \in Emails : place[e] # "unborn"}
         /\ {e \in Emails : place[e] \in {"other", "moved", "destroyed"}}'
              = {e \in Emails : place[e] \in {"other", "moved", "destroyed"}}
         /\ \A s : LineOf(s)' = LineOf(s)
BY DEF server, LineOf

\* Asking for a baseline opens a line: no mail is past the state just read.
LEMMA StartPollOpens ==
  ASSUME IInv, StartPoll
  PROVE  Delivery!Open(binding) \/ UNCHANGED Delivery!vars
<1> USE DEF StartPoll, LoadState, IInv, TypeOK, history
<1>1. CASE file # NoState /\ file.account = binding
  BY <1>1, QuietServer DEF Delivery!vars, LineOf
<1>2. CASE ~(file # NoState /\ file.account = binding)
  <2> DEFINE s == createInitialDiscoveryState(binding, modseq[binding])
  <2>1. s \in DiscoveryStates /\ s.account = binding
        /\ s.since = modseq[binding]
    BY States DEF createInitialDiscoveryState, DiscoveryStates, IdLists
  <2>2. LineOf(s).mail = {}
    BY <2>1, LineProperties DEF BornInv
  <2>3. LineOf(s) = [account |-> binding, mail |-> {}]
    BY <2>1, <2>2, States DEF LineOf
  <2>4. pc' = "baseline" /\ state' = s /\ pc = "idle"
    BY <1>2
  <2> QED
    BY <2>3, <2>4, QuietServer DEF Delivery!Open, Delivery!Line, LineOf
<1> QED
  BY <1>1, <1>2

\* Saving a baseline puts its line in force.
LEMMA SaveBaselineSwitches ==
  ASSUME IInv, SaveBaseline
  PROVE  Delivery!Switch
<1> USE DEF SaveBaseline, Leave, IInv, TypeOK
<1>1. state \in DiscoveryStates /\ LineOf(state) # NoState
  BY LineProperties DEF BaselineInv
<1>2. cur = NoEmail
  BY DEF CurInv
<1> QED
  BY <1>1, <1>2, QuietServer DEF Delivery!Switch, LineOf

\* Two states with the same account and cursor have the same line.
LEMMA SameLine ==
  ASSUME UNCHANGED server,
         NEW s \in DiscoveryStates, NEW t \in DiscoveryStates,
         s.account = t.account, s.since = t.since
  PROVE  LineOf(s) = LineOf(t)
BY States DEF LineOf, server

\* Taking up a mail takes up one that is in line.
LEMMA HandleMailTakesUp ==
  ASSUME IInv, NEW e \in Emails, Dispatch(e) \/ StopAtLimit(e)
  PROVE  Delivery!TakeUp(e)
<1> USE DEF Dispatch, StopAtLimit, TakeNext, IInv, TypeOK
<1>1. file \in DiscoveryStates /\ file.account = binding
  BY DEF MemoryInv, Polling
<1>2. place[e] # "unborn" /\ owner[e] = binding /\ file.since < born[e]
  BY DEF PageInv, OnPage
<1>3. LineOf(file) # NoState /\ e \in LineOf(file).mail
  BY <1>1, <1>2, LineProperties
<1>4. cur = NoEmail /\ cur' = e /\ UNCHANGED <<server, file, recorded>>
      /\ pc = "mail" /\ pc' = "record"
  BY DEF CurInv, history
<1> QED
  BY <1>3, <1>4, QuietServer DEF Delivery!TakeUp, LineOf

\* Recording an outcome settles the mail; the cursor stays where it is.
LEMMA RecordSettles ==
  ASSUME IInv, Record
  PROVE  Delivery!Settle
<1> USE DEF Record, Remember, IInv, TypeOK
<1>1. state \in DiscoveryStates /\ state = file /\ cur \in Emails
  BY DEF MemoryInv, Polling, CurInv
<1>2. appendProcessedEmailId(state.processed, cur) \in IdLists
  BY <1>1, AppendProcessedProperties DEF DiscoveryStates, IdLists
<1>3. /\ file' \in DiscoveryStates
      /\ file'.account = file.account /\ file'.since = file.since
  BY <1>1, <1>2 DEF DiscoveryStates
<1>4. LineOf(file)' = LineOf(file)
  BY <1>1, <1>3, SameLine, QuietServer
<1> QED
  BY <1>1, <1>4, QuietServer, DiscoveryAssumption DEF Delivery!Settle, LineOf

\* Moving the cursor passes what the page covered: settled, or outside the
\* Inbox at some time.
LEMMA AdvancePasses ==
  ASSUME IInv, AdvanceCursor
  PROVE  \E S \in SUBSET Emails : Delivery!Pass(S)
<1> USE DEF AdvanceCursor, MoveCursor, Leave, IInv, TypeOK
<1> DEFINE S == {e \in Emails : /\ place[e] # "unborn"
                                /\ owner[e] = file.account
                                /\ file.since < born[e]
                                /\ born[e] <= page.upTo}
<1>1. /\ file \in DiscoveryStates /\ state = file /\ file.account = binding
      /\ page.todo = {} /\ file.since <= page.upTo /\ cur = NoEmail
  BY DEF MemoryInv, Polling, PageInv, OnPage, CurInv
<1>2. S \subseteq recorded
        \union {e \in Emails : place[e] \in {"other", "moved", "destroyed"}}
  BY <1>1 DEF PageInv, OnPage, Places
<1>3. /\ file' \in DiscoveryStates /\ file'.account = file.account
      /\ file'.since = page.upTo
  BY <1>1 DEF DiscoveryStates
<1>4. LineOf(file') = [account |-> file.account, mail |-> LineOf(file).mail \ S]
  <2>1. \A e \in Emails :
          page.upTo < born[e] <=> file.since < born[e] /\ ~(born[e] <= page.upTo)
    BY <1>1 DEF DiscoveryStates
  <2>2. LineOf(file').mail = LineOf(file).mail \ S
    BY <1>1, <1>3, <2>1, LineProperties
  <2> QED
    BY <1>3, <2>2, States DEF LineOf
<1>5. LineOf(file) # NoState /\ LineOf(file).account = file.account
  BY <1>1, LineProperties
<1>6. LineOf(file)' = LineOf(file')
  BY DEF LineOf, server
<1>7. /\ UNCHANGED <<owner, recorded>> /\ cur' = cur
      /\ pc # "baseline" /\ pc' # "baseline"
  BY <1>1 DEF server, history
<1>8. Delivery!Pass(S)
  BY <1>1, <1>2, <1>4, <1>5, <1>6, <1>7, QuietServer
     DEF Delivery!Pass, Delivery!Line, LineOf
<1> QED
  BY <1>8

\* Asking for a page and for its mails shows nothing.
LEMMA FetchStutters ==
  ASSUME IInv, GetChanges \/ GetMessages
  PROVE  UNCHANGED Delivery!vars
BY QuietServer DEF GetChanges, GetMessages, history, Delivery!vars, LineOf

\* A failure, a crash or a new binding gives up what is in hand.
LEMMA FaultGivesUp ==
  ASSUME PollFails \/ FatalDiscoveryError \/ \E a \in Accounts : Restart(a)
  PROVE  Delivery!GiveUp
BY QuietServer DEF PollFails, FatalDiscoveryError, Restart, Leave, history,
   Delivery!GiveUp, LineOf

\* Every step of discovery is a step of delivery or shows nothing.
LEMMA DeliveryNext == IInv /\ [Next]_vars => [Delivery!Next]_(Delivery!vars)
<1> SUFFICES ASSUME IInv, [Next]_vars
             PROVE  [Delivery!Next]_(Delivery!vars)
  OBVIOUS
<1>1. CASE Server
  BY <1>1, NewMailArrives, RelocateStrays DEF Server, Delivery!Next
<1>2. CASE PollStep
  <2>1. binding \in Accounts
    BY DEF IInv, TypeOK
  <2> QED
    BY <1>2, <2>1, StartPollOpens, SaveBaselineSwitches, FetchStutters,
       HandleMailTakesUp, RecordSettles, AdvancePasses
       DEF PollStep, HandleMail, Delivery!Next
<1>3. CASE PollFails \/ FatalDiscoveryError \/ \E a \in Accounts : Restart(a)
  BY <1>3, FaultGivesUp DEF Delivery!Next
<1>4. CASE UNCHANGED vars
  BY <1>4, QuietServer DEF vars, local, history, Delivery!vars, LineOf
<1> QED
  BY <1>1, <1>2, <1>3, <1>4 DEF Next

\* Mail discovery implements InboxDelivery: mail waits in line from its arrival
\* until it is settled or leaves the Inbox, and only mail in line is taken up.
THEOREM ImplementsDelivery == Spec => DeliversInbox
BY Invariant, DeliveryInit, DeliveryNext, PTL
   DEF Spec, DeliversInbox, Delivery!Spec
----------------------------------------------------------------------------
(* An email whose outcome was saved is handed to the Agent again only when *)
(* it was pushed out of the list.                                          *)

\* Every creation state belongs to one email of an account.
Created(e) == place[e] # "unborn"

BirthInv ==
  \A e, f \in Emails :
    /\ Created(e) /\ Created(f)
    /\ owner[e] = owner[f] /\ born[e] = born[f]
    => e = f

\* The ids that a state remembers are of different emails of its account, at
\* most a page past the cursor; and those that follow one past the cursor were
\* created less than a page before or after it.
MemoOf(s) ==
  /\ \A i \in DOMAIN s.processed :
       /\ Created(s.processed[i]) /\ owner[s.processed[i]] = s.account
       /\ born[s.processed[i]] <= s.since + MaxChanges
  /\ \A i, j \in DOMAIN s.processed :
       s.processed[i] = s.processed[j] => i = j
  /\ \A i, j \in DOMAIN s.processed :
       i <= j /\ s.since < born[s.processed[i]] =>
         /\ born[s.processed[i]] - MaxChanges < born[s.processed[j]]
         /\ born[s.processed[j]] < born[s.processed[i]] + MaxChanges

\* Forgotten, which takes a list without room for two pages.
Forgotten(e) == PushedOut(e) /\ ~RoomForTwoPages

\* What was recorded past the cursor of a state is remembered by it or was
\* pushed out.
Covers(s) ==
  \A e \in recorded :
    owner[e] = s.account /\ s.since < born[e] =>
      e \in Remembered(s.processed) \/ Forgotten(e)

\* An id was recorded after those before it in the list.
Follows(s) ==
  \A i, j \in DOMAIN s.processed :
    i < j => s.processed[j] \in newer[s.processed[i]]

MemoInv ==
  /\ \A e \in recorded : Created(e)
  /\ \A e \in Emails : IsFiniteSet(newer[e])
  /\ file # NoState => MemoOf(file) /\ Covers(file) /\ Follows(file)
  /\ pc = "baseline" => Covers(state)

\* A page goes no further than maxChanges, and names nothing that is remembered.
FreshInv ==
  OnPage =>
    /\ page.upTo <= file.since + MaxChanges
    /\ \A e \in page.todo : /\ born[e] <= page.upTo
                            /\ e \notin Remembered(file.processed)

OnceInv == IInv /\ BirthInv /\ MemoInv /\ FreshInv

\* A new id is put at the end of the list, and what does not fit is dropped
\* from its beginning: d ids.
Shifted(s, e, t, d) ==
  /\ d > 0 => d = Len(s) + 1 - MaxProcessed
  /\ d <= Len(s)
  /\ Len(t) = Len(s) + 1 - d
  /\ \A i \in DOMAIN t :
       /\ i + d \in 1 .. Len(s) + 1
       /\ t[i] = IF i + d <= Len(s) THEN s[i + d] ELSE e

\* What is left of a list without its first d elements.
LEMMA SuffixProperties ==
  ASSUME NEW u \in Seq(Emails), NEW d \in Nat, d < Len(u)
  PROVE  /\ Len(SubSeq(u, d + 1, Len(u))) = Len(u) - d
         /\ DOMAIN SubSeq(u, d + 1, Len(u)) = 1 .. Len(u) - d
         /\ \A i \in 1 .. Len(u) - d : SubSeq(u, d + 1, Len(u))[i] = u[d + i]
OBVIOUS

\* Appending an element leaves those before it in their places.
LEMMA AppendedAtEnd ==
  ASSUME NEW s \in Seq(Emails), NEW e \in Emails, e \notin Remembered(s)
  PROVE  \E d \in Nat : Shifted(s, e, appendProcessedEmailId(s, e), d)
<1> DEFINE u == Append(s, e)
           t == appendProcessedEmailId(s, e)
<1>1. t = LastOf(u, MaxProcessed)
  BY DEF appendProcessedEmailId, Without
<1>2. /\ u \in Seq(Emails) /\ Len(u) = Len(s) + 1 /\ Len(s) \in Nat
      /\ DOMAIN u = 1 .. Len(s) + 1
      /\ \A i \in 1 .. Len(s) + 1 : u[i] = IF i <= Len(s) THEN s[i] ELSE e
  BY AppendProperties
<1>3. MaxProcessed \in Nat \ {0}
  BY DiscoveryAssumption
<1> HIDE DEF u, t
<1>4. CASE Len(u) > MaxProcessed
  <2>6. Len(s) + 1 - MaxProcessed \in Nat /\ Len(s) + 1 - MaxProcessed < Len(u)
    BY <1>2, <1>3, <1>4
  <2>1. PICK d \in Nat : d = Len(s) + 1 - MaxProcessed /\ d < Len(u)
    BY <2>6
  <2>2. t = SubSeq(u, d + 1, Len(u))
    <3>1. Len(u) - MaxProcessed + 1 = d + 1
      BY <1>2, <1>3, <2>1
    <3> QED
      BY <1>1, <1>4, <3>1 DEF LastOf
  <2>3. /\ Len(t) = Len(u) - d /\ DOMAIN t = 1 .. Len(u) - d
        /\ \A i \in 1 .. Len(u) - d : t[i] = u[d + i]
    BY <1>2, <2>1, <2>2, SuffixProperties
  <2>4. ASSUME NEW i \in DOMAIN t
        PROVE  /\ i + d \in 1 .. Len(s) + 1
               /\ t[i] = IF i + d <= Len(s) THEN s[i + d] ELSE e
    BY <1>2, <2>1, <2>3
  <2>5. Shifted(s, e, t, d)
    BY <1>2, <1>3, <2>1, <2>3, <2>4 DEF Shifted
  <2> QED
    BY <2>5 DEF t
<1>5. CASE ~(Len(u) > MaxProcessed)
  <2>1. t = u
    BY <1>1, <1>2, <1>3, <1>5 DEF LastOf
  <2>2. Shifted(s, e, t, 0)
    BY <1>2, <2>1 DEF Shifted
  <2> QED
    BY <2>2 DEF t
<1> QED
  BY <1>2, <1>3, <1>4, <1>5

\* Remembering an email of a page keeps what is said of the list.
LEMMA MemoGrows ==
  ASSUME IInv, NEW s \in DiscoveryStates, NEW e \in Emails, MemoOf(s),
         Created(e), owner[e] = s.account, e \notin Remembered(s.processed),
         s.since < born[e], born[e] <= s.since + MaxChanges,
         NEW t \in DiscoveryStates, t.account = s.account, t.since = s.since,
         t.processed = appendProcessedEmailId(s.processed, e)
  PROVE  MemoOf(t)
<1> DEFINE p == s.processed
           q == t.processed
<1>1. p \in Seq(Emails) /\ q \in Seq(Emails) /\ s.since \in Nat
  BY DEF DiscoveryStates, IdLists
<1>2. PICK d \in Nat : Shifted(p, e, q, d)
  BY <1>1, AppendedAtEnd
<1>3. \A i \in DOMAIN q : i \in Nat
  BY <1>1
<1>4. MaxChanges \in Nat /\ born \in [Emails -> Nat]
  BY DiscoveryAssumption DEF IInv, TypeOK
<1>5. \A i \in 1 .. Len(p) : /\ p[i] \in Emails /\ p[i] # e
                             /\ i \in DOMAIN p
  BY <1>1 DEF Remembered
<1>6. ASSUME NEW i \in DOMAIN q
      PROVE  /\ Created(q[i]) /\ owner[q[i]] = t.account
             /\ born[q[i]] <= t.since + MaxChanges
  <2>1. CASE i + d <= Len(p)
    BY <1>2, <1>3, <1>5, <2>1 DEF MemoOf, Shifted
  <2>2. CASE ~(i + d <= Len(p))
    BY <1>2, <2>2 DEF Shifted
  <2> QED
    BY <2>1, <2>2
<1>7. ASSUME NEW i \in DOMAIN q, NEW j \in DOMAIN q, q[i] = q[j]
      PROVE  i = j
  <2>1. i + d \in 1 .. Len(p) + 1 /\ j + d \in 1 .. Len(p) + 1
    BY <1>2 DEF Shifted
  <2>2. i + d <= Len(p) /\ j + d <= Len(p) => i + d = j + d
    BY <1>2, <1>5, <1>7, <2>1 DEF MemoOf, Shifted
  <2>3. i + d <= Len(p) <=> j + d <= Len(p)
    BY <1>2, <1>5, <1>7, <2>1 DEF Shifted
  <2> QED
    BY <1>1, <1>3, <2>1, <2>2, <2>3
<1>8. ASSUME NEW i \in DOMAIN q, NEW j \in DOMAIN q,
             i <= j, t.since < born[q[i]]
      PROVE  /\ born[q[i]] - MaxChanges < born[q[j]]
             /\ born[q[j]] < born[q[i]] + MaxChanges
  <2>1. i + d \in 1 .. Len(p) + 1 /\ j + d \in 1 .. Len(p) + 1 /\ i + d <= j + d
    BY <1>2, <1>3, <1>8 DEF Shifted
  <2>2. CASE j + d <= Len(p)
    <3>1. q[i] = p[i + d] /\ q[j] = p[j + d]
      BY <1>1, <1>2, <2>1, <2>2 DEF Shifted
    <3>2. i + d \in DOMAIN p /\ j + d \in DOMAIN p
      BY <1>1, <2>1, <2>2
    <3> QED
      BY <1>8, <2>1, <3>1, <3>2 DEF MemoOf
  <2>3. CASE ~(j + d <= Len(p))
    <3>1. q[j] = e
      BY <1>2, <2>3 DEF Shifted
    <3>2. born[q[i]] <= s.since + MaxChanges /\ q[i] \in Emails
      BY <1>1, <1>6
    <3> QED
      BY <1>1, <1>4, <1>8, <3>1, <3>2
  <2> QED
    BY <2>2, <2>3
<1> QED
  BY <1>6, <1>7, <1>8 DEF MemoOf

\* With room for two pages it does not drop an email past the cursor: from there
\* on the list has one place for each state less than a page away, at most.
LEMMA MemoKeeps ==
  ASSUME IInv, BirthInv, RoomForTwoPages,
         NEW s \in DiscoveryStates, NEW e \in Emails, MemoOf(s),
         Created(e), owner[e] = s.account, e \notin Remembered(s.processed),
         s.since < born[e], born[e] <= s.since + MaxChanges,
         NEW t \in DiscoveryStates, t.account = s.account, t.since = s.since,
         t.processed = appendProcessedEmailId(s.processed, e),
         NEW f \in Remembered(s.processed) \union {e}, s.since < born[f]
  PROVE  f \in Remembered(t.processed)
<1> DEFINE p == s.processed
           q == t.processed
           L == Len(p) + 1
           u(k) == IF k <= Len(p) THEN p[k] ELSE e
<1>1. p \in Seq(Emails) /\ q \in Seq(Emails) /\ s.since \in Nat
  BY DEF DiscoveryStates, IdLists
<1>2. PICK d \in Nat : Shifted(p, e, q, d)
  BY <1>1, AppendedAtEnd
<1>3. MaxChanges \in Nat \ {0} /\ MaxProcessed \in Nat \ {0}
      /\ born \in [Emails -> Nat]
  BY DiscoveryAssumption DEF IInv, TypeOK
<1>4. PICK k \in 1 .. L : u(k) = f
  <2>1. CASE f = e
    BY <1>1, <2>1
  <2>2. CASE f # e
    <3>1. PICK k \in DOMAIN p : p[k] = f
      BY <2>2 DEF Remembered
    <3> QED
      BY <1>1, <3>1
  <2> QED
    BY <2>1, <2>2
<1>5. ASSUME NEW i \in 1 .. L
      PROVE  /\ u(i) \in Emails /\ Created(u(i)) /\ owner[u(i)] = s.account
             /\ born[u(i)] <= s.since + MaxChanges
  BY <1>1 DEF MemoOf
<1>6. ASSUME NEW i \in 1 .. L, NEW j \in 1 .. L, u(i) = u(j)
      PROVE  i = j
  <2>1. \A l \in 1 .. Len(p) : p[l] # e
    BY <1>1 DEF Remembered
  <2>2. i <= Len(p) <=> j <= Len(p)
    BY <1>1, <1>6, <2>1
  <2>3. i <= Len(p) /\ j <= Len(p) => i = j
    BY <1>1, <1>6 DEF MemoOf
  <2> QED
    BY <1>1, <2>2, <2>3
<1>7. ASSUME NEW i \in k .. L
      PROVE  born[u(i)] \in born[f] - MaxChanges + 1 .. born[f] + MaxChanges - 1
  <2>1. i \in 1 .. L /\ u(i) \in Emails /\ u(k) \in Emails
    BY <1>1, <1>5
  <2>2. CASE i <= Len(p)
    <3>1. k \in DOMAIN p /\ i \in DOMAIN p /\ k <= i /\ p[k] = f /\ u(i) = p[i]
      BY <1>1, <1>4, <2>2
    <3>2. /\ born[f] - MaxChanges < born[p[i]]
          /\ born[p[i]] < born[f] + MaxChanges
      BY <3>1 DEF MemoOf
    <3> QED
      BY <1>3, <1>4, <2>1, <3>1, <3>2
  <2>3. CASE ~(i <= Len(p))
    <3>1. u(i) = e /\ born[f] <= s.since + MaxChanges
      BY <1>4, <1>5, <2>3
    <3> QED
      BY <1>1, <1>3, <1>4, <2>1, <3>1
  <2> QED
    BY <2>2, <2>3
<1> DEFINE T == born[f] - MaxChanges + 1 .. born[f] + MaxChanges - 1
           g == [i \in k .. L |-> born[u(i)]]
<1>8. g \in Injection(k .. L, T)
  <2>1. g \in [k .. L -> T]
    BY <1>7
  <2>2. ASSUME NEW i \in k .. L, NEW j \in k .. L, g[i] = g[j]
        PROVE  i = j
    <3>1. i \in 1 .. L /\ j \in 1 .. L /\ born[u(i)] = born[u(j)]
      BY <1>1, <2>2
    <3>2. u(i) = u(j)
      BY <1>5, <3>1 DEF BirthInv
    <3> QED
      BY <1>6, <3>1, <3>2
  <2> HIDE DEF g
  <2> QED
    BY <2>1, <2>2, Fun_IsInj
<1>9. L - k + 1 <= 2 * MaxChanges - 1
  <2>1. k \in Int /\ L \in Int /\ k <= L /\ born[f] \in Nat
    BY <1>1, <1>3, <1>4, <1>5
  <2>2. IsFiniteSet(T) /\ Cardinality(T) = 2 * MaxChanges - 1
    <3>1. /\ born[f] - MaxChanges + 1 \in Int /\ born[f] + MaxChanges - 1 \in Int
          /\ ~(born[f] - MaxChanges + 1 > born[f] + MaxChanges - 1)
          /\ (born[f] + MaxChanges - 1) - (born[f] - MaxChanges + 1) + 1
               = 2 * MaxChanges - 1
      BY <1>3, <2>1
    <3> QED
      BY <3>1, FS_Interval
  <2> HIDE DEF g, T, L
  <2>3. Cardinality(k .. L) = L - k + 1
    BY <2>1, FS_Interval
  <2>4. Cardinality(k .. L) <= Cardinality(T)
    BY <1>8, <2>2, FS_Injection
  <2> QED
    BY <2>2, <2>3, <2>4
<1>10. k - d \in 1 .. Len(q)
  BY <1>1, <1>2, <1>3, <1>4, <1>9 DEF RoomForTwoPages, Shifted
<1>11. q[k - d] = f /\ k - d \in DOMAIN q
  BY <1>1, <1>2, <1>4, <1>10 DEF Shifted
<1> QED
  BY <1>11 DEF Remembered

\* Without it, what it drops has been followed by as many ids as it holds.
LEMMA MemoDrops ==
  ASSUME IInv, NEW s \in DiscoveryStates, NEW e \in Emails, MemoOf(s),
         e \notin Remembered(s.processed),
         NEW q, q = appendProcessedEmailId(s.processed, e),
         \A i, j \in DOMAIN s.processed :
           i < j => s.processed[j] \in newer'[s.processed[i]],
         \A i \in DOMAIN s.processed : e \in newer'[s.processed[i]],
         NEW f \in Remembered(s.processed), IsFiniteSet(newer'[f])
  PROVE  f \in Remembered(q) \/ MaxProcessed <= Cardinality(newer'[f])
<1> DEFINE p == s.processed
           L == Len(p) + 1
           u(k) == IF k <= Len(p) THEN p[k] ELSE e
<1>1. p \in Seq(Emails) /\ Len(p) \in Nat /\ DOMAIN p = 1 .. Len(p)
  BY DEF DiscoveryStates, IdLists
<1>2. PICK d \in Nat : Shifted(p, e, q, d)
  BY <1>1, AppendedAtEnd
<1>3. MaxProcessed \in Nat \ {0}
  BY DiscoveryAssumption
<1>4. PICK k \in 1 .. Len(p) : p[k] = f
  BY <1>1 DEF Remembered
<1>5. CASE k > d
  <2>1. k - d \in DOMAIN q
    <3>1. DOMAIN q = 1 .. Len(q) /\ Len(q) = Len(p) + 1 - d
      <4>1. q \in Seq(Emails)
        BY <1>1, AppendProcessedProperties
      <4> QED
        BY <1>2, <4>1 DEF Shifted
    <3> QED
      BY <1>1, <1>4, <1>5, <3>1
  <2>2. q[k - d] = f
    BY <1>1, <1>2, <1>4, <2>1 DEF Shifted
  <2> QED
    BY <2>1, <2>2 DEF Remembered
<1>6. CASE ~(k > d)
  <2>1. L - k >= MaxProcessed
    BY <1>1, <1>2, <1>3, <1>4, <1>6 DEF Shifted
  <2> DEFINE g == [i \in k + 1 .. L |-> u(i)]
  <2>2. \A i \in k + 1 .. L : u(i) \in newer'[f]
    BY <1>1, <1>4
  <2>3. ASSUME NEW i \in k + 1 .. L, NEW j \in k + 1 .. L, u(i) = u(j)
        PROVE  i = j
    <3>1. \A l \in 1 .. Len(p) : p[l] # e
      BY <1>1 DEF Remembered
    <3>2. i \in 1 .. L /\ j \in 1 .. L
      BY <1>1, <1>4
    <3>3. i <= Len(p) <=> j <= Len(p)
      BY <1>1, <2>3, <3>1, <3>2
    <3>4. i <= Len(p) /\ j <= Len(p) => i = j
      BY <1>1, <2>3, <3>2 DEF MemoOf
    <3> QED
      BY <1>1, <3>2, <3>3, <3>4
  <2>4. g \in Injection(k + 1 .. L, newer'[f])
    <3>1. g \in [k + 1 .. L -> newer'[f]]
      BY <2>2
    <3>2. \A i, j \in k + 1 .. L : g[i] = g[j] => i = j
      BY <2>3
    <3> HIDE DEF g
    <3> QED
      BY <3>1, <3>2, Fun_IsInj
  <2>5. Cardinality(k + 1 .. L) = L - k
    <3>1. /\ k \in Int /\ k + 1 \in Int /\ L \in Int
          /\ ~(k + 1 > L) /\ L - (k + 1) + 1 = L - k
      BY <1>1, <1>4
    <3> HIDE DEF L
    <3>2. Cardinality(k + 1 .. L) = L - (k + 1) + 1
      BY <3>1, FS_Interval
    <3> QED
      BY <3>1, <3>2
  <2>6. Cardinality(k + 1 .. L) <= Cardinality(newer'[f])
    BY <2>4, FS_Injection
  <2>7. Cardinality(newer'[f]) \in Nat
    BY FS_CardinalityType
  <2> QED
    BY <1>1, <1>3, <1>4, <2>1, <2>5, <2>6, <2>7
<1> QED
  BY <1>5, <1>6

\* Steps that save no state and record nothing keep what is remembered.
LEMMA MemoQuiet ==
  ASSUME IInv, MemoInv, UNCHANGED <<owner, born, file, recorded, newer>>,
         \A e \in Emails : Created(e)' = Created(e),
         pc' = "baseline" => pc = "baseline" /\ state' = state
  PROVE  MemoInv'
<1>1. \A e \in recorded : e \in Emails
  BY DEF IInv, TypeOK
<1>2. file # NoState =>
        /\ file.processed \in Seq(Emails)
        /\ \A i \in DOMAIN file.processed : file.processed[i] \in Emails
  BY DEF IInv, TypeOK, DiscoveryStates, IdLists
<1>3. file # NoState => MemoOf(file)'
  BY <1>2 DEF MemoInv, MemoOf
<1>4. /\ file # NoState => Covers(file)' /\ Follows(file)'
      /\ pc' = "baseline" => Covers(state)'
  BY DEF MemoInv, Covers, Forgotten, PushedOut, Follows
<1> QED
  BY <1>1, <1>3, <1>4 DEF MemoInv

\* Nothing is recorded or remembered at first.
LEMMA OnceInit == Init => OnceInv
<1> SUFFICES ASSUME Init PROVE OnceInv
  OBVIOUS
<1>1. BirthInv /\ MemoInv /\ FreshInv
  BY FS_EmptySet DEF Init, BirthInv, Created, MemoInv, FreshInv, OnPage
<1> QED
  BY <1>1, InitInv DEF OnceInv

\* A new mail is remembered nowhere yet, and its creation state is new.
LEMMA OnceNewMail ==
  ASSUME OnceInv, NEW e \in Emails, NEW p \in {"inbox", "other"}, NewMail(e, p)
  PROVE  BirthInv' /\ MemoInv' /\ FreshInv'
<1> USE DEF OnceInv, NewMail, Changed, local, history
<1>1. /\ owner' = owner /\ file' = file /\ recorded' = recorded /\ newer' = newer
      /\ pc' = pc /\ state' = state /\ page' = page /\ place[e] = "unborn"
      /\ \A f \in Emails : f # e => born'[f] = born[f] /\ place'[f] = place[f]
      /\ Created(e)' /\ born'[e] = modseq[owner[e]] + 1
  BY DEF IInv, TypeOK, Created
<1>2. BirthInv'
  <2>1. \A f \in Emails : f # e /\ Created(f)' /\ owner[f] = owner[e] =>
          born'[f] < born'[e]
    BY <1>1 DEF IInv, TypeOK, BornInv, Created
  <2> QED
    BY <1>1, <2>1 DEF IInv, TypeOK, BirthInv, Created
<1>3. MemoInv'
  <2>1. \A f \in Emails : Created(f) => Created(f)' /\ f # e /\ born'[f] = born[f]
    BY <1>1 DEF Created
  <2>2. ASSUME file # NoState
        PROVE  MemoOf(file)'
    <3>1. \A i \in DOMAIN file.processed :
            file.processed[i] \in Emails /\ Created(file.processed[i])
      BY <2>2 DEF IInv, TypeOK, DiscoveryStates, IdLists, MemoInv, MemoOf
    <3>2. \A i \in DOMAIN file.processed :
            /\ Created(file.processed[i])'
            /\ born'[file.processed[i]] = born[file.processed[i]]
      BY <2>1, <3>1
    <3> QED
      BY <1>1, <2>2, <3>2 DEF MemoInv, MemoOf
  <2>3. \A f \in recorded : Created(f)' /\ born'[f] = born[f]
    BY <2>1 DEF MemoInv, IInv, TypeOK
  <2>4. /\ file # NoState => Covers(file)' /\ Follows(file)'
        /\ pc = "baseline" => Covers(state)'
    BY <1>1, <2>3 DEF MemoInv, Covers, Forgotten, PushedOut, Follows
  <2> QED
    BY <1>1, <2>2, <2>3, <2>4 DEF MemoInv
<1>4. FreshInv'
  <2>1. OnPage => \A f \in page.todo : f \in Emails /\ f # e
    BY <1>1 DEF IInv, PageInv, TypeOK
  <2> QED
    BY <1>1, <2>1 DEF FreshInv, OnPage
<1> QED
  BY <1>2, <1>3, <1>4

\* Where a mail is does not matter once it has been created.
LEMMA OnceRelocate ==
  ASSUME OnceInv, NEW e \in Emails, Relocate(e)
  PROVE  BirthInv' /\ MemoInv' /\ FreshInv'
<1> USE DEF OnceInv, Relocate, Changed, InInbox, local, history
<1>1. /\ UNCHANGED <<owner, born, file, recorded, newer, pc, state, page>>
      /\ \A f \in Emails : Created(f)' = Created(f)
  BY DEF IInv, TypeOK, Created
<1>2. MemoInv'
  BY <1>1, MemoQuiet
<1> QED
  BY <1>1, <1>2 DEF BirthInv, FreshInv, OnPage

\* A baseline lies at or past everything recorded of its account.
LEMMA OnceStartPoll ==
  ASSUME OnceInv, StartPoll
  PROVE  BirthInv' /\ MemoInv' /\ FreshInv'
<1> USE DEF OnceInv, StartPoll, LoadState, createInitialDiscoveryState,
            server, history
<1>1. BirthInv' /\ FreshInv'
  BY DEF BirthInv, Created, FreshInv, OnPage
<1>2. CASE file # NoState /\ file.account = binding
  <2>1. /\ pc' = "page" /\ UNCHANGED <<owner, born, file, recorded, newer>>
        /\ \A e \in Emails : Created(e)' = Created(e)
    BY <1>2 DEF Created
  <2> QED
    BY <1>1, <2>1, MemoQuiet
<1>3. CASE ~(file # NoState /\ file.account = binding)
  <2>1. state'.account = binding /\ state'.since = modseq[binding]
    BY <1>3
  <2>2. Covers(state)'
    BY <2>1 DEF Covers, MemoInv, IInv, BornInv, TypeOK, Created
  <2>3. file # NoState => MemoOf(file)' /\ Covers(file)' /\ Follows(file)'
    BY DEF MemoInv, MemoOf, Covers, Created, Forgotten, PushedOut, Follows
  <2>4. \A e \in recorded' : Created(e)'
    BY DEF MemoInv, Created
  <2>5. file' = file
    OBVIOUS
  <2> QED
    BY <1>1, <2>2, <2>3, <2>4, <2>5 DEF MemoInv
<1> QED
  BY <1>2, <1>3

\* A baseline remembers nothing, and nothing recorded lies past it.
LEMMA OnceSaveBaseline ==
  ASSUME OnceInv, SaveBaseline
  PROVE  BirthInv' /\ MemoInv' /\ FreshInv'
<1> USE DEF OnceInv, SaveBaseline, Leave, server
<1>1. BirthInv' /\ FreshInv'
  BY DEF BirthInv, Created, FreshInv, OnPage
<1>2. MemoOf(file)' /\ Covers(file)' /\ Follows(file)'
  BY DEF MemoInv, MemoOf, Covers, IInv, BaselineInv, Forgotten, PushedOut, Follows
<1> QED
  BY <1>1, <1>2 DEF MemoInv, Created

\* A page is at most maxChanges long and names nothing that is remembered.
LEMMA OnceGetChanges ==
  ASSUME OnceInv, GetChanges
  PROVE  BirthInv' /\ MemoInv' /\ FreshInv'
<1> USE DEF OnceInv, GetChanges, candidateIds, server, history
<1>1. BirthInv' /\ MemoInv'
  BY MemoQuiet DEF BirthInv, Created
<1>2. state = file /\ file # NoState /\ file.account = binding
  BY DEF IInv, MemoryInv, Polling
<1>3. FreshInv'
  BY <1>2 DEF FreshInv, OnPage, IInv, TypeOK
<1> QED
  BY <1>1, <1>3

\* Reading the mails of a page and taking the next one adds none to it.
LEMMA OnceHandleMail ==
  ASSUME OnceInv, NEW e \in Emails,
         GetMessages \/ Dispatch(e) \/ StopAtLimit(e)
  PROVE  BirthInv' /\ MemoInv' /\ FreshInv'
<1> USE DEF OnceInv, GetMessages, Dispatch, StopAtLimit, TakeNext, server, history
<1>1. BirthInv' /\ MemoInv'
  BY MemoQuiet DEF BirthInv, Created
<1>2. FreshInv'
  BY DEF FreshInv, OnPage, IInv, TypeOK
<1> QED
  BY <1>1, <1>2

\* The outcome of the email at hand is remembered, and nothing past the cursor
\* is dropped before it has been pushed out.
LEMMA OnceRecord ==
  ASSUME OnceInv, Record
  PROVE  BirthInv' /\ MemoInv' /\ FreshInv'
<1> USE DEF OnceInv, Record, Remember, server, history
<1>1. /\ state \in DiscoveryStates /\ state = file /\ file # NoState
      /\ file.account = binding
      /\ cur \in page.todo /\ cur \in Emails /\ Created(cur)
      /\ owner[cur] = file.account /\ file.since < born[cur]
      /\ born[cur] <= page.upTo /\ page.upTo <= file.since + MaxChanges
      /\ cur \notin Remembered(file.processed)
  BY DEF IInv, MemoryInv, Polling, CurInv, TypeOK, PageInv, FreshInv, OnPage,
     Created
<1>2. /\ page.upTo \in Nat /\ file.since \in Nat /\ born[cur] \in Nat
      /\ MaxChanges \in Nat
  BY <1>1, DiscoveryAssumption DEF IInv, TypeOK, DiscoveryStates
<1>3. born[cur] <= file.since + MaxChanges /\ cur \notin Remembered(file.processed)
  BY <1>1, <1>2
<1>4. file.processed \in Seq(Emails) /\ MemoOf(file) /\ Covers(file) /\ Follows(file)
  BY <1>1 DEF DiscoveryStates, IdLists, MemoInv
<1>5. appendProcessedEmailId(file.processed, cur) \in IdLists
  BY <1>1, <1>4, AppendProcessedProperties DEF IdLists
<1>6. /\ file' \in DiscoveryStates
      /\ file'.account = file.account /\ file'.since = file.since
      /\ file'.processed = appendProcessedEmailId(file.processed, cur)
  BY <1>1, <1>5 DEF DiscoveryStates
<1>7. MemoOf(file')
  BY <1>1, <1>3, <1>4, <1>6, MemoGrows
<1>8. MemoOf(file)'
  BY <1>7 DEF MemoOf, Created
<1>12. \A e \in Emails : newer'[e] = IF e \in recorded \ {cur}
                                      THEN newer[e] \union {cur} ELSE {}
  OBVIOUS
<1>13. ASSUME NEW e \in Emails
       PROVE  /\ IsFiniteSet(newer'[e])
              /\ e \in recorded /\ e # cur /\ Forgotten(e) => Forgotten(e)'
  <2>1. IsFiniteSet(newer[e]) /\ Cardinality(newer[e]) \in Nat
    BY FS_CardinalityType DEF MemoInv
  <2>2. IsFiniteSet(newer[e] \union {cur})
    BY <2>1, FS_AddElement
  <2>3. Cardinality(newer[e]) <= Cardinality(newer[e] \union {cur})
        /\ Cardinality(newer[e] \union {cur}) \in Nat
    BY <2>2, FS_Subset, FS_CardinalityType
  <2>4. MaxProcessed \in Nat
    BY DiscoveryAssumption
  <2>5. CASE e \in recorded /\ e # cur
    <3>1. newer'[e] = newer[e] \union {cur}
      BY <1>12, <2>5
    <3> QED
      BY <2>1, <2>2, <2>3, <2>4, <3>1 DEF Forgotten, PushedOut
  <2>6. CASE ~(e \in recorded /\ e # cur)
    <3>1. newer'[e] = {}
      BY <1>12, <2>6
    <3> QED
      BY <2>6, <3>1, FS_EmptySet
  <2> QED
    BY <2>5, <2>6
<1> DEFINE p == file.processed
           q == file'.processed
<1>14. \A i \in DOMAIN p : p[i] \in recorded /\ p[i] # cur /\ p[i] \in Emails
  BY <1>1, <1>3, <1>4 DEF Remembered, IInv, FileInv, TypeOK
<1>15. /\ \A i, j \in DOMAIN p : i < j => p[j] \in newer'[p[i]]
       /\ \A i \in DOMAIN p : cur \in newer'[p[i]]
  BY <1>4, <1>12, <1>14 DEF Follows
<1>16. PICK d \in Nat : Shifted(p, cur, q, d)
  BY <1>1, <1>3, <1>4, <1>6, AppendedAtEnd
<1>17. /\ DOMAIN p = 1 .. Len(p) /\ Len(p) \in Nat
       /\ DOMAIN q = 1 .. Len(q) /\ Len(q) \in Nat /\ Len(q) = Len(p) + 1 - d
       /\ d <= Len(p)
  BY <1>4, <1>5, <1>6, <1>16 DEF IdLists, Shifted
<1>18. cur \in Remembered(q)
  <2>1. Len(q) \in DOMAIN q
    BY <1>17
  <2>2. q[Len(q)] = cur
    <3> HIDE DEF p, q
    <3>1. Len(q) + d = Len(p) + 1 /\ ~(Len(q) + d <= Len(p))
      BY <1>17
    <3>2. q[Len(q)] = IF Len(q) + d <= Len(p) THEN p[Len(q) + d] ELSE cur
      BY <1>16, <2>1, Zenon DEF Shifted
    <3> QED
      BY <3>1, <3>2
  <2> QED
    BY <2>1, <2>2 DEF Remembered
<1>19. Follows(file)'
  <2>1. ASSUME NEW i \in DOMAIN q, NEW j \in DOMAIN q, i < j
        PROVE  q[j] \in newer'[q[i]]
    <3>1. i + d \in DOMAIN p /\ q[i] = p[i + d]
      BY <1>16, <1>17, <2>1 DEF Shifted
    <3>2. CASE j + d <= Len(p)
      <4>1. j + d \in DOMAIN p /\ q[j] = p[j + d] /\ i + d < j + d
        BY <1>16, <1>17, <2>1, <3>2 DEF Shifted
      <4> QED
        BY <1>15, <3>1, <4>1
    <3>3. CASE ~(j + d <= Len(p))
      <4>1. q[j] = cur
        BY <1>16, <2>1, <3>3 DEF Shifted
      <4> QED
        BY <1>15, <3>1, <4>1
    <3> QED
      BY <3>2, <3>3
  <2> QED
    BY <2>1 DEF Follows
<1>9. Covers(file)'
  <2>1. ASSUME NEW f \in recorded', owner[f] = file.account, file.since < born[f]
        PROVE  f \in Remembered(q) \/ Forgotten(f)'
    <3>1. CASE f = cur
      BY <1>18, <3>1
    <3>2. CASE f # cur /\ Forgotten(f)
      BY <1>1, <1>13, <2>1, <3>2 DEF IInv, TypeOK
    <3>3. CASE f # cur /\ ~Forgotten(f)
      <4>1. f \in Remembered(p) /\ f \in Emails
        BY <1>4, <2>1, <3>3 DEF Covers, IInv, TypeOK
      <4>2. CASE RoomForTwoPages
        BY <1>1, <1>3, <1>4, <1>6, <2>1, <4>1, <4>2, MemoKeeps
      <4>3. CASE ~RoomForTwoPages
        <5>1. f \in Remembered(q) \/ MaxProcessed <= Cardinality(newer'[f])
          BY <1>1, <1>3, <1>4, <1>6, <1>13, <1>15, <4>1, MemoDrops
        <5> QED
          BY <4>3, <5>1 DEF Forgotten, PushedOut
      <4> QED
        BY <4>2, <4>3
    <3> QED
      BY <3>1, <3>2, <3>3
  <2> QED
    BY <1>6, <2>1 DEF Covers
<1>10. MemoInv'
  BY <1>1, <1>8, <1>9, <1>13, <1>19 DEF MemoInv, Created
<1>11. FreshInv'
  <2>1. \A e \in page.todo : /\ e \in Emails /\ born[e] <= page.upTo
                             /\ e \notin Remembered(p)
    BY <1>1 DEF FreshInv, OnPage, IInv, TypeOK
  <2>2. \A e \in page'.todo : e \in page.todo /\ e # cur
    BY DEF IInv, TypeOK
  <2>3. Remembered(q) \subseteq Remembered(p) \union {cur}
    BY <1>16, <1>17 DEF Remembered, Shifted
  <2>4. page'.upTo = page.upTo
    BY DEF IInv, TypeOK
  <2> QED
    BY <1>1, <1>6, <2>1, <2>2, <2>3, <2>4 DEF FreshInv
<1> QED
  BY <1>10, <1>11 DEF BirthInv, Created

\* A cursor further on has less past it.
LEMMA OnceAdvance ==
  ASSUME OnceInv, AdvanceCursor
  PROVE  BirthInv' /\ MemoInv' /\ FreshInv'
<1> USE DEF OnceInv, AdvanceCursor, MoveCursor, Leave, server, history
<1>1. /\ state = file /\ file \in DiscoveryStates /\ file # NoState
      /\ file.since <= page.upTo
  BY DEF IInv, MemoryInv, Polling, PageInv, OnPage, TypeOK
<1>2. /\ file'.account = file.account /\ file'.processed = file.processed
      /\ file'.since = page.upTo
  BY <1>1 DEF DiscoveryStates
<1>3. file.since \in Nat /\ page.upTo \in Nat /\ MaxChanges \in Nat
      /\ file.processed \in Seq(Emails) /\ born \in [Emails -> Nat]
  BY <1>1, DiscoveryAssumption DEF IInv, TypeOK, DiscoveryStates, IdLists
<1>4. MemoOf(file) /\ Covers(file) /\ Follows(file)
  BY <1>1 DEF MemoInv
<1>5. MemoOf(file)'
  <2>1. \A i \in DOMAIN file.processed : file.processed[i] \in Emails
    BY <1>3
  <2>2. \A n \in Nat : /\ n <= file.since + MaxChanges => n <= page.upTo + MaxChanges
                       /\ page.upTo < n => file.since < n
    BY <1>1, <1>3
  <2>3. \A i \in DOMAIN file.processed : born[file.processed[i]] \in Nat
    BY <1>3, <2>1
  <2> QED
    BY <1>2, <1>4, <2>2, <2>3 DEF MemoOf, Created
<1>6. Covers(file)' /\ Follows(file)'
  BY <1>1, <1>2, <1>3, <1>4
     DEF Covers, IInv, TypeOK, Forgotten, PushedOut, Follows
<1>7. pc' # "baseline" /\ recorded' = recorded /\ newer' = newer
  OBVIOUS
<1>8. MemoInv'
  BY <1>5, <1>6, <1>7 DEF MemoInv, Created
<1> QED
  BY <1>8 DEF BirthInv, Created, FreshInv, OnPage

\* A failure or a restart leaves what is saved alone.
LEMMA OnceFault ==
  ASSUME OnceInv, PollFails \/ FatalDiscoveryError \/ \E a \in Accounts : Restart(a)
  PROVE  BirthInv' /\ MemoInv' /\ FreshInv'
<1> USE DEF OnceInv, PollFails, FatalDiscoveryError, Restart, Leave, server, history
<1>1. pc' \in {"idle", "stopped"}
  OBVIOUS
<1>2. MemoInv'
  BY <1>1, MemoQuiet DEF Created
<1> QED
  BY <1>1, <1>2 DEF BirthInv, Created, FreshInv, OnPage

\* What is dispatched although it was recorded has been pushed out.
LEMMA DispatchForgotten ==
  ASSUME OnceInv, NEW e \in Emails, Dispatch(e), e \in recorded
  PROVE  Forgotten(e)
<1>1. /\ file # NoState /\ owner[e] = file.account /\ file.since < born[e]
      /\ e \notin Remembered(file.processed)
  BY DEF OnceInv, IInv, MemoryInv, Polling, PageInv, FreshInv, OnPage, Dispatch,
     TakeNext
<1> QED
  BY <1>1 DEF OnceInv, MemoInv, Covers

\* No step forgets an email that the next pages can still name, unless it has
\* been pushed out.
LEMMA OnceNext == OnceInv /\ [Next]_vars => OnceInv'
<1> SUFFICES ASSUME OnceInv, [Next]_vars PROVE OnceInv'
  OBVIOUS
<1>1. IInv'
  BY NextInv DEF OnceInv
<1>2. BirthInv' /\ MemoInv' /\ FreshInv'
  <2>1. CASE Server
    BY <2>1, OnceNewMail, OnceRelocate DEF Server
  <2>2. CASE PollStep
    <3>1. CASE GetMessages
      <4>1. CASE Emails = {}
        BY <3>1, <4>1, MemoQuiet DEF OnceInv, GetMessages, server, history,
           BirthInv, FreshInv, OnPage, Created, IInv, TypeOK
      <4> QED
        BY <3>1, <4>1, OnceHandleMail
    <3> QED
      BY <2>2, <3>1, OnceStartPoll, OnceSaveBaseline, OnceGetChanges,
         OnceHandleMail, OnceRecord, OnceAdvance DEF PollStep, HandleMail
  <2>3. CASE PollFails \/ FatalDiscoveryError \/ \E a \in Accounts : Restart(a)
    BY <2>3, OnceFault
  <2>4. CASE UNCHANGED vars
    <3>1. MemoInv'
      BY <2>4, MemoQuiet DEF OnceInv, vars, server, local, history, Created
    <3> QED
      BY <2>4, <3>1 DEF OnceInv, vars, server, local, history, BirthInv, Created,
         FreshInv, OnPage
  <2> QED
    BY <2>1, <2>2, <2>3, <2>4 DEF Next
<1> QED
  BY <1>1, <1>2 DEF OnceInv

THEOREM OnceInvariant == Spec => []OnceInv
BY OnceInit, OnceNext, PTL DEF Spec

(* An email whose outcome has been saved is handed to the Agent again, over *)
(* any number of failures, restarts and new bindings, only if as many       *)
(* others as the list of processed ids holds were recorded since; and never *)
(* if the list has room for two pages of changes                            *)
(* (discovery-state-store.ts, lines 95-111).                                *)
THEOREM RepeatedOnlyWhenPushedOut == Spec => NoRepeatAfterRecord
<1> DEFINE Only == \A e \in recorded :
                     attempts'[e] # attempts[e] => PushedOut(e) /\ ~RoomForTwoPages
<1>1. ASSUME OnceInv, [Next]_vars
      PROVE  [Only]_vars
  <2> SUFFICES ASSUME Next, NEW e \in recorded, attempts'[e] # attempts[e]
               PROVE  PushedOut(e) /\ ~RoomForTwoPages
    BY <1>1
  <2>1. PICK f \in Emails : Dispatch(f)
    BY DEF Next, Server, PollStep, HandleMail, NewMail, Relocate, StartPoll,
       LoadState, SaveBaseline, GetChanges, GetMessages, StopAtLimit, Record,
       Remember, AdvanceCursor, MoveCursor, PollFails, FatalDiscoveryError,
       Restart, history
  <2>2. e = f
    BY <1>1, <2>1 DEF Dispatch, OnceInv, IInv, TypeOK
  <2> QED
    BY <1>1, <2>1, <2>2, DispatchForgotten DEF Forgotten
<1>2. OnceInv /\ [Next]_vars => [Only]_vars
  BY <1>1
<1> QED
  BY <1>2, OnceInvariant, PTL DEF Spec, NoRepeatAfterRecord

----------------------------------------------------------------------------
(* A repeated dispatch costs a fault.                                      *)

\* Emails that were dispatched and then cut off before the save.
Cut == {e \in Emails : attempts[e] > 0 /\ e \notin recorded /\ e # cur}

RepeatInv ==
  /\ IsFiniteSet(Repeated) /\ IsFiniteSet(Cut)
  /\ Cardinality(Repeated) + Cardinality(Cut) <= faults + crowded
  /\ RoomForTwoPages => crowded = 0

\* The dispatches of an email after its first are numbered from 1.
LEMMA RepeatedMembers ==
  ASSUME IInv
  PROVE  \A r : r \in Repeated <=>
           \E e \in Emails, k \in Nat : r = <<e, k>> /\ 1 <= k /\ k < attempts[e]
BY DEF Repeated, IInv, TypeOK

\* Dispatching an email again adds one of them, and dispatching it for the
\* first time none.
LEMMA RepeatedGrows ==
  ASSUME IInv, IInv', NEW e \in Emails,
         attempts' = [attempts EXCEPT ![e] = @ + 1]
  PROVE  Repeated' = IF attempts[e] = 0 THEN Repeated
                     ELSE Repeated \union {<<e, attempts[e]>>}
<1>1. attempts \in [Emails -> Nat]
  BY DEF IInv, TypeOK
<1>2. \A r : r \in Repeated' <=>
        \E f \in Emails, k \in Nat : r = <<f, k>> /\ 1 <= k /\ k < attempts'[f]
  BY RepeatedMembers DEF Repeated, IInv, TypeOK
<1>3. ASSUME NEW f \in Emails, NEW k \in Nat, 1 <= k
      PROVE  k < attempts'[f] <=>
               k < attempts[f] \/ (f = e /\ k = attempts[e] /\ attempts[e] # 0)
  BY <1>1, <1>3
<1>4. \A r : r \in Repeated' <=>
        r \in Repeated \/ (attempts[e] # 0 /\ r = <<e, attempts[e]>>)
  BY <1>1, <1>2, <1>3, RepeatedMembers
<1> QED
  BY <1>4

\* A step that dispatches nothing cuts off at most the email in hand, and if
\* it does it is a fault.
LEMMA RepeatUnlessDispatch ==
  ASSUME IInv, RepeatInv, attempts' = attempts, faults \in Nat, faults' \in Nat,
         crowded \in Nat, crowded' = crowded,
         \/ Cut' \subseteq Cut /\ faults <= faults'
         \/ Cut' \subseteq Cut \union {cur} /\ faults' = faults + 1
  PROVE  RepeatInv'
<1>1. Repeated' = Repeated
  BY DEF Repeated
<1>2. /\ IsFiniteSet(Cut) /\ IsFiniteSet(Cut \union {cur})
      /\ Cardinality(Cut \union {cur}) <= Cardinality(Cut) + 1
      /\ Cardinality(Cut) \in Nat /\ Cardinality(Cut \union {cur}) \in Nat
      /\ Cardinality(Repeated) \in Nat
  <2>1. /\ IsFiniteSet(Cut) /\ Cardinality(Cut) \in Nat
        /\ Cardinality(Repeated) \in Nat
    BY FS_CardinalityType DEF RepeatInv
  <2>2. /\ IsFiniteSet(Cut \union {cur})
        /\ Cardinality(Cut \union {cur})
             = IF cur \in Cut THEN Cardinality(Cut) ELSE Cardinality(Cut) + 1
    BY <2>1, FS_AddElement
  <2> QED
    BY <2>1, <2>2
<1>3. CASE Cut' \subseteq Cut /\ faults <= faults'
  <2>1. IsFiniteSet(Cut') /\ Cardinality(Cut') <= Cardinality(Cut)
        /\ Cardinality(Cut') \in Nat
    BY <1>2, <1>3, FS_Subset, FS_CardinalityType
  <2> QED
    BY <1>1, <1>2, <1>3, <2>1 DEF RepeatInv
<1>4. CASE Cut' \subseteq Cut \union {cur} /\ faults' = faults + 1
  <2>1. IsFiniteSet(Cut') /\ Cardinality(Cut') <= Cardinality(Cut \union {cur})
        /\ Cardinality(Cut') \in Nat
    BY <1>2, <1>4, FS_Subset, FS_CardinalityType
  <2> QED
    BY <1>1, <1>2, <1>4, <2>1 DEF RepeatInv
<1> QED
  BY <1>3, <1>4

\* An email that is dispatched again had been cut off or pushed out, and is in
\* hand now.
LEMMA RepeatDispatch ==
  ASSUME OnceInv, IInv', RepeatInv, NEW e \in Emails, Dispatch(e)
  PROVE  RepeatInv'
<1>1. /\ attempts' = [attempts EXCEPT ![e] = @ + 1] /\ cur' = e
      /\ attempts \in [Emails -> Nat] /\ recorded' = recorded
      /\ cur = NoEmail /\ NoEmail \notin Emails /\ faults' = faults
      /\ faults \in Nat /\ crowded \in Nat
  BY DiscoveryAssumption DEF Dispatch, TakeNext, OnceInv, IInv, TypeOK, CurInv
<1>9. e \in recorded => Forgotten(e)
  BY DispatchForgotten
<1>2. Cut' = Cut \ {e}
  BY <1>1 DEF Cut
<1>3. Repeated' = IF attempts[e] = 0 THEN Repeated
                  ELSE Repeated \union {<<e, attempts[e]>>}
  BY <1>1, RepeatedGrows DEF OnceInv
<1>4. \/ attempts[e] = 0 \/ e \in Cut
      \/ crowded' = crowded + 1 /\ ~RoomForTwoPages
  BY <1>1, <1>9 DEF Cut, Forgotten, Dispatch
<1>8. /\ crowded' \in {crowded, crowded + 1}
      /\ RoomForTwoPages => crowded' = crowded
  BY <1>1, <1>9 DEF Forgotten, Dispatch
<1>5. Cardinality(Repeated) \in Nat /\ Cardinality(Cut) \in Nat
  BY FS_CardinalityType DEF RepeatInv
<1>6. /\ IsFiniteSet(Cut')
      /\ Cardinality(Cut') = IF e \in Cut THEN Cardinality(Cut) - 1
                             ELSE Cardinality(Cut)
  BY <1>2, FS_RemoveElement DEF RepeatInv
<1>7. /\ IsFiniteSet(Repeated')
      /\ Cardinality(Repeated') <= Cardinality(Repeated)
                                     + (IF attempts[e] = 0 THEN 0 ELSE 1)
      /\ Cardinality(Repeated') \in Nat
  <2> DEFINE r == <<e, attempts[e]>>
  <2> HIDE DEF r
  <2>3. /\ IsFiniteSet(Repeated \union {r})
        /\ Cardinality(Repeated \union {r})
             = IF r \in Repeated THEN Cardinality(Repeated)
               ELSE Cardinality(Repeated) + 1
    BY FS_AddElement DEF RepeatInv
  <2>1. IsFiniteSet(Repeated \union {r})
        /\ Cardinality(Repeated \union {r}) <= Cardinality(Repeated) + 1
    BY <1>5, <2>3
  <2>2. Cardinality(Repeated \union {r}) \in Nat
    BY <2>1, FS_CardinalityType
  <2> QED
    BY <1>3, <1>5, <2>1, <2>2 DEF RepeatInv, r
<1> QED
  BY <1>1, <1>4, <1>5, <1>6, <1>7, <1>8 DEF RepeatInv

\* Nothing has been dispatched at first.
LEMMA RepeatInit == Init => RepeatInv
<1> SUFFICES ASSUME Init PROVE RepeatInv
  OBVIOUS
<1>1. Repeated = {} /\ Cut = {}
  BY DEF Init, Repeated, Cut
<1> QED
  BY <1>1, FS_EmptySet DEF Init, RepeatInv

\* Every step keeps the repeated and the cut off within the faults.
LEMMA RepeatNext == OnceInv /\ RepeatInv /\ [Next]_vars => RepeatInv'
<1> SUFFICES ASSUME OnceInv, RepeatInv, [Next]_vars PROVE RepeatInv'
  OBVIOUS
<1>0. IInv /\ IInv' /\ faults \in Nat /\ faults' \in Nat /\ crowded \in Nat
  BY NextInv DEF OnceInv, IInv, TypeOK
<1>1. CASE \E e \in Emails : Dispatch(e)
  BY <1>0, <1>1, RepeatDispatch
<1>2. CASE PollFails \/ FatalDiscoveryError \/ \E a \in Accounts : Restart(a)
  <2>1. /\ attempts' = attempts /\ recorded' = recorded /\ faults' = faults + 1
        /\ cur' = NoEmail /\ crowded' = crowded
    BY <1>2 DEF PollFails, FatalDiscoveryError, Restart, Leave, Fault, history
  <2>2. Cut' \subseteq Cut \union {cur}
    BY <2>1 DEF Cut
  <2> QED
    BY <1>0, <2>1, <2>2, RepeatUnlessDispatch
<1>3. ASSUME NEW e \in Emails, StopAtLimit(e)
      PROVE  RepeatInv'
  <2>1. /\ attempts' = attempts /\ recorded' = recorded /\ faults' = faults
        /\ cur = NoEmail /\ crowded' = crowded
    BY <1>0, <1>3 DEF StopAtLimit, TakeNext, history, IInv, CurInv
  <2>2. Cut' \subseteq Cut
    BY <2>1, DiscoveryAssumption DEF Cut
  <2> QED
    BY <1>0, <2>1, <2>2, RepeatUnlessDispatch
<1>4. CASE Record
  <2>1. /\ attempts' = attempts /\ recorded' = recorded \union {cur}
        /\ faults' = faults /\ crowded' = crowded
    BY <1>4 DEF Record, Remember
  <2>2. Cut' \subseteq Cut
    BY <2>1 DEF Cut
  <2> QED
    BY <1>0, <2>1, <2>2, RepeatUnlessDispatch
<1>5. CASE \/ Server \/ StartPoll \/ SaveBaseline \/ GetChanges \/ GetMessages
           \/ AdvanceCursor \/ UNCHANGED vars
  <2>1. /\ attempts' = attempts /\ recorded' = recorded /\ faults' = faults
        /\ cur' = cur /\ crowded' = crowded
    <3>1. CASE Server \/ StartPoll \/ GetChanges \/ GetMessages \/ UNCHANGED vars
      BY <3>1 DEF Server, NewMail, Relocate, StartPoll, LoadState, GetChanges,
         GetMessages, history, local, vars
    <3>2. CASE SaveBaseline \/ AdvanceCursor
      BY <1>0, <3>2 DEF SaveBaseline, AdvanceCursor, MoveCursor, Leave, history,
         IInv, CurInv
    <3> QED
      BY <1>5, <3>1, <3>2
  <2>2. Cut' \subseteq Cut
    BY <2>1 DEF Cut
  <2> QED
    BY <1>0, <2>1, <2>2, RepeatUnlessDispatch
<1> QED
  BY <1>1, <1>2, <1>3, <1>4, <1>5 DEF Next, PollStep, HandleMail

(* Each failure, crash or restart costs at most one repeated dispatch, over *)
(* all emails together; whatever else is repeated had been pushed out of    *)
(* the list, which takes a list without room for two pages.                 *)
THEOREM RepeatsArePaidFor == Spec => []OneRepeatPerFault
<1>1. OnceInv /\ RepeatInv /\ [Next]_vars => RepeatInv'
  BY RepeatNext
<1>2. RepeatInv /\ OnceInv => OneRepeatPerFault
  <2> SUFFICES ASSUME RepeatInv, OnceInv PROVE OneRepeatPerFault
    OBVIOUS
  <2>1. /\ Cardinality(Repeated) \in Nat /\ Cardinality(Cut) \in Nat
        /\ faults \in Nat /\ crowded \in Nat
    BY FS_CardinalityType DEF RepeatInv, OnceInv, IInv, TypeOK
  <2> QED
    BY <2>1 DEF RepeatInv, OneRepeatPerFault
<1> QED
  BY <1>1, <1>2, RepeatInit, OnceInvariant, PTL DEF Spec
=============================================================================
