------------------------------ MODULE MailWrites ------------------------------
(***************************************************************************)
(* What an Agent turn writes for a new mail: mail_auto_reply or mail_reply *)
(* through AgentMailApiClient to the mail server (external), and the note  *)
(* to the owner about a saved Draft, through OpenClawOwnerDraftNotifier    *)
(* and the FileMailWorkflowStateStore.  A mail may be dispatched again     *)
(* after a crash or a cut-off turn, as MailDiscovery shows, while the tool *)
(* call of the turn before still runs or its request is still on the way.  *)
(*                                                                         *)
(* One tool call per turn, as the prompt demands; a turn without one ends  *)
(* at once and is left out.  Texts are left out; a Draft is named by the   *)
(* idempotency key it was saved under.                                     *)
(***************************************************************************)
EXTENDS Naturals, FiniteSets

CONSTANTS
  Emails,    \* new mails
  Calls,     \* tool calls, each with an id of its own
  None,
  MaxFlips,  \* bound of the model: changes of the owner's outbound mode
  MaxFaults  \* bound of the model: crashes and cut-off turns

ASSUME WritesAssumption ==
  /\ None \notin Emails \union Calls
  /\ Emails \intersect Calls = {}
  /\ "new" \notin Calls /\ "done" \notin Calls
  /\ MaxFlips \in Nat /\ MaxFaults \in Nat

VARIABLES
  automatic,  \* server: the owner enabled automatic sending
  answers,    \* server: what each idempotency key has led to
  reply,      \* server: the answer to each call's request
  inflight,   \* calls whose request the server has yet to handle
  turn,       \* each mail: "new", in the turn that made this call, or "done"
  call,       \* each call: where it is, its tool, its mail and its outcome
  marks,      \* deliveredNotificationIds in the workflow state file
  marking,    \* the call whose #mutate runs; the others queue behind it
  loaded,     \* deliveredNotificationIds as that call has read them
  sentBy,     \* history: calls whose request sent a reply
  told,       \* history: calls that told the owner of their Draft
  known,      \* history: the file's marks when each call began
  garbled,    \* history: calls that got a JSON answer they cannot use
  flips, faults

server  == <<automatic, answers, reply, inflight>>
store   == <<marks, marking, loaded>>
history == <<sentBy, told, known, garbled>>
bounds  == <<flips, faults>>
vars    == <<server, turn, call, store, history, bounds>>

Keys == Emails \union Calls

\* mutant: the key of an automatic reply changes with the tool call
KeyOfCall(c) == c

\* outboundIdempotencyKey: mail-auto-reply:<emailId>, mail-reply:<toolCallId>
Key(c) == IF call[c].tool = "mail_auto_reply" THEN call[c].email ELSE c

Goto(c, pc) == call' = [call EXCEPT ![c].pc = pc]

Return(c, outcome) == call' = [call EXCEPT ![c].pc = "returned",
                                           ![c].outcome = outcome]

----------------------------------------------------------------------------
(* The turn.                                                               *)

\* getAutoReplyContext decides which tool the turn is allowed.
Dispatch(e, c) ==
  /\ turn[e] = "new"
  /\ call[c].pc = "idle"
  /\ turn' = [turn EXCEPT ![e] = c]
  /\ call' = [call EXCEPT ![c] =
       [pc |-> "request", email |-> e, outcome |-> "none",
        tool |-> IF automatic THEN "mail_auto_reply" ELSE "mail_reply"]]
  /\ inflight' = inflight \union {c}
  /\ known' = [known EXCEPT ![c] = marks]
  /\ UNCHANGED <<automatic, answers, reply, store, sentBy, told, garbled, bounds>>

\* mutant: a turn whose tool call failed is repeated
TurnRepeated(e) ==
  /\ turn[e] \in Calls /\ call[turn[e]].pc = "returned"
  /\ turn' = [turn EXCEPT ![e] =
       IF call[turn[e]].outcome \in {"unknown", "error"} THEN "new" ELSE "done"]
  /\ UNCHANGED <<server, call, store, history, bounds>>

\* A turn that returns counts as handled whatever its tool reported, also
\* when the host ended it while the tool ran.
TurnEnds(e) ==
  /\ turn[e] \in Calls
  /\ turn' = [turn EXCEPT ![e] = "done"]
  /\ UNCHANGED <<server, call, store, history, bounds>>

----------------------------------------------------------------------------
(* The server.                                                             *)

\* The owner changes the outbound mode of the mailbox.
FlipMode ==
  /\ flips < MaxFlips /\ flips' = flips + 1
  /\ automatic' = ~automatic
  /\ UNCHANGED <<answers, reply, inflight, turn, call, store, history, faults>>

\* A reply is sent, held back as a Draft, or turned down: by a rule, by the
\* limit of the chain, or because automatic sending is off now.
Policy(c) == IF call[c].tool = "mail_reply" THEN {"draft", "refused"}
             ELSE IF automatic THEN {"sent", "draft", "stopped", "refused"}
             ELSE {"refused"}

\* What a key has led to before is answered again and not done again.
ServerHandles(c) ==
  LET k == Key(c) IN
  /\ c \in inflight
  /\ inflight' = inflight \ {c}
  /\ IF answers[k] # "none"
     THEN reply' = [reply EXCEPT ![c] = answers[k]] /\ UNCHANGED <<answers, sentBy>>
     ELSE \E a \in Policy(c) :
            /\ reply' = [reply EXCEPT ![c] = a]
            /\ answers' = IF a \in {"sent", "draft"}
                          THEN [answers EXCEPT ![k] = a] ELSE answers
            /\ sentBy' = IF a = "sent" THEN sentBy \union {c} ELSE sentBy
  /\ UNCHANGED <<automatic, turn, call, store, told, known, garbled, bounds>>

----------------------------------------------------------------------------
(* The answer.                                                             *)

Outcome == [sent |-> "accepted", stopped |-> "auto_reply_stopped",
            refused |-> "not-sent"]

\* A Draft is notified before the tool returns, anything else is its outcome.
Answered(c) ==
  /\ call[c].pc = "request" /\ reply[c] # "none"
  /\ IF reply[c] = "draft" THEN Goto(c, "check") ELSE Return(c, Outcome[reply[c]])
  /\ UNCHANGED <<server, turn, store, history, bounds>>

\* The request never leaves: no runtime of the account, or an abort before.
NeverSent(c) ==
  /\ call[c].pc = "request" /\ c \in inflight
  /\ inflight' = inflight \ {c}
  /\ Return(c, "not-sent")
  /\ UNCHANGED <<automatic, answers, reply, turn, store, history, bounds>>

\* No answer in JSON: a timeout, an abort, a broken response; or a 5xx.  The
\* server may have handled the request before, or handle it after.
Fails(c, outcomes) ==
  /\ call[c].pc = "request"
  /\ \E o \in outcomes : Return(c, o)
  /\ UNCHANGED <<server, turn, store, history, bounds>>

\* mutant: a write that failed in transport is taken for not sent
FailsNotSent(c) == Fails(c, {"not-sent", "unknown"})

RequestFails(c) ==
  Fails(c, IF call[c].tool = "mail_reply" THEN {"not-sent", "unknown"}
           ELSE {"unknown"})

\* A JSON object that is no answer to the write: a 408, a 202 with a field
\* missing.  Its error takes the default outcome, whatever the server did.
AnswerGarbled(c) ==
  /\ call[c].pc = "request"
  /\ Return(c, "not-sent")
  /\ garbled' = garbled \union {c}
  /\ UNCHANGED <<server, turn, store, sentBy, told, known, bounds>>

----------------------------------------------------------------------------
(* notifyReplyDraft.                                                       *)

\* notificationDelivered, after the mutations queued before it
CheckNotice(c) ==
  /\ call[c].pc = "check" /\ marking = None
  /\ IF Key(c) \in marks THEN Return(c, "draft") ELSE Goto(c, "tell")
  /\ UNCHANGED <<server, turn, store, history, bounds>>

TellOwner(c) ==
  /\ call[c].pc = "tell"
  /\ told' = told \union {c}
  /\ Goto(c, "mark")
  /\ UNCHANGED <<server, turn, store, sentBy, known, garbled, bounds>>

\* #mutate: load when its turn in the queue has come
LoadMarks(c) ==
  /\ call[c].pc = "mark"
  /\ marking' = c
  /\ loaded' = [loaded EXCEPT ![c] = marks]
  /\ Goto(c, "save")
  /\ UNCHANGED <<server, turn, marks, history, bounds>>

\* mutant: mutations do not wait for one another
MarkAtOnce(c) == LoadMarks(c)

MarkNotice(c) == marking = None /\ LoadMarks(c)

SaveMarks(c) ==
  /\ call[c].pc = "save"
  /\ marks' = loaded[c] \union {Key(c)}
  /\ marking' = None
  /\ loaded' = [loaded EXCEPT ![c] = {}]
  /\ Return(c, "draft")
  /\ UNCHANGED <<server, turn, history, bounds>>

\* No owner session, no adapter, or a message, a read or a write that fails:
\* the tool reports an error although the Draft is saved.
NoticeFails(c) ==
  /\ call[c].pc \in {"check", "tell", "mark", "save"}
  /\ marking' = IF marking = c THEN None ELSE marking
  /\ loaded' = [loaded EXCEPT ![c] = {}]
  /\ Return(c, "error")
  /\ UNCHANGED <<server, turn, marks, history, bounds>>

----------------------------------------------------------------------------
(* What goes wrong.                                                        *)

Fault == faults < MaxFaults /\ faults' = faults + 1

\* The loop is replaced or stopped, or the turn times out with an error: the
\* mail will be dispatched again, the tool call goes on.
CutTurn(e) ==
  /\ turn[e] \in Calls
  /\ Fault
  /\ turn' = [turn EXCEPT ![e] = "new"]
  /\ UNCHANGED <<server, call, store, history, flips>>

\* The process ends; requests that have left it may still be handled.
Crash ==
  /\ Fault
  /\ turn' = [e \in Emails |-> IF turn[e] \in Calls THEN "new" ELSE turn[e]]
  /\ call' = [c \in Calls |->
       IF call[c].pc \in {"idle", "returned"} THEN call[c]
       ELSE [call[c] EXCEPT !.pc = "returned", !.outcome = "error"]]
  /\ marking' = None /\ loaded' = [c \in Calls |-> {}]
  /\ UNCHANGED <<server, marks, history, flips>>

----------------------------------------------------------------------------
Init ==
  /\ automatic \in BOOLEAN
  /\ answers = [k \in Keys |-> "none"]
  /\ reply = [c \in Calls |-> "none"] /\ inflight = {}
  /\ turn = [e \in Emails |-> "new"]
  /\ call = [c \in Calls |-> [pc |-> "idle", email |-> None, outcome |-> "none",
                              tool |-> "none"]]
  /\ marks = {} /\ marking = None /\ loaded = [c \in Calls |-> {}]
  /\ sentBy = {} /\ told = {} /\ known = [c \in Calls |-> {}]
  /\ garbled = {}
  /\ flips = 0 /\ faults = 0

Step(c) == \/ ServerHandles(c) \/ Answered(c) \/ NeverSent(c) \/ RequestFails(c)
           \/ AnswerGarbled(c) \/ CheckNotice(c) \/ TellOwner(c) \/ MarkNotice(c)
           \/ SaveMarks(c) \/ NoticeFails(c)

Next == \/ \E e \in Emails : \/ \E c \in Calls : Dispatch(e, c)
                             \/ TurnEnds(e) \/ CutTurn(e)
        \/ \E c \in Calls : Step(c)
        \/ FlipMode \/ Crash

Spec == Init /\ [][Next]_vars

----------------------------------------------------------------------------
Outcomes == {"none", "accepted", "draft", "auto_reply_stopped", "not-sent",
             "unknown", "error"}

CallStates ==
  [pc : {"idle", "request", "check", "tell", "mark", "save", "returned"},
   email : Emails \union {None}, outcome : Outcomes,
   tool : {"none", "mail_reply", "mail_auto_reply"}]

TypeOK ==
  /\ automatic \in BOOLEAN
  /\ answers \in [Keys -> {"none", "sent", "draft"}]
  /\ reply \in [Calls -> {"none", "sent", "draft", "stopped", "refused"}]
  /\ inflight \in SUBSET Calls
  /\ turn \in [Emails -> Calls \union {"new", "done"}]
  /\ call \in [Calls -> CallStates]
  /\ marks \in SUBSET Keys
  /\ marking \in Calls \union {None}
  /\ loaded \in [Calls -> SUBSET Keys]
  /\ sentBy \in SUBSET Calls /\ told \in SUBSET Calls
  /\ known \in [Calls -> SUBSET Keys]
  /\ garbled \in SUBSET Calls
  /\ flips \in 0 .. MaxFlips /\ faults \in 0 .. MaxFaults

(* A mail is answered automatically at most once, however often it is       *)
(* dispatched, whichever answers are lost and however late the server gets  *)
(* to a request: all its automatic replies carry one idempotency key.       *)
OneAutoReply ==
  \A c, d \in sentBy : call[c].email = call[d].email => c = d

(* "Write timeouts have an unknown outcome" (README:110), and so has every  *)
(* write without an answer in JSON: a tool call that reports "not-sent" has *)
(* sent nothing and never will, however late the server gets to its         *)
(* request, unless it has got a JSON answer it cannot use (a 408, or a 202  *)
(* with a field missing), which it takes for "not-sent" whatever was done.  *)
NotSentIsTrue ==
  \A c \in sentBy \ garbled : call[c].outcome # "not-sent"

(* "Not retried automatically" (README:110): without a crash or a cut-off   *)
(* turn a mail leads to one reply or one Draft, and every fault to at most  *)
(* one more.                                                                *)
Effects(e) == {k \in {e} \union {c \in Calls : call[c].email = e} :
                 answers[k] # "none"}

EffectsBounded == \A e \in Emails : Cardinality(Effects(e)) <= 1 + faults

(* The owner is not told again of a Draft that had been recorded as told of *)
(* when the tool call began: no mark is lost to one saved at the same time. *)
NoRepeatedNotice ==
  [][\A c \in told' \ told : Key(c) \notin known[c]]_vars
=============================================================================
