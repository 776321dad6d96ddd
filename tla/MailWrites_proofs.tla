-------------------------- MODULE MailWrites_proofs --------------------------
(* Machine-checked safety of MailWrites for any number of mails, tool       *)
(* calls, mode changes and faults.                                          *)
EXTENDS MailWrites, FiniteSetTheorems, TLAPS

(* What a call is about is fixed when its turn begins; its request is       *)
(* answered only once, by the server's handling of it.                      *)
CallInv ==
  \A c \in Calls :
    /\ c \in inflight => reply[c] = "none"
    /\ c \in inflight \union sentBy \/ reply[c] # "none" => call[c].pc # "idle"
    /\ call[c].pc # "idle" => /\ call[c].email \in Emails
                              /\ call[c].tool # "none"
    /\ call[c].pc # "idle" /\ call[c].outcome = "not-sent" =>
         \/ call[c].tool = "mail_reply"
         \/ c \notin inflight
         \/ c \in garbled

(* A sent reply belongs to an automatic call, is recorded under its mail's  *)
(* key, and is what the server answered.                                    *)
SentInv ==
  \A c \in sentBy : /\ call[c].tool = "mail_auto_reply"
                    /\ answers[call[c].email] = "sent"
                    /\ reply[c] = "sent"

----------------------------------------------------------------------------
(* What moving a call on and returning from it change and leave alone.      *)
LEMMA GotoChanges ==
  ASSUME call \in [Calls -> CallStates], NEW c \in Calls,
         NEW pc \in {"request", "check", "tell", "mark", "save"}, Goto(c, pc)
  PROVE  /\ call' \in [Calls -> CallStates]
         /\ call'[c].pc = pc
         /\ \A d \in Calls \ {c} : call'[d] = call[d]
         /\ \A d \in Calls : /\ call'[d].email = call[d].email
                             /\ call'[d].tool = call[d].tool
                             /\ call'[d].outcome = call[d].outcome
<1>1. call' = [d \in Calls |-> IF d = c THEN [call[d] EXCEPT !.pc = pc] ELSE call[d]]
  BY DEF Goto
<1>2. \A d \in Calls : call[d] \in CallStates
  OBVIOUS
<1> QED
  BY <1>1, <1>2 DEF CallStates

LEMMA ReturnChanges ==
  ASSUME call \in [Calls -> CallStates], NEW c \in Calls,
         NEW o \in Outcomes, Return(c, o)
  PROVE  /\ call' \in [Calls -> CallStates]
         /\ call'[c].pc = "returned" /\ call'[c].outcome = o
         /\ \A d \in Calls \ {c} : call'[d] = call[d]
         /\ \A d \in Calls : /\ call'[d].email = call[d].email
                             /\ call'[d].tool = call[d].tool
<1>1. call' = [d \in Calls |->
        IF d = c THEN [call[d] EXCEPT !.pc = "returned", !.outcome = o] ELSE call[d]]
  BY DEF Return
<1>2. \A d \in Calls : call[d] \in CallStates
  OBVIOUS
<1> QED
  BY <1>1, <1>2 DEF CallStates

(* A call that has begun has a key.                                         *)
LEMMA KeyType ==
  ASSUME TypeOK, CallInv, NEW c \in Calls, call[c].pc # "idle"
  PROVE  Key(c) \in Keys
BY DEF CallInv, Key, Keys

(* What a call's own steps leave alone, the notes aside: they never open a  *)
(* request, and report "not-sent" only where nothing was sent or the answer *)
(* was garbled.                                                             *)
Moves(c) ==
  /\ call' \in [Calls -> CallStates]
  /\ call[c].pc # "idle" /\ call'[c].pc # "idle"
  /\ \A d \in Calls \ {c} : call'[d] = call[d]
  /\ \A d \in Calls : call'[d].email = call[d].email /\ call'[d].tool = call[d].tool
  /\ call'[c].outcome = "not-sent" =>
       \/ call[c].outcome = "not-sent"
       \/ c \in garbled'
       \/ c \notin sentBy /\ (call[c].tool = "mail_reply" \/ c \notin inflight')
  /\ inflight' \subseteq inflight
  /\ garbled \subseteq garbled'
  /\ UNCHANGED <<answers, reply, sentBy>>

Own(c) == \/ Answered(c) \/ NeverSent(c) \/ RequestFails(c)
          \/ AnswerGarbled(c) \/ CheckNotice(c) \/ TellOwner(c) \/ MarkNotice(c) \/ SaveMarks(c) \/ NoticeFails(c)

LEMMA OwnMoves ==
  ASSUME TypeOK, CallInv, SentInv, NEW c \in Calls, Own(c)
  PROVE  Moves(c)
<1> DEFINE Frame == /\ inflight' \subseteq inflight /\ garbled \subseteq garbled'
                    /\ UNCHANGED <<answers, reply, sentBy>>
<1>1. call \in [Calls -> CallStates]
  BY DEF TypeOK
<1>2. ASSUME NEW pc \in {"request", "check", "tell", "mark", "save"}, Goto(c, pc),
             call[c].pc # "idle", Frame
      PROVE  Moves(c)
  BY <1>1, <1>2, GotoChanges DEF Moves
<1>3. ASSUME NEW o \in Outcomes, Return(c, o), call[c].pc # "idle", Frame,
             o = "not-sent" => \/ c \in garbled'
                               \/ /\ c \notin sentBy
                                  /\ call[c].tool = "mail_reply" \/ c \notin inflight'
      PROVE  Moves(c)
  BY <1>1, <1>3, ReturnChanges DEF Moves
<1> HIDE DEF Frame
<1>4. CASE Answered(c)
  <2>1. Frame /\ call[c].pc # "idle" /\ c \notin inflight /\ inflight' = inflight
    BY <1>4 DEF Answered, Frame, server, history, CallInv
  <2>2. CASE reply[c] = "draft"
    BY <2>1, <2>2, <1>4, <1>2 DEF Answered
  <2>3. CASE reply[c] # "draft"
    <3>1. Return(c, Outcome[reply[c]]) /\ reply[c] \in {"sent", "stopped", "refused"}
      BY <2>3, <1>4 DEF Answered, TypeOK
    <3>2. Outcome[reply[c]] \in Outcomes
      BY <3>1 DEF Outcome, Outcomes
    <3>3. Outcome[reply[c]] = "not-sent" => c \notin sentBy
      BY <3>1 DEF Outcome, SentInv
    <3> QED BY <2>1, <3>1, <3>2, <3>3, <1>3
  <2> QED BY <2>2, <2>3
<1>5. CASE NeverSent(c)
  <2>1. Frame /\ call[c].pc # "idle" /\ c \notin inflight'
    BY <1>5 DEF NeverSent, Frame, history
  <2>2. c \notin sentBy
    BY <1>5 DEF NeverSent, CallInv, SentInv
  <2> QED BY <2>1, <2>2, <1>5, <1>3 DEF NeverSent, Outcomes
<1>6. CASE RequestFails(c)
  <2>1. Frame /\ call[c].pc # "idle"
    BY <1>6 DEF RequestFails, Fails, Frame, server, history
  <2>2. PICK o \in {"not-sent", "unknown"} :
          /\ Return(c, o)
          /\ o = "not-sent" => call[c].tool = "mail_reply"
    BY <1>6 DEF RequestFails, Fails
  <2>3. call[c].tool = "mail_reply" => c \notin sentBy
    BY DEF SentInv
  <2> QED BY <2>1, <2>2, <2>3, <1>3 DEF Outcomes
<1>7. CASE CheckNotice(c)
  <2>1. Frame /\ call[c].pc # "idle" /\ (Return(c, "draft") \/ Goto(c, "tell"))
    BY <1>7 DEF CheckNotice, Frame, server, history
  <2> QED BY <2>1, <1>2, <1>3 DEF Outcomes
<1>8. CASE TellOwner(c)
  <2>1. Frame /\ call[c].pc # "idle" /\ Goto(c, "mark")
    BY <1>8 DEF TellOwner, Frame, server
  <2> QED BY <2>1, <1>2
<1>9. CASE MarkNotice(c)
  <2>1. Frame /\ call[c].pc # "idle" /\ Goto(c, "save")
    BY <1>9 DEF MarkNotice, LoadMarks, Frame, server, history
  <2> QED BY <2>1, <1>2
<1>10. CASE SaveMarks(c)
  <2>1. Frame /\ call[c].pc # "idle" /\ Return(c, "draft")
    BY <1>10 DEF SaveMarks, Frame, server, history
  <2> QED BY <2>1, <1>3 DEF Outcomes
<1>11. CASE NoticeFails(c)
  <2>1. Frame /\ call[c].pc # "idle" /\ Return(c, "error")
    BY <1>11 DEF NoticeFails, Frame, server, history
  <2> QED BY <2>1, <1>3 DEF Outcomes
<1>12. CASE AnswerGarbled(c)
  <2>1. Frame /\ call[c].pc # "idle" /\ Return(c, "not-sent") /\ c \in garbled'
    BY <1>12 DEF AnswerGarbled, Frame, server
  <2> QED BY <2>1, <1>3 DEF Outcomes
<1> QED
  BY <1>4, <1>5, <1>6, <1>7, <1>8, <1>9, <1>10, <1>11, <1>12 DEF Own

(* What dispatching a mail does to the calls.                               *)
LEMMA DispatchChanges ==
  ASSUME TypeOK, NEW e \in Emails, NEW c \in Calls, Dispatch(e, c)
  PROVE  /\ call' \in [Calls -> CallStates]
         /\ call[c].pc = "idle"
         /\ call'[c].pc = "request" /\ call'[c].email = e
         /\ call'[c].tool # "none" /\ call'[c].outcome = "none"
         /\ \A d \in Calls \ {c} : call'[d] = call[d]
BY DEF Dispatch, TypeOK, CallStates, Outcomes

(* What the end of the process does to the calls.                           *)
LEMMA CrashChanges ==
  ASSUME call \in [Calls -> CallStates], Crash
  PROVE  /\ call' \in [Calls -> CallStates]
         /\ \A c \in Calls :
              /\ call'[c].email = call[c].email /\ call'[c].tool = call[c].tool
              /\ call'[c].pc = "idle" <=> call[c].pc = "idle"
              /\ call'[c].outcome \in {call[c].outcome, "error"}
BY DEF Crash, CallStates, Outcomes

LEMMA TypeStep == TypeOK /\ CallInv /\ SentInv /\ [Next]_vars => TypeOK'
<1> SUFFICES ASSUME TypeOK, CallInv, SentInv, [Next]_vars PROVE TypeOK'
  OBVIOUS
<1> DEFINE Rest == /\ automatic \in BOOLEAN
                   /\ answers \in [Keys -> {"none", "sent", "draft"}]
                   /\ reply \in [Calls -> {"none", "sent", "draft", "stopped", "refused"}]
                   /\ inflight \in SUBSET Calls
                   /\ turn \in [Emails -> Calls \union {"new", "done"}]
                   /\ marks \in SUBSET Keys
                   /\ marking \in Calls \union {None}
                   /\ loaded \in [Calls -> SUBSET Keys]
                   /\ sentBy \in SUBSET Calls /\ told \in SUBSET Calls
                   /\ known \in [Calls -> SUBSET Keys]
                   /\ garbled \in SUBSET Calls
                   /\ flips \in 0 .. MaxFlips /\ faults \in 0 .. MaxFaults
<1>1. /\ Rest /\ call \in [Calls -> CallStates]
      /\ Rest' /\ call' \in [Calls -> CallStates] => TypeOK'
  BY DEF TypeOK
<1> USE WritesAssumption
<1>2. ASSUME NEW e \in Emails, NEW c \in Calls, Dispatch(e, c) PROVE TypeOK'
  <2>1. Rest'
    BY <1>1, <1>2 DEF Dispatch, store, bounds
  <2> QED BY <2>1, <1>1, <1>2, DispatchChanges
<1>3. ASSUME NEW e \in Emails, TurnEnds(e) \/ CutTurn(e) PROVE TypeOK'
  BY <1>1, <1>3 DEF TurnEnds, CutTurn, Fault, server, store, history, bounds
<1>4. CASE FlipMode
  BY <1>1, <1>4 DEF FlipMode, store, history
<1>5. CASE Crash
  <2>1. Rest'
    <3>1. faults' \in 0 .. MaxFaults /\ marking' = None
      <4>1. faults < MaxFaults /\ faults' = faults + 1 /\ marking' = None
        BY <1>5 DEF Crash, Fault
      <4>2. faults \in 0 .. MaxFaults
        BY DEF TypeOK
      <4> QED BY <4>1, <4>2
    <3>2. turn' \in [Emails -> Calls \union {"new", "done"}]
      BY <1>1, <1>5 DEF Crash
    <3>3. loaded' \in [Calls -> SUBSET Keys]
      BY <1>5 DEF Crash
    <3>4. UNCHANGED <<automatic, answers, reply, inflight, marks, sentBy, told, known,
                     garbled, flips>>
      BY <1>5 DEF Crash, server, history
    <3> QED BY <1>1, <3>1, <3>2, <3>3, <3>4
  <2> QED BY <2>1, <1>1, <1>5, CrashChanges
<1>6. ASSUME NEW c \in Calls, ServerHandles(c) PROVE TypeOK'
  <2>1. Key(c) \in Keys
    BY <1>6, KeyType DEF ServerHandles, CallInv
  <2>2. Policy(c) \subseteq {"sent", "draft", "stopped", "refused"}
    BY DEF Policy
  <2> QED BY <1>1, <1>6, <2>1, <2>2 DEF ServerHandles, store, bounds
<1>7. ASSUME NEW c \in Calls, Own(c) PROVE TypeOK'
  <2>1. call' \in [Calls -> CallStates] /\ call[c].pc # "idle"
    BY <1>7, OwnMoves DEF Moves
  <2>2. Key(c) \in Keys
    BY <2>1, KeyType
  <2>3. Rest'
    BY <1>1, <1>7, <2>2
       DEF Own, Answered, NeverSent, RequestFails, Fails, AnswerGarbled, CheckNotice,
           TellOwner, MarkNotice, LoadMarks, SaveMarks, NoticeFails, server, store, history, bounds
  <2> QED BY <1>1, <2>1, <2>3
<1>8. CASE UNCHANGED vars
  BY <1>1, <1>8 DEF vars, server, store, history, bounds
<1> QED
  BY <1>2, <1>3, <1>4, <1>5, <1>6, <1>7, <1>8 DEF Next, Step, Own

(* The invariant about calls and their replies is kept by every step.       *)
SafeInv == CallInv /\ SentInv /\ OneAutoReply /\ NotSentIsTrue

LEMMA SafeStep == TypeOK /\ SafeInv /\ [Next]_vars => SafeInv'
<1> SUFFICES ASSUME TypeOK, CallInv, SentInv, OneAutoReply, NotSentIsTrue, [Next]_vars
             PROVE  SafeInv'
  BY DEF SafeInv
<1> USE DEF SafeInv, CallInv, SentInv, OneAutoReply, NotSentIsTrue
<1>1. ASSUME NEW e \in Emails, NEW c \in Calls, Dispatch(e, c) PROVE SafeInv'
  <2>1. /\ c \notin inflight /\ c \notin sentBy /\ reply[c] = "none"
        /\ inflight' = inflight \union {c}
        /\ UNCHANGED <<answers, reply, sentBy, garbled>>
    BY <1>1 DEF Dispatch
  <2>2. /\ call'[c].pc = "request" /\ call'[c].email = e
        /\ call'[c].tool # "none" /\ call'[c].outcome = "none"
        /\ \A d \in Calls \ {c} : call'[d] = call[d]
    BY <1>1, DispatchChanges
  <2>3. sentBy \subseteq Calls \ {c}
    BY <2>1 DEF TypeOK
  <2>4. CallInv'
    BY <2>1, <2>2
  <2>5. SentInv' /\ OneAutoReply' /\ NotSentIsTrue'
    BY <2>1, <2>2, <2>3
  <2> QED BY <2>4, <2>5
<1>2. ASSUME NEW e \in Emails, TurnEnds(e) \/ CutTurn(e) PROVE SafeInv'
  BY <1>2 DEF TurnEnds, CutTurn, server, history
<1>3. CASE FlipMode
  BY <1>3 DEF FlipMode, history
<1>4. CASE Crash
  <2>1. /\ UNCHANGED <<answers, reply, inflight, sentBy, garbled>>
        /\ sentBy \subseteq Calls
    BY <1>4 DEF Crash, server, history, TypeOK
  <2>2. \A c \in Calls :
          /\ call'[c].email = call[c].email /\ call'[c].tool = call[c].tool
          /\ call'[c].pc = "idle" <=> call[c].pc = "idle"
          /\ call'[c].outcome \in {call[c].outcome, "error"}
    BY <1>4, CrashChanges DEF TypeOK
  <2>3. CallInv'
    <3> SUFFICES ASSUME NEW c \in Calls
                 PROVE  /\ c \in inflight => reply[c] = "none"
                        /\ c \in inflight \union sentBy \/ reply[c] # "none" =>
                             call'[c].pc # "idle"
                        /\ call'[c].pc # "idle" => /\ call'[c].email \in Emails
                                                   /\ call'[c].tool # "none"
                        /\ call'[c].pc # "idle" /\ call'[c].outcome = "not-sent" =>
                             \/ call'[c].tool = "mail_reply" \/ c \notin inflight
                             \/ c \in garbled
      BY <2>1
    <3> QED BY <2>2
  <2>4. SentInv' /\ OneAutoReply' /\ NotSentIsTrue'
    BY <2>1, <2>2
  <2> QED BY <2>3, <2>4
<1>5. ASSUME NEW c \in Calls, ServerHandles(c) PROVE SafeInv'
  <2>1. /\ c \in inflight /\ inflight' = inflight \ {c}
        /\ call' = call /\ reply[c] = "none" /\ c \notin sentBy
        /\ call[c].pc # "idle" /\ call[c].email \in Emails
        /\ sentBy \subseteq Calls /\ garbled' = garbled
    BY <1>5 DEF ServerHandles, TypeOK
  <2>2. /\ \A d \in Calls \ {c} : reply'[d] = reply[d]
        /\ sentBy' \subseteq sentBy \union {c}
    BY <1>5 DEF ServerHandles, TypeOK
  <2>3. \A k \in Keys : answers[k] = "sent" => answers'[k] = "sent"
    BY <1>5 DEF ServerHandles, TypeOK
  <2>4. c \in sentBy' => /\ call[c].tool = "mail_auto_reply"
                         /\ answers[call[c].email] = "none"
                         /\ answers'[call[c].email] = "sent"
                         /\ reply'[c] = "sent"
    <3> SUFFICES ASSUME c \in sentBy'
                 PROVE  /\ call[c].tool = "mail_auto_reply"
                        /\ answers[call[c].email] = "none"
                        /\ answers'[call[c].email] = "sent"
                        /\ reply'[c] = "sent"
      OBVIOUS
    <3>1. answers[Key(c)] = "none"
      BY <1>5, <2>1 DEF ServerHandles
    <3>2. /\ "sent" \in Policy(c)
          /\ reply' = [reply EXCEPT ![c] = "sent"]
          /\ answers' = [answers EXCEPT ![Key(c)] = "sent"]
      BY <1>5, <2>1, <3>1 DEF ServerHandles
    <3>3. call[c].tool = "mail_auto_reply" \/ call[c].tool = "none"
      BY <3>2, <2>1 DEF Policy, TypeOK, CallStates
    <3>4. call[c].tool = "mail_auto_reply"
      BY <3>3, <2>1
    <3>5. Key(c) = call[c].email /\ Key(c) \in Keys
      BY <3>4, <2>1 DEF Key, Keys
    <3> QED BY <3>1, <3>2, <3>4, <3>5 DEF TypeOK
  <2>5. CallInv'
    BY <2>1, <2>2
  <2>6. SentInv'
    BY <2>1, <2>2, <2>3, <2>4 DEF Keys
  <2>7. OneAutoReply'
    BY <2>1, <2>2, <2>4
  <2>8. NotSentIsTrue'
    BY <2>1, <2>2, <2>4
  <2> QED BY <2>5, <2>6, <2>7, <2>8
<1>6. ASSUME NEW c \in Calls, Own(c) PROVE SafeInv'
  <2>1. Moves(c) /\ sentBy \subseteq Calls
    BY <1>6, OwnMoves DEF TypeOK
  <2>2. CallInv'
    BY <2>1 DEF Moves
  <2>3. SentInv' /\ OneAutoReply'
    BY <2>1 DEF Moves
  <2>4. NotSentIsTrue'
    BY <2>1 DEF Moves
  <2> QED BY <2>2, <2>3, <2>4
<1>7. CASE UNCHANGED vars
  BY <1>7 DEF vars, server, history
<1> QED
  BY <1>1, <1>2, <1>3, <1>4, <1>5, <1>6, <1>7 DEF Next, Step, Own

LEMMA InitEstablishes == Init => TypeOK /\ SafeInv
<1> SUFFICES ASSUME Init PROVE TypeOK /\ SafeInv
  OBVIOUS
<1>1. /\ call \in [Calls -> CallStates]
      /\ \A c \in Calls : call[c].pc = "idle" /\ call[c].outcome = "none"
  BY DEF Init, CallStates, Outcomes
<1>2. 0 \in 0 .. MaxFlips /\ 0 \in 0 .. MaxFaults
  BY WritesAssumption
<1>3. TypeOK
  BY <1>1, <1>2 DEF Init, TypeOK
<1>4. SafeInv
  BY <1>1 DEF Init, SafeInv, CallInv, SentInv, OneAutoReply, NotSentIsTrue
<1> QED
  BY <1>3, <1>4

LEMMA Inductive == Spec => [](TypeOK /\ SafeInv)
<1>1. TypeOK /\ SafeInv /\ [Next]_vars => (TypeOK /\ SafeInv)'
  BY TypeStep, SafeStep DEF SafeInv
<1> QED
  BY <1>1, InitEstablishes, PTL DEF Spec

----------------------------------------------------------------------------
(* How many effects a mail has.                                             *)

CallsFor(e) == {c \in Calls : call[c].email = e}

\* The dispatches a mail has had, and the one it is due, never outnumber the
\* faults by more than one.
Due(e) == IF turn[e] = "new" THEN 1 ELSE 0

BudgetInv ==
  \A e \in Emails : /\ IsFiniteSet(CallsFor(e))
                    /\ Cardinality(CallsFor(e)) + Due(e) <= 1 + faults

\* A call that has not begun is about no mail, and what a key has led to is
\* the work of a call that has.
KeyInv ==
  /\ \A c \in Calls : call[c].pc = "idle" => call[c].email = None
  /\ \A k \in Keys : answers[k] # "none" =>
       \E c \in Calls : call[c].pc # "idle" /\ Key(c) = k

EffectInv == BudgetInv /\ KeyInv

(* A step that leaves the calls' mails alone keeps the budget when it makes *)
(* no dispatch due, or is a fault.                                          *)
LEMMA BudgetKept ==
  ASSUME TypeOK, BudgetInv, \A c \in Calls : call'[c].email = call[c].email,
         \/ faults' = faults /\ \A e \in Emails : Due(e)' <= Due(e)
         \/ faults' = faults + 1
  PROVE  BudgetInv'
<1> SUFFICES ASSUME NEW e \in Emails PROVE BudgetInv!(e)'
  BY DEF BudgetInv
<1>1. CallsFor(e)' = CallsFor(e)
  BY DEF CallsFor
<1>2. Due(e) \in {0, 1} /\ Due(e)' \in {0, 1} /\ faults \in Nat
  BY DEF Due, TypeOK
<1>3. IsFiniteSet(CallsFor(e)) /\ Cardinality(CallsFor(e)) + Due(e) <= 1 + faults
  BY DEF BudgetInv
<1>4. Cardinality(CallsFor(e)) \in Nat
  BY <1>3, FS_CardinalityType
<1> QED
  BY <1>1, <1>2, <1>3, <1>4

(* Calls that have begun keep their keys.                                   *)
LEMMA KeysKept ==
  ASSUME KeyInv, UNCHANGED answers,
         \A c \in Calls : /\ call[c].pc # "idle" => call'[c].pc # "idle"
                          /\ call[c].pc = "idle" /\ call'[c].pc = "idle" =>
                               call'[c] = call[c]
                          /\ call[c].pc = "idle" \/ call'[c].email = call[c].email
                          /\ call[c].pc = "idle" \/ call'[c].tool = call[c].tool
  PROVE  KeyInv'
<1>1. \A c \in Calls : call[c].pc # "idle" => Key(c)' = Key(c)
  BY DEF Key
<1> QED
  BY <1>1 DEF KeyInv

LEMMA EffectStep == TypeOK /\ SafeInv /\ EffectInv /\ [Next]_vars => EffectInv'
<1> SUFFICES ASSUME TypeOK, CallInv, SentInv, BudgetInv, KeyInv, [Next]_vars
             PROVE  EffectInv'
  BY DEF SafeInv, EffectInv
<1> USE DEF EffectInv
<1>1. ASSUME NEW e \in Emails, NEW c \in Calls, Dispatch(e, c) PROVE EffectInv'
  <2>1. /\ turn[e] = "new" /\ turn' = [turn EXCEPT ![e] = c]
        /\ UNCHANGED <<answers, faults>>
    BY <1>1 DEF Dispatch, bounds
  <2>2. /\ call[c].pc = "idle" /\ call'[c].pc = "request" /\ call'[c].email = e
        /\ \A d \in Calls \ {c} : call'[d] = call[d]
    BY <1>1, DispatchChanges
  <2>3. KeyInv'
    BY <2>1, <2>2, KeysKept
  <2>4. c \notin CallsFor(e) /\ CallsFor(e)' = CallsFor(e) \union {c}
    BY <2>2, WritesAssumption DEF CallsFor, KeyInv
  <2>5. Due(e) = 1 /\ Due(e)' = 0
    BY <2>1, WritesAssumption DEF Due, TypeOK
  <2>6. \A f \in Emails \ {e} : CallsFor(f)' = CallsFor(f) /\ Due(f)' = Due(f)
    BY <2>1, <2>2, WritesAssumption DEF CallsFor, Due, KeyInv, TypeOK
  <2>7. BudgetInv!(e)'
    <3>1. IsFiniteSet(CallsFor(e)) /\ Cardinality(CallsFor(e)) \in Nat
      BY FS_CardinalityType DEF BudgetInv
    <3>2. /\ IsFiniteSet(CallsFor(e) \union {c})
          /\ Cardinality(CallsFor(e) \union {c}) = Cardinality(CallsFor(e)) + 1
      BY <2>4, <3>1, FS_AddElement
    <3> QED
      BY <2>1, <2>4, <2>5, <3>1, <3>2 DEF BudgetInv
  <2>8. BudgetInv'
    BY <2>1, <2>6, <2>7 DEF BudgetInv
  <2> QED
    BY <2>3, <2>8
<1>2. ASSUME NEW e \in Emails, TurnEnds(e) PROVE EffectInv'
  <2>1. \A f \in Emails : Due(f)' <= Due(f)
    BY <1>2 DEF TurnEnds, Due, TypeOK
  <2> QED
    BY <1>2, <2>1, BudgetKept, KeysKept DEF TurnEnds, server, bounds
<1>3. ASSUME NEW e \in Emails, CutTurn(e) PROVE EffectInv'
  BY <1>3, BudgetKept, KeysKept DEF CutTurn, Fault, server
<1>4. CASE FlipMode
  BY <1>4, BudgetKept, KeysKept DEF FlipMode, Due
<1>5. CASE Crash
  <2>1. \A c \in Calls :
          /\ call'[c].email = call[c].email /\ call'[c].tool = call[c].tool
          /\ call[c].pc = "idle" => call'[c] = call[c]
          /\ call[c].pc # "idle" => call'[c].pc # "idle"
    BY <1>5 DEF Crash, TypeOK, CallStates
  <2>2. faults' = faults + 1 /\ UNCHANGED answers
    BY <1>5 DEF Crash, Fault, server
  <2> QED
    BY <2>1, <2>2, BudgetKept, KeysKept
<1>6. ASSUME NEW c \in Calls, ServerHandles(c) PROVE EffectInv'
  <2>1. UNCHANGED <<call, turn, faults>> /\ call[c].pc # "idle"
    BY <1>6 DEF ServerHandles, bounds, CallInv
  <2>2. \A k \in Keys : answers'[k] # "none" => answers[k] # "none" \/ k = Key(c)
    BY <1>6 DEF ServerHandles, TypeOK
  <2>3. KeyInv'
    BY <2>1, <2>2 DEF KeyInv, Key
  <2>4. BudgetInv'
    BY <2>1, BudgetKept DEF Due
  <2> QED
    BY <2>3, <2>4
<1>7. ASSUME NEW c \in Calls, Own(c) PROVE EffectInv'
  <2>1. Moves(c)
    BY <1>7, OwnMoves
  <2>2. UNCHANGED <<turn, faults>>
    BY <1>7 DEF Own, Answered, NeverSent, RequestFails, Fails, AnswerGarbled, CheckNotice,
                TellOwner, MarkNotice, LoadMarks, SaveMarks, NoticeFails, bounds
  <2>3. KeyInv'
    BY <2>1, KeysKept DEF Moves
  <2>4. BudgetInv'
    BY <2>1, <2>2, BudgetKept DEF Moves, Due
  <2> QED
    BY <2>3, <2>4
<1>8. CASE UNCHANGED vars
  BY <1>8, BudgetKept, KeysKept DEF vars, server, bounds, Due
<1> QED
  BY <1>1, <1>2, <1>3, <1>4, <1>5, <1>6, <1>7, <1>8 DEF Next, Step, Own

LEMMA EffectInit == Init => EffectInv
<1> SUFFICES ASSUME Init PROVE EffectInv
  OBVIOUS
<1>1. \A e \in Emails : CallsFor(e) = {} /\ Due(e) = 1
  BY WritesAssumption DEF Init, CallsFor, Due
<1>2. BudgetInv
  <2>1. faults = 0 /\ IsFiniteSet({}) /\ Cardinality({}) = 0
    BY FS_EmptySet DEF Init
  <2> QED
    BY <1>1, <2>1 DEF BudgetInv
<1>3. KeyInv
  BY DEF Init, KeyInv
<1> QED
  BY <1>2, <1>3 DEF EffectInv

(* Each effect of a mail is that of a call of its own.                      *)
LEMMA EffectsOfCalls ==
  ASSUME TypeOK, CallInv, EffectInv
  PROVE  EffectsBounded
<1> SUFFICES ASSUME NEW e \in Emails PROVE Cardinality(Effects(e)) <= 1 + faults
  BY DEF EffectsBounded
<1> DEFINE Cs == CallsFor(e)
           Ks == {Key(c) : c \in Cs}
<1>1. /\ IsFiniteSet(Cs) /\ Cardinality(Cs) \in Nat
      /\ Cardinality(Cs) + Due(e) <= 1 + faults
  BY FS_CardinalityType DEF EffectInv, BudgetInv
<1>2. Effects(e) \subseteq Ks
  <2> SUFFICES ASSUME NEW k \in {e} \union CallsFor(e), answers[k] # "none"
               PROVE  \E c \in Cs : k = Key(c)
    BY DEF Effects, CallsFor
  <2>1. PICK c \in Calls : call[c].pc # "idle" /\ Key(c) = k
    BY DEF EffectInv, KeyInv, Keys, CallsFor
  <2>2. call[c].email \in Emails
    BY <2>1 DEF CallInv
  <2>3. CASE call[c].tool = "mail_auto_reply"
    BY <2>1, <2>2, <2>3, WritesAssumption DEF Key, CallsFor
  <2>4. CASE call[c].tool # "mail_auto_reply"
    BY <2>1, <2>4, WritesAssumption DEF Key, CallsFor
  <2> QED
    BY <2>3, <2>4
<1>3. IsFiniteSet(Ks) /\ Cardinality(Ks) <= Cardinality(Cs)
  <2> DEFINE f == [c \in Cs |-> Key(c)]
  <2>1. f \in Surjection(Cs, Ks)
    BY DEF Surjection
  <2> HIDE DEF Cs, Ks, f
  <2> QED
    BY <1>1, <2>1, FS_Surjection
<1>4. Cardinality(Effects(e)) <= Cardinality(Ks)
  BY <1>2, <1>3, FS_Subset
<1>5. /\ Cardinality(Effects(e)) \in Nat /\ Cardinality(Ks) \in Nat
      /\ Due(e) \in {0, 1} /\ faults \in Nat
  BY <1>2, <1>3, FS_Subset, FS_CardinalityType DEF Due, TypeOK
<1> QED
  BY <1>1, <1>3, <1>4, <1>5

----------------------------------------------------------------------------
(* The notes about Drafts.                                                  *)

\* The call that saves is the only one and has read the marks in force; the
\* marks a call began with are never lost; a call that is about to tell the
\* owner did not find its mark among them.
NoticeInv ==
  \A c \in Calls :
    /\ call[c].pc = "save" => marking = c /\ loaded[c] = marks
    /\ call[c].pc # "idle" => known[c] \subseteq marks
    /\ call[c].pc = "tell" => Key(c) \notin known[c]

(* A step that leaves the store alone and brings no call to tell or save.   *)
LEMMA NoticeKept ==
  ASSUME NoticeInv, UNCHANGED <<marks, known>>,
         \A c \in Calls :
           \/ call'[c].pc \notin {"idle", "tell", "save"} /\ call[c].pc # "idle"
           \/ /\ call'[c] = call[c]
              /\ call[c].pc = "save" => marking' = marking /\ loaded' = loaded
  PROVE  NoticeInv'
<1> SUFFICES ASSUME NEW c \in Calls PROVE NoticeInv!(c)'
  BY DEF NoticeInv
<1>1. NoticeInv!(c)
  BY DEF NoticeInv
<1>2. CASE call'[c] = call[c] /\ (call[c].pc = "save" => marking' = marking /\ loaded' = loaded)
  BY <1>1, <1>2 DEF Key
<1>3. CASE call'[c].pc \notin {"idle", "tell", "save"} /\ call[c].pc # "idle"
  BY <1>1, <1>3
<1> QED
  BY <1>2, <1>3

LEMMA NoticeStep == TypeOK /\ SafeInv /\ NoticeInv /\ [Next]_vars => NoticeInv'
<1> SUFFICES ASSUME TypeOK, CallInv, SentInv, NoticeInv, [Next]_vars
             PROVE  NoticeInv'
  BY DEF SafeInv
<1> USE WritesAssumption
<1>1. ASSUME NEW e \in Emails, NEW c \in Calls, Dispatch(e, c) PROVE NoticeInv'
  <2>1. /\ known' = [known EXCEPT ![c] = marks] /\ UNCHANGED store
        /\ call'[c].pc = "request" /\ \A d \in Calls \ {c} : call'[d] = call[d]
    BY <1>1, DispatchChanges DEF Dispatch
  <2> QED
    BY <2>1 DEF NoticeInv, Key, store, TypeOK
<1>2. ASSUME NEW e \in Emails, TurnEnds(e) \/ CutTurn(e) PROVE NoticeInv'
  BY <1>2, NoticeKept DEF TurnEnds, CutTurn, store, history
<1>3. CASE FlipMode
  BY <1>3, NoticeKept DEF FlipMode, store, history
<1>4. CASE Crash
  <2>1. \A c \in Calls : \/ call'[c].pc = "returned" /\ call[c].pc # "idle"
                         \/ call'[c] = call[c] /\ call[c].pc # "save"
    BY <1>4 DEF Crash, TypeOK, CallStates
  <2> QED
    BY <1>4, <2>1, NoticeKept DEF Crash, history
<1>5. ASSUME NEW c \in Calls, ServerHandles(c) PROVE NoticeInv'
  BY <1>5, NoticeKept DEF ServerHandles, store
<1>6. ASSUME NEW c \in Calls, Own(c) PROVE NoticeInv'
  <2>1. Moves(c)
    BY <1>6, OwnMoves
  <2>2. call \in [Calls -> CallStates]
    BY DEF TypeOK
  <2>3. ASSUME NEW o \in Outcomes, Return(c, o),
               call[c].pc # "idle", UNCHANGED <<marks, known>>,
               marking = c \/ UNCHANGED marking,
               \A d \in Calls \ {c} : loaded'[d] = loaded[d]
        PROVE  NoticeInv'
    <3>1. call'[c].pc = "returned"
      BY <2>2, <2>3, ReturnChanges
    <3> QED
      BY <2>1, <2>3, <3>1 DEF Moves, NoticeInv, Key
  <2>4. CASE Answered(c)
    <3>1. UNCHANGED <<store, known>> /\ call[c].pc = "request"
      BY <2>4 DEF Answered, history
    <3>2. call'[c].pc \in {"check", "returned"}
      <4>1. CASE reply[c] = "draft"
        BY <2>2, <2>4, <4>1, GotoChanges DEF Answered
      <4>2. CASE reply[c] # "draft"
        <5>1. Return(c, Outcome[reply[c]]) /\ reply[c] \in {"sent", "stopped", "refused"}
          BY <2>4, <4>2 DEF Answered, TypeOK
        <5>2. Outcome[reply[c]] \in Outcomes
          BY <5>1 DEF Outcome, Outcomes
        <5> QED
          BY <2>2, <5>1, <5>2, ReturnChanges
      <4> QED
        BY <4>1, <4>2
    <3> QED
      BY <2>1, <3>1, <3>2, NoticeKept DEF Moves, store
  <2>5. CASE NeverSent(c)
    BY <2>3, <2>5 DEF NeverSent, Outcomes, store, history
  <2>6. CASE RequestFails(c)
    <3>1. PICK o \in {"not-sent", "unknown"} : Return(c, o)
      BY <2>6 DEF RequestFails, Fails
    <3> QED
      BY <2>3, <2>6, <3>1 DEF RequestFails, Fails, Outcomes, store, history
  <2>7. CASE CheckNotice(c)
    <3>1. call[c].pc = "check" /\ UNCHANGED <<store, known>>
      BY <2>7 DEF CheckNotice, history
    <3>2. CASE Key(c) \in marks
      BY <2>3, <2>7, <3>1, <3>2 DEF CheckNotice, Outcomes, store
    <3>3. CASE Key(c) \notin marks
      <4>1. call'[c].pc = "tell" /\ Key(c)' = Key(c)
        BY <2>1, <2>2, <2>7, <3>3, GotoChanges DEF CheckNotice, Moves, Key
      <4> QED
        BY <2>1, <3>1, <3>3, <4>1 DEF Moves, NoticeInv, Key, store
    <3> QED
      BY <3>2, <3>3
  <2>8. CASE TellOwner(c)
    <3>1. call'[c].pc = "mark" /\ call[c].pc = "tell" /\ UNCHANGED <<store, known>>
      BY <2>2, <2>8, GotoChanges DEF TellOwner
    <3> QED
      BY <2>1, <3>1, NoticeKept DEF Moves, store
  <2>9. CASE MarkNotice(c)
    <3>1. /\ marking = None /\ marking' = c
          /\ loaded' = [loaded EXCEPT ![c] = marks]
          /\ UNCHANGED <<marks, known>>
          /\ call[c].pc = "mark" /\ call'[c].pc = "save"
      BY <2>2, <2>9, GotoChanges DEF MarkNotice, LoadMarks, history
    <3>2. \A d \in Calls : call[d].pc # "save"
      BY <3>1 DEF NoticeInv
    <3> QED
      BY <2>1, <3>1, <3>2 DEF Moves, NoticeInv, Key, TypeOK
  <2>10. CASE SaveMarks(c)
    <3>1. /\ marks \subseteq marks' /\ UNCHANGED known
          /\ call[c].pc = "save" /\ call'[c].pc = "returned"
      BY <2>2, <2>10, ReturnChanges DEF SaveMarks, NoticeInv, Outcomes, history
    <3>2. \A d \in Calls \ {c} : call[d].pc # "save"
      BY <3>1 DEF NoticeInv
    <3> QED
      BY <2>1, <3>1, <3>2 DEF Moves, NoticeInv, Key
  <2>11. CASE NoticeFails(c)
    BY <2>3, <2>11 DEF NoticeFails, Outcomes, history
  <2>12. CASE AnswerGarbled(c)
    BY <2>3, <2>12 DEF AnswerGarbled, Outcomes, store
  <2> QED
    BY <1>6, <2>4, <2>5, <2>6, <2>7, <2>8, <2>9, <2>10, <2>11, <2>12 DEF Own
<1>7. CASE UNCHANGED vars
  BY <1>7, NoticeKept DEF vars, store, history
<1> QED
  BY <1>1, <1>2, <1>3, <1>4, <1>5, <1>6, <1>7 DEF Next, Step, Own

(* Only TellOwner tells anyone.                                             *)
LEMMA TellsUnknown ==
  ASSUME TypeOK, NoticeInv, [Next]_vars, NEW c \in told' \ told
  PROVE  Key(c) \notin known[c]
<1>1. PICK d \in Calls : TellOwner(d)
  BY DEF Next, Step, Dispatch, TurnEnds, CutTurn, FlipMode, Crash, ServerHandles,
     Answered, NeverSent, RequestFails, Fails, AnswerGarbled, CheckNotice, MarkNotice,
     LoadMarks, SaveMarks, NoticeFails, vars, history
<1> QED
  BY <1>1 DEF TellOwner, NoticeInv

(* MailWrites is well typed for any number of mails and tool calls.         *)
THEOREM TypeCorrect == Spec => []TypeOK
BY Inductive, PTL

(* No mail is answered automatically twice, however often it is dispatched  *)
(* and whatever requests and answers are lost: replyAutomatically sends the *)
(* same idempotency key for a mail every time.                              *)
THEOREM AnsweredOnce == Spec => []OneAutoReply
<1>1. SafeInv => OneAutoReply
  BY DEF SafeInv
<1> QED BY <1>1, Inductive, PTL

(* A tool call whose reported outcome is "not-sent" never sends anything,   *)
(* but for one whose JSON answer could not be used: #requestJson calls an   *)
(* automatic write unknown whose answer is lost or is not JSON.             *)
THEOREM NotSentIsHonest == Spec => []NotSentIsTrue
<1>1. SafeInv => NotSentIsTrue
  BY DEF SafeInv
<1> QED BY <1>1, Inductive, PTL

(* Without a crash or a cut-off turn a mail leads to one reply or one       *)
(* Draft, and every fault to at most one more, for any number of mails and  *)
(* faults: a write is never tried again by the plugin itself.               *)
THEOREM EffectsCounted == Spec => []EffectsBounded
<1>1. TypeOK /\ SafeInv /\ EffectInv /\ [Next]_vars => EffectInv'
  BY EffectStep
<1>2. TypeOK /\ SafeInv /\ EffectInv => EffectsBounded
  BY EffectsOfCalls DEF SafeInv
<1> QED
  BY <1>1, <1>2, EffectInit, Inductive, PTL DEF Spec

(* No owner is told again of a Draft whose note was marked when the tool    *)
(* call began: #mutate loads and saves the workflow state one call at a     *)
(* time, so that no mark is lost to another.                                *)
THEOREM NoticeGivenOnce == Spec => NoRepeatedNotice
<1>1. Init => NoticeInv
  BY DEF Init, NoticeInv
<1>2. TypeOK /\ SafeInv /\ NoticeInv /\ [Next]_vars => NoticeInv'
  BY NoticeStep
<1>3. TypeOK /\ NoticeInv /\ [Next]_vars =>
        [\A c \in told' \ told : Key(c) \notin known[c]]_vars
  BY TellsUnknown
<1> QED
  BY <1>1, <1>2, <1>3, Inductive, PTL DEF Spec, NoRepeatedNotice
=============================================================================
