------------------------- MODULE Authorization_proofs -------------------------
(***************************************************************************)
(* What AgentMailAuthorizationService guarantees for any number of         *)
(* instances, connect calls, status calls and codes.                       *)
(***************************************************************************)
EXTENDS Authorization, FiniteSetTheorems, TLAPS

\* The check that runs in an instance is the one #checks holds, and is of a
\* code.
ChecksInv ==
  \A r \in Runners :
    Running(r) => checks[run[r].svc] = r /\ run[r].code \in Codes

\* A background task belongs to the instance it is named for.
TaskInv == \A s \in Services : run[s].svc = s

\* A connect call that saves its authorization has a code.
Coded(b) == b \in Starts /\ (b.pc \in {"save", "saved"} => b.code \in Codes)

BeginInv ==
  /\ begin \in [Starters -> Starts]
  /\ \A t \in Starters : Coded(begin[t])

IInv == TypeOK /\ ChecksInv /\ TaskInv /\ BeginInv

----------------------------------------------------------------------------
(* Runs and starts.                                                        *)

LEMMA IdleIsRun ==
  ASSUME NEW s \in Services
  PROVE  /\ Idle(s) \in Runs
         /\ [Idle(s) EXCEPT !.pc = "sleep"] \in Runs
         /\ Idle(s).pc = "idle" /\ Idle(s).svc = s
         /\ [Idle(s) EXCEPT !.pc = "sleep"].pc = "sleep"
         /\ [Idle(s) EXCEPT !.pc = "sleep"].svc = s
BY DEF Idle, Runs

LEMMA NoStartIsStart ==
  ASSUME NEW s \in Services
  PROVE  Coded(NoStart(s))
BY DEF NoStart, Starts, Coded

\* One connect call moves.
LEMMA BeginStep ==
  ASSUME IInv, NEW t \in Starters, NEW v, Coded(v),
         begin' = [begin EXCEPT ![t] = v]
  PROVE  BeginInv'
BY DEF IInv, BeginInv, Coded

----------------------------------------------------------------------------
LEMMA InitInv == Init => IInv
<1> SUFFICES ASSUME Init PROVE IInv
  OBVIOUS
<1> DEFINE s0 == CHOOSE s \in Services : TRUE
<1>0. s0 \in Services
  BY AuthorizationAssumption
<1>1. /\ run = [r \in Runners |-> Idle(IF r \in Services THEN r ELSE s0)]
      /\ begin = [t \in Starters |-> NoStart(s0)]
  BY DEF Init
<1> HIDE DEF s0
<1>2. run \in [Runners -> Runs] /\ BeginInv
  BY <1>0, <1>1, IdleIsRun, NoStartIsStart DEF BeginInv, Coded
<1>3. \A r \in Runners : run[r].pc = "idle"
  BY <1>0, <1>1, IdleIsRun
<1>4. TypeOK
  BY <1>2, AuthorizationAssumption DEF Init, TypeOK, BeginInv
<1>5. ChecksInv
  BY <1>3 DEF ChecksInv, Running
<1>6. TaskInv
  BY <1>0, <1>1, IdleIsRun DEF TaskInv, Runners
<1> QED
  BY <1>2, <1>4, <1>5, <1>6 DEF IInv

----------------------------------------------------------------------------
(* The end of a check.                                                     *)

\* Sets of runners that the end of a check wakes or puts to sleep.
LEMMA EndWithStep ==
  ASSUME IInv, NEW r \in Runners, NEW again \in SUBSET Services,
         again \subseteq Sharers(r), EndWith(r, again)
  PROVE  /\ checks' \in [Services -> Runners \union {None}]
         /\ run' \in [Runners -> Runs]
         /\ BeginInv'
         /\ life' \in [Services -> {"new", "up", "stopping", "stopped", "dead"}]
         /\ aborted' \in SUBSET Services
         /\ ChecksInv' /\ TaskInv'
<1> USE DEF IInv, TypeOK
<1>1. checks' \in [Services -> Runners \union {None}]
  BY DEF EndWith
<1>2. ASSUME NEW x \in Runners
      PROVE  /\ run'[x] \in Runs /\ run'[x].svc = run[x].svc
             /\ x \notin Sharers(r) => run'[x] = run[x]
             /\ x \in Sharers(r) => run'[x].pc \in {"idle", "sleep"}
  <2>1. run[x].svc \in Services
    BY DEF Runs
  <2>2. CASE x \in again
    <3>1. run'[x] = [Idle(x) EXCEPT !.pc = "sleep"] /\ x \in Services
      BY <2>2 DEF EndWith
    <3> QED
      BY <2>2, <3>1, IdleIsRun DEF TaskInv
  <2>3. CASE x \notin again /\ x \in Sharers(r)
    <3>1. run'[x] = Idle(run[x].svc)
      BY <2>3 DEF EndWith
    <3>2. Idle(run[x].svc) \in Runs /\ Idle(run[x].svc).svc = run[x].svc
          /\ Idle(run[x].svc).pc = "idle"
      BY <2>1, IdleIsRun
    <3> HIDE DEF IInv, TypeOK
    <3> QED
      BY <2>3, <3>1, <3>2
  <2>4. CASE x \notin again /\ x \notin Sharers(r)
    <3>1. run'[x] = run[x]
      BY <2>4 DEF EndWith
    <3> QED
      BY <2>4, <3>1
  <2> QED
    BY <2>2, <2>3, <2>4
<1>3. run' \in [Runners -> Runs]
  <2>1. run' = [x \in Runners |-> run'[x]]
    BY DEF EndWith
  <2> QED
    BY <1>2, <2>1
<1>4. BeginInv'
  <2>1. begin' = [t \in Starters |-> begin'[t]]
    BY DEF EndWith, TasksEnd
  <2>2. ASSUME NEW t \in Starters
        PROVE  Coded(begin'[t])
    <3>1. begin'[t] = begin[t]
          \/ begin'[t] = [begin[t] EXCEPT !.pc = "create"]
      BY DEF EndWith, TasksEnd
    <3>2. Coded(begin[t])
      BY DEF BeginInv
    <3> HIDE DEF IInv, TypeOK
    <3> QED
      BY <3>1, <3>2 DEF Starts, Coded
  <2>3. \A t \in Starters : begin'[t] \in Starts
    BY <2>2 DEF Coded
  <2> HIDE DEF IInv, TypeOK
  <2> QED
    BY <2>1, <2>2, <2>3 DEF BeginInv
<1>5. /\ life' \in [Services -> {"new", "up", "stopping", "stopped", "dead"}]
      /\ aborted' \in SUBSET Services
  BY DEF EndWith, TasksEnd
<1>6. ChecksInv'
  <2> SUFFICES ASSUME NEW x \in Runners, Running(x)'
               PROVE  checks'[run'[x].svc] = x /\ run'[x].code \in Codes
    BY DEF ChecksInv
  <2>1. x \notin Sharers(r) /\ run'[x] = run[x] /\ x # r
    BY <1>2 DEF Running, Sharers
  <2>2. /\ checks[run[x].svc] = x /\ run[x].svc \in Services
        /\ run[x].code \in Codes
    BY <2>1 DEF ChecksInv, Running, Runs
  <2> QED
    BY <2>1, <2>2 DEF EndWith
<1>7. TaskInv'
  BY <1>2 DEF TaskInv, Runners
<1> QED
  BY <1>1, <1>3, <1>4, <1>5, <1>6, <1>7

LEMMA EndCheckStep ==
  ASSUME IInv, NEW r \in Runners, NEW result, EndCheck(r, result)
  PROVE  /\ checks' \in [Services -> Runners \union {None}]
         /\ run' \in [Runners -> Runs]
         /\ BeginInv'
         /\ life' \in [Services -> {"new", "up", "stopping", "stopped", "dead"}]
         /\ aborted' \in SUBSET Services
         /\ ChecksInv' /\ TaskInv'
<1>1. PICK again \in SUBSET Services :
        again \subseteq Sharers(r) /\ EndWith(r, again)
  <2>1. CASE result = "pending"
    BY <2>1 DEF EndCheck
  <2>2. CASE result # "pending"
    BY <2>2 DEF EndCheck
  <2> QED
    BY <2>1, <2>2
<1> QED
  BY <1>1, EndWithStep

----------------------------------------------------------------------------
(* Checks.                                                                 *)

\* A runner without a check joins the one in flight, starts the only one or
\* ends at once.
LEMMA CheckBegins ==
  ASSUME IInv, NEW r \in Runners, NEW s \in Services, ~Running(r),
         r \in Services => r = s, Check(r, s)
  PROVE  /\ checks' \in [Services -> Runners \union {None}]
         /\ run' \in [Runners -> Runs]
         /\ BeginInv'
         /\ life' \in [Services -> {"new", "up", "stopping", "stopped", "dead"}]
         /\ aborted' \in SUBSET Services
         /\ ChecksInv' /\ TaskInv'
<1>1. CASE EndCheck(r, "final")
  BY <1>1, EndCheckStep
<1>2. CASE checks[s] # None /\ Up(s)
  <2>1. /\ run' = [run EXCEPT ![r] = [pc |-> "joined", svc |-> s, code |-> None,
                                      on |-> checks[s]]]
        /\ UNCHANGED <<life, checks, aborted, begin>>
    BY <1>2 DEF Check
  <2>2. [pc |-> "joined", svc |-> s, code |-> None, on |-> checks[s]] \in Runs
    BY DEF IInv, TypeOK, Runs
  <2>3. run' \in [Runners -> Runs]
    BY <2>1, <2>2 DEF IInv, TypeOK
  <2>4. ChecksInv' /\ TaskInv'
    BY <2>1 DEF IInv, TypeOK, ChecksInv, TaskInv, Running, Runners
  <2> QED
    BY <2>1, <2>3, <2>4 DEF IInv, TypeOK, BeginInv
<1>3. CASE checks[s] = None /\ pending # None /\ CheckOnce(r, s)
  <2>1. PICK pc \in {"drop", "sent"} :
          run' = [run EXCEPT ![r] = [pc |-> pc, svc |-> s, code |-> pending,
                                     on |-> None]]
    BY <1>3 DEF CheckOnce
  <2>2. checks' = [checks EXCEPT ![s] = r]
        /\ UNCHANGED <<life, aborted, begin>>
    BY <1>3 DEF CheckOnce
  <2>3. [pc |-> pc, svc |-> s, code |-> pending, on |-> None] \in Runs
    BY DEF IInv, TypeOK, Runs
  <2>4. run' \in [Runners -> Runs]
    BY <2>1, <2>3 DEF IInv, TypeOK
  <2>5. ASSUME NEW x \in Runners, Running(x)'
        PROVE  checks'[run'[x].svc] = x /\ run'[x].code \in Codes
    <3>1. CASE x = r
      BY <1>3, <2>1, <2>2, <3>1 DEF IInv, TypeOK
    <3>2. CASE x # r
      <4>1. run'[x] = run[x] /\ Running(x)
        BY <2>1, <2>5, <3>2 DEF IInv, TypeOK, Running
      <4>2. checks[run[x].svc] = x /\ x # None /\ run[x].code \in Codes
        BY <4>1, AuthorizationAssumption DEF IInv, ChecksInv
      <4>3. run[x].svc # s
        BY <1>3, <4>2
      <4> QED
        BY <2>2, <4>1, <4>2, <4>3 DEF IInv, TypeOK, Runs
    <3> QED
      BY <3>1, <3>2
  <2>6. TaskInv'
    BY <2>1 DEF IInv, TypeOK, TaskInv, Runners
  <2> QED
    BY <2>2, <2>4, <2>5, <2>6 DEF IInv, TypeOK, ChecksInv, BeginInv
<1> QED
  BY <1>1, <1>2, <1>3 DEF Check, CheckOnce

LEMMA CheckStarts ==
  ASSUME IInv,
         \/ \E k \in Checkers, s \in Services : ToolCheck(k, s)
         \/ \E s \in Services : Wake(s)
  PROVE  IInv'
<1>1. UNCHANGED <<server, files, connected, cut, errors>>
  BY DEF ToolCheck, Wake
<1>2. \E r \in Runners, s \in Services :
        ~Running(r) /\ (r \in Services => r = s) /\ Check(r, s)
  BY AuthorizationAssumption DEF ToolCheck, Wake, Asleep, Running, Runners
<1> QED
  BY <1>1, <1>2, CheckBegins DEF IInv, TypeOK, BeginInv, server, files

\* A check goes on: the runner stays inside it.
LEMMA CheckMoves ==
  ASSUME IInv, NEW r \in Runners, Running(r), UNCHANGED checks,
         NEW pc \in {"granted", "unsettled", "refused", "store", "activate",
                     "remove", "drop"},
         run' = [run EXCEPT ![r].pc = pc]
  PROVE  run' \in [Runners -> Runs] /\ ChecksInv' /\ TaskInv'
<1>1. \A x \in Runners : run'[x] = IF x = r THEN [run[r] EXCEPT !.pc = pc]
                                  ELSE run[x]
  BY DEF IInv, TypeOK
<1>2. run[r] \in Runs
  BY DEF IInv, TypeOK
<1>3. /\ [run[r] EXCEPT !.pc = pc] \in Runs
      /\ [run[r] EXCEPT !.pc = pc].svc = run[r].svc
      /\ [run[r] EXCEPT !.pc = pc].code = run[r].code
  BY <1>2 DEF Runs
<1>4. run' \in [Runners -> Runs]
  BY <1>3 DEF IInv, TypeOK
<1>5. \A x \in Runners : /\ run'[x].svc = run[x].svc
                         /\ run'[x].code = run[x].code
                         /\ Running(x)' => Running(x)
  BY <1>1, <1>3 DEF Running
<1> QED
  BY <1>4, <1>5 DEF IInv, ChecksInv, TaskInv, Runners

LEMMA CheckGoesOn ==
  ASSUME IInv, NEW r \in Runners,
         \/ Answer(r) \/ ReceiveRefusal(r) \/ ReceiveCredential(r)
         \/ ReceiveForeign(r) \/ StoreCredential(r) \/ Activated(r)
  PROVE  IInv'
<1>1. Running(r) /\ run[r].code \in Codes /\ run[r].svc \in Services
  BY DEF IInv, TypeOK, Runs, ChecksInv, Running, Answer, ReceiveRefusal,
         ReceiveCredential, ReceiveForeign, StoreCredential, Activated, Goto
<1>2. /\ \E pc \in {"granted", "unsettled", "refused", "store", "activate",
                   "remove", "drop"} : run' = [run EXCEPT ![r].pc = pc]
      /\ UNCHANGED <<service, begin, lapsed, request, shown, pending, latest,
                     unreported>>
  BY DEF Answer, ReceiveRefusal, ReceiveCredential, ReceiveForeign,
         StoreCredential, Activated, Goto, server, files
<1>3. run' \in [Runners -> Runs] /\ ChecksInv' /\ TaskInv'
  BY <1>1, <1>2, CheckMoves DEF service
<1>4. CASE Answer(r)
  <2>1. /\ UNCHANGED <<files, cut, errors>>
        /\ \/ UNCHANGED <<status, order>>
           \/ /\ status' = [status EXCEPT ![run[r].code] = "used"]
              /\ order' = [order EXCEPT ![run[r].code] =
                   1 + Cardinality({e \in Codes : order[e] > 0})]
    BY <1>4 DEF Answer
  <2>2. Cardinality({e \in Codes : order[e] > 0}) \in Nat
    <3>1. IsFiniteSet({e \in Codes : order[e] > 0})
      BY AuthorizationAssumption, FS_Subset
    <3> QED
      BY <3>1, FS_CardinalityType
  <2>3. status' \in [Codes -> {"unused", "waiting", "approved", "denied", "used"}]
        /\ order' \in [Codes -> Nat]
    BY <1>1, <2>1, <2>2 DEF IInv, TypeOK
  <2> QED
    BY <1>2, <1>3, <2>1, <2>3 DEF IInv, TypeOK, BeginInv, service, files
<1>5. CASE StoreCredential(r)
  <2>1. /\ stored' = run[r].code
        /\ kept' = [kept EXCEPT ![run[r].code] = run[r].svc]
        /\ UNCHANGED <<server, cut, errors>>
    BY <1>5 DEF StoreCredential
  <2>2. kept' \in [Codes -> Services \union {None}]
    BY <1>1, <2>1 DEF IInv, TypeOK
  <2> QED
    BY <1>1, <1>2, <1>3, <2>1, <2>2 DEF IInv, TypeOK, BeginInv, service, server
<1>6. CASE ReceiveRefusal(r) \/ ReceiveCredential(r) \/ ReceiveForeign(r)
           \/ Activated(r)
  <2>1. /\ UNCHANGED <<server, files, cut>>
        /\ errors' = errors \/ (errors' = errors + 1 /\ errors < MaxErrors)
    BY <1>6 DEF ReceiveRefusal, ReceiveCredential, ReceiveForeign, Activated,
                Fault
  <2>2. errors' \in 0 .. MaxErrors
    BY <2>1, AuthorizationAssumption DEF IInv, TypeOK
  <2> QED
    BY <1>2, <1>3, <2>1, <2>2 DEF IInv, TypeOK, BeginInv, service, server, files
<1> QED
  BY <1>4, <1>5, <1>6

LEMMA CheckEnds ==
  ASSUME IInv, NEW r \in Runners,
         \/ ReceivePending(r) \/ RemoveCompleted(r)
         \/ RemoveRefused(r) \/ CheckFails(r)
  PROVE  IInv'
<1>1. /\ \E result : EndCheck(r, result)
      /\ UNCHANGED <<server, stored, latest, kept, cut>>
      /\ pending' \in {None, pending}
      /\ \/ unreported' = unreported
         \/ Running(r) /\ unreported' = unreported \union {run[r].code}
      /\ errors' = errors \/ (errors' = errors + 1 /\ errors < MaxErrors)
      /\ \/ connected' = connected
         \/ /\ Running(r)
            /\ connected' = [connected EXCEPT ![run[r].svc] = run[r].code]
  BY DEF ReceivePending, RemoveCompleted, Completed, RemoveRefused, CheckFails,
         Fault, Finishing, files, Running
<1>2. /\ checks' \in [Services -> Runners \union {None}]
      /\ run' \in [Runners -> Runs]
      /\ BeginInv'
      /\ life' \in [Services -> {"new", "up", "stopping", "stopped", "dead"}]
      /\ aborted' \in SUBSET Services
      /\ ChecksInv' /\ TaskInv'
  BY <1>1, EndCheckStep
<1>3. errors' \in 0 .. MaxErrors
  BY <1>1, AuthorizationAssumption DEF IInv, TypeOK
<1>4. /\ connected' \in [Services -> Codes \union {None}]
      /\ unreported' \in SUBSET Codes
  BY <1>1 DEF IInv, TypeOK, ChecksInv
<1> QED
  BY <1>1, <1>2, <1>3, <1>4 DEF IInv, TypeOK, BeginInv, server

----------------------------------------------------------------------------
(* Tasks, starts and instances.                                            *)

\* A background task that is in no check starts or ends.
TaskMoves(s) ==
  \/ run' = run
  \/ run[s].pc = "idle" /\ run' = [run EXCEPT ![s].pc = "sleep"]
  \/ run[s].pc \in {"idle", "sleep"} /\ run' = [run EXCEPT ![s] = Idle(s)]

LEMMA TaskStep ==
  ASSUME IInv, NEW s \in Services, TaskMoves(s), UNCHANGED checks
  PROVE  run' \in [Runners -> Runs] /\ ChecksInv' /\ TaskInv'
<1>0. s \in Runners /\ run[s] \in Runs
  BY DEF Runners, IInv, TypeOK
<1>1. CASE run' = run
  BY <1>1 DEF IInv, TypeOK, ChecksInv, TaskInv, Running
<1>2. ASSUME NEW v \in Runs, v.svc = s, v.pc \in {"idle", "sleep"},
             run' = [run EXCEPT ![s] = v]
      PROVE  run' \in [Runners -> Runs] /\ ChecksInv' /\ TaskInv'
  <2>1. run' \in [Runners -> Runs]
    BY <1>0, <1>2 DEF IInv, TypeOK
  <2>2. \A x \in Runners : run'[x] = IF x = s THEN v ELSE run[x]
    BY <1>2 DEF IInv, TypeOK
  <2>3. ChecksInv'
    BY <1>2, <2>2 DEF IInv, ChecksInv, Running
  <2>4. TaskInv'
    BY <1>2, <2>2 DEF IInv, TaskInv, Runners
  <2> QED
    BY <2>1, <2>3, <2>4
<1>3. CASE run' = [run EXCEPT ![s].pc = "sleep"]
  <2> DEFINE v == [run[s] EXCEPT !.pc = "sleep"]
  <2>1. v \in Runs /\ v.pc = "sleep" /\ v.svc = s
    BY <1>0 DEF Runs, IInv, TaskInv
  <2>2. run' = [run EXCEPT ![s] = v]
    BY <1>3
  <2> HIDE DEF v
  <2> QED
    BY <1>2, <2>1, <2>2
<1>4. CASE run' = [run EXCEPT ![s] = Idle(s)]
  BY <1>2, <1>4, IdleIsRun
<1> QED
  BY <1>1, <1>3, <1>4 DEF TaskMoves

\* What a connect call does to the background task.
LEMMA CancelStep ==
  ASSUME IInv, NEW t \in Starters, NEW s \in Services,
         NEW q \in Requests \union {None}, CancelTask(t, s, q)
  PROVE  /\ BeginInv'
         /\ TaskMoves(s)
         /\ aborted' \in SUBSET Services
         /\ cut' \in Nat
<1>1. PICK pc \in {"cancel", "create"} :
        begin' = [begin EXCEPT ![t] =
                    [pc |-> pc, svc |-> s, request |-> q, code |-> None]]
  BY DEF CancelTask, StartAt
<1>2. Coded([pc |-> pc, svc |-> s, request |-> q, code |-> None])
  BY DEF Starts, Coded
<1>3. BeginInv'
  BY <1>1, <1>2, BeginStep
<1>4. TaskMoves(s)
  BY DEF CancelTask, TaskMoves, HasTask, Asleep
<1>5. aborted' \in SUBSET Services /\ cut' \in Nat
  BY DEF CancelTask, IInv, TypeOK
<1> QED
  BY <1>3, <1>4, <1>5

LEMMA StartTaskMoves ==
  ASSUME NEW s \in Services, StartTask(s)
  PROVE  TaskMoves(s)
BY DEF StartTask, TaskMoves, HasTask

LEMMA StartCalled ==
  ASSUME IInv, NEW t \in Starters, NEW s \in Services, NEW q \in Requests,
         StartReuses(t, s, q) \/ StartReplaces(t, s, q)
  PROVE  IInv'
<1>1. CASE StartReuses(t, s, q)
  <2>1. TaskMoves(s) /\ UNCHANGED checks
    BY <1>1, StartTaskMoves DEF StartReuses, service
  <2>2. shown' \in SUBSET Codes
    BY <1>1 DEF StartReuses, Reuses, IInv, TypeOK
  <2> QED
    BY <1>1, <2>1, <2>2, TaskStep
       DEF StartReuses, IInv, TypeOK, BeginInv, service, files
<1>2. CASE StartReplaces(t, s, q)
  <2>1. UNCHANGED <<server, files, life, checks, connected, errors>>
    BY <1>2 DEF StartReplaces
  <2>2. /\ BeginInv'
        /\ TaskMoves(s)
        /\ aborted' \in SUBSET Services
        /\ cut' \in Nat
    <3>1. CASE CancelTask(t, s, q)
      BY <3>1, CancelStep
    <3>2. CASE /\ StartAt(t, "delete", s, q, pending)
              /\ UNCHANGED <<aborted, run, cut>>
      <4>1. Coded([pc |-> "delete", svc |-> s, request |-> q,
                   code |-> pending])
        BY DEF Starts, Coded, IInv, TypeOK
      <4> QED
        BY <3>2, <4>1, BeginStep DEF StartAt, IInv, TypeOK, TaskMoves
    <3> QED
      BY <1>2, <3>1, <3>2 DEF StartReplaces
  <2> QED
    BY <2>1, <2>2, TaskStep DEF IInv, TypeOK, BeginInv, server, files
<1> QED
  BY <1>1, <1>2

LEMMA StartGoesOn ==
  ASSUME IInv, NEW t \in Starters, StartStep(t)
  PROVE  IInv'
<1> DEFINE s == begin[t].svc
<1>1. /\ begin[t] \in Starts /\ s \in Services
      /\ begin[t].request \in Requests \union {None}
      /\ begin[t].code \in Codes \union {None}
  BY DEF IInv, TypeOK, Starts
<1>2. CASE DeleteLapsed(t)
  <2>1. /\ CancelTask(t, s, begin[t].request) /\ pending' = None
        /\ UNCHANGED <<server, stored, latest, kept, unreported, life, checks,
                       connected, errors>>
    BY <1>2 DEF DeleteLapsed
  <2>2. /\ BeginInv'
        /\ TaskMoves(s)
        /\ aborted' \in SUBSET Services
        /\ cut' \in Nat
    BY <1>1, <2>1, CancelStep
  <2> QED
    BY <1>1, <2>1, <2>2, TaskStep DEF IInv, TypeOK, BeginInv, server
<1>3. CASE \E d \in Codes : CreateDevice(t, d)
  <2>1. PICK d \in Codes : CreateDevice(t, d)
    BY <1>3
  <2>2. /\ status' = [status EXCEPT ![d] = "waiting"]
        /\ request' = [request EXCEPT ![d] = begin[t].request]
        /\ begin' = [begin EXCEPT ![t] = [begin[t] EXCEPT !.pc = "save",
                                                          !.code = d]]
        /\ UNCHANGED <<lapsed, shown, order, files, service, run, cut, errors>>
    BY <2>1 DEF CreateDevice
  <2>3. Coded([begin[t] EXCEPT !.pc = "save", !.code = d])
    BY <1>1 DEF Starts, Coded
  <2>4. BeginInv'
    BY <2>2, <2>3, BeginStep
  <2>5. status' \in [Codes -> {"unused", "waiting", "approved", "denied", "used"}]
        /\ request' \in [Codes -> Requests \union {None}]
    BY <1>1, <2>2 DEF IInv, TypeOK
  <2> QED
    BY <2>2, <2>4, <2>5
       DEF IInv, TypeOK, BeginInv, ChecksInv, TaskInv, Running, files, service
<1>4. CASE SavePending(t)
  <2>1. /\ pending' = begin[t].code /\ latest' = begin[t].code
        /\ begin' = [begin EXCEPT ![t] = [begin[t] EXCEPT !.pc = "saved"]]
        /\ UNCHANGED <<server, stored, kept, unreported, service, run, cut,
                       errors>>
    BY <1>4 DEF SavePending
  <2>2. begin[t].code \in Codes
        /\ Coded([begin[t] EXCEPT !.pc = "saved"])
    BY <1>1, <1>4 DEF SavePending, IInv, BeginInv, Starts, Coded
  <2>3. BeginInv'
    BY <2>1, <2>2, BeginStep
  <2> QED
    BY <1>1, <2>1, <2>3
       DEF IInv, TypeOK, BeginInv, ChecksInv, TaskInv, Running, server, service
<1>5. CASE StartReturns(t)
  <2>1. /\ begin' = [begin EXCEPT ![t] = NoStart(s)]
        /\ shown' = shown \union {begin[t].code}
        /\ UNCHANGED <<status, lapsed, request, order, files, service, cut,
                       errors>>
    BY <1>5 DEF StartReturns
  <2>2. BeginInv'
    BY <1>1, <2>1, NoStartIsStart, BeginStep
  <2>3. TaskMoves(s)
    BY <1>1, <1>5, StartTaskMoves DEF StartReturns
  <2>4. begin[t].code \in Codes
    BY <1>5 DEF StartReturns, IInv, BeginInv, Coded
  <2>5. shown' \in SUBSET Codes
    BY <2>1, <2>4 DEF IInv, TypeOK
  <2> QED
    BY <1>1, <2>1, <2>2, <2>3, <2>5, TaskStep
       DEF IInv, TypeOK, BeginInv, files, service
<1>6. CASE StartFails(t)
  <2>1. /\ begin' = [begin EXCEPT ![t] = NoStart(s)]
        /\ errors' = errors + 1 /\ errors < MaxErrors
        /\ UNCHANGED <<server, files, service, run, cut>>
    BY <1>6 DEF StartFails, Fault
  <2>2. BeginInv'
    BY <1>1, <2>1, NoStartIsStart, BeginStep
  <2>3. errors' \in 0 .. MaxErrors
    BY <2>1, AuthorizationAssumption DEF IInv, TypeOK
  <2> QED
    BY <2>1, <2>2, <2>3
       DEF IInv, TypeOK, BeginInv, ChecksInv, TaskInv, Running, server, files,
           service
<1> QED
  BY <1>2, <1>3, <1>4, <1>5, <1>6 DEF StartStep

\* boot, stop and crash
LEMMA InstanceStep ==
  ASSUME IInv, NEW s \in Services, Boot(s) \/ Stop(s) \/ Crash(s)
  PROVE  IInv'
<1>1. CASE Boot(s)
  <2>1. TaskMoves(s)
    BY <1>1, StartTaskMoves DEF Boot
  <2>2. UNCHANGED <<server, files, checks, connected, aborted, begin, cut, errors>>
        /\ life' = [life EXCEPT ![s] = "up"]
    BY <1>1 DEF Boot
  <2> QED
    BY <2>1, <2>2, TaskStep DEF IInv, TypeOK, BeginInv, server, files
<1>2. CASE Stop(s)
  <2>1. TaskMoves(s)
    BY <1>2 DEF Stop, TaskMoves, HasTask, Asleep
  <2>2. /\ UNCHANGED <<server, files, checks, connected, begin, cut, errors>>
        /\ \E l \in {"stopping", "stopped"} : life' = [life EXCEPT ![s] = l]
        /\ aborted' \in {aborted, aborted \union {s}}
    BY <1>2 DEF Stop
  <2> QED
    BY <2>1, <2>2, TaskStep DEF IInv, TypeOK, BeginInv, server, files
<1>3. CASE Crash(s)
  <2>1. /\ life' = [life EXCEPT ![s] = "dead"]
        /\ checks' = [checks EXCEPT ![s] = None]
        /\ aborted' = aborted \ {s}
        /\ run' = [r \in Runners |-> IF run[r].svc = s THEN Idle(s) ELSE run[r]]
        /\ begin' = [t \in Starters |-> IF begin[t].svc = s THEN NoStart(s)
                                         ELSE begin[t]]
        /\ UNCHANGED <<server, files, connected, cut, errors>>
    BY <1>3 DEF Crash
  <2>2. run' \in [Runners -> Runs]
    BY <2>1, IdleIsRun DEF IInv, TypeOK
  <2>3. BeginInv'
    <3>1. \A t \in Starters : Coded(begin'[t])
      BY <2>1, NoStartIsStart DEF IInv, BeginInv
    <3> QED
      BY <2>1, <3>1 DEF BeginInv, Coded
  <2>4. ASSUME NEW x \in Runners
        PROVE  /\ run'[x].svc = run[x].svc
               /\ Running(x)' => run'[x] = run[x] /\ run[x].svc # s
    BY <2>1, IdleIsRun DEF Running
  <2>5. TaskInv'
    BY <2>4 DEF IInv, TaskInv, Runners
  <2>6. ASSUME NEW x \in Runners, Running(x)'
        PROVE  checks'[run'[x].svc] = x /\ run'[x].code \in Codes
    <3>1. run'[x] = run[x] /\ run[x].svc # s /\ run[x].svc \in Services
      BY <2>4, <2>6 DEF IInv, TypeOK, Runs
    <3>2. Running(x)
      BY <2>6, <3>1 DEF Running
    <3> QED
      BY <2>1, <3>1, <3>2 DEF IInv, TypeOK, ChecksInv
  <2>7. TypeOK'
    BY <2>1, <2>2, <2>3 DEF IInv, TypeOK, BeginInv, server, files
  <2> QED
    BY <2>3, <2>5, <2>6, <2>7 DEF IInv, ChecksInv
<1> QED
  BY <1>1, <1>2, <1>3

\* Every step keeps the invariant: one case per action.
LEMMA NextInv == IInv /\ [Next]_vars => IInv'
<1> SUFFICES ASSUME IInv, [Next]_vars PROVE IInv'
  OBVIOUS
<1>1. CASE \E d \in Codes : OwnerDecides(d) \/ Lapse(d)
  <2>1. PICK d \in Codes : OwnerDecides(d) \/ Lapse(d)
    BY <1>1
  <2>2. /\ UNCHANGED <<request, shown, order, files, service, run, begin, cut,
                       errors>>
        /\ lapsed' \in SUBSET Codes
        /\ status' \in
             [Codes -> {"unused", "waiting", "approved", "denied", "used"}]
    BY <2>1 DEF OwnerDecides, Lapse, IInv, TypeOK
  <2> QED
    BY <2>2 DEF IInv, TypeOK, BeginInv, ChecksInv, TaskInv, Running, files,
                service
<1>2. CASE \E s \in Services : Boot(s) \/ Stop(s) \/ Crash(s)
  BY <1>2, InstanceStep
<1>3. CASE \E k \in Checkers, s \in Services : ToolCheck(k, s)
  BY <1>3, CheckStarts
<1>4. CASE \E t \in Starters, s \in Services, q \in Requests :
             StartReuses(t, s, q) \/ StartReplaces(t, s, q)
  BY <1>4, StartCalled
<1>5. CASE \E r \in Runners : CheckStep(r)
  BY <1>5, CheckGoesOn, CheckEnds, CheckStarts DEF CheckStep
<1>6. CASE \E t \in Starters : StartStep(t)
  BY <1>6, StartGoesOn
<1>7. CASE UNCHANGED vars
  BY <1>7 DEF vars, server, files, service, IInv, TypeOK, BeginInv, ChecksInv,
              TaskInv, Running
<1> QED
  BY <1>1, <1>2, <1>3, <1>4, <1>5, <1>6, <1>7 DEF Next

THEOREM Invariant == Spec => []IInv
BY InitInv, NextInv, PTL DEF Spec

----------------------------------------------------------------------------
(* Type correctness of the service, its files and the server's codes.       *)
THEOREM TypeCorrect == Spec => []TypeOK
<1>1. IInv => TypeOK
  BY DEF IInv
<1> QED
  BY Invariant, <1>1, PTL

(* No instance ever runs two checks at once, however the status tool, the   *)
(* background task, restarts and aborts interleave: #checks always holds    *)
(* the one that runs.                                                       *)
THEOREM ChecksShared == Spec => []OneCheckPerService
<1>1. IInv => OneCheckPerService
  BY DEF IInv, ChecksInv, OneCheckPerService
<1> QED
  BY Invariant, <1>1, PTL

----------------------------------------------------------------------------
(* What a step does to the checks: a runner that is not in one of its own   *)
(* is calm.                                                                 *)

Still == {"idle", "sleep", "joined"}

Calm(x) == run'[x] = run[x] \/ (run[x].pc \in Still /\ run'[x].pc \in Still)

Down == {s \in Services : life[s] \notin {"new", "up"}}

\* A task that has been aborted is inside a check, or shares one.
AbortInv == \A s \in aborted : run[s].pc \notin {"idle", "sleep"}

\* No instance is started; one that is stopping may have stopped.
LivesOn ==
  \A s \in Services :
    life'[s] = life[s] \/ (life[s] = "stopping" /\ life'[s] = "stopped")

\* After the end of a check its runner and those who shared it are idle or
\* asleep, and no task among them is aborted any more.
LEMMA EndCheckRuns ==
  ASSUME IInv, AbortInv, NEW r \in Runners, NEW result, EndCheck(r, result)
  PROVE  /\ \A x \in Runners \ {r} : Calm(x)
         /\ run'[r].pc \in Still
         /\ Down' = Down /\ LivesOn
         /\ aborted' \subseteq aborted
         /\ AbortInv'
<1>1. PICK again \in SUBSET Services :
        /\ again \subseteq Sharers(r) /\ EndWith(r, again)
        /\ again \intersect aborted = {}
  <2>1. CASE result = "pending"
    BY <2>1 DEF EndCheck
  <2>2. CASE result # "pending"
    BY <2>2 DEF EndCheck
  <2> QED
    BY <2>1, <2>2
<1>2. ASSUME NEW x \in Runners
      PROVE  /\ x \notin Sharers(r) => run'[x] = run[x]
             /\ x \in Sharers(r) => run'[x].pc \in {"idle", "sleep"}
  <2>1. run[x].svc \in Services
    BY DEF IInv, TypeOK, Runs
  <2>2. CASE x \in again
    <3>1. run'[x] = [Idle(x) EXCEPT !.pc = "sleep"] /\ x \in Services
      BY <1>1, <2>2 DEF EndWith
    <3> QED
      BY <1>1, <2>2, <3>1, IdleIsRun
  <2>3. CASE x \notin again /\ x \in Sharers(r)
    <3>1. run'[x] = Idle(run[x].svc)
      BY <1>1, <2>3 DEF EndWith
    <3>2. Idle(run[x].svc).pc = "idle"
      BY <2>1, IdleIsRun
    <3> QED
      BY <2>3, <3>1, <3>2
  <2>4. CASE x \notin again /\ x \notin Sharers(r)
    BY <1>1, <2>4 DEF EndWith
  <2> QED
    BY <2>2, <2>3, <2>4
<1>3. \A x \in Runners \ {r} : Calm(x)
  BY <1>2 DEF Calm, Still, Sharers
<1>4. run'[r].pc \in Still
  BY <1>2 DEF Still, Sharers
<1>5. Down' = Down /\ LivesOn
  BY <1>1 DEF EndWith, TasksEnd, Down, LivesOn
<1>6. aborted' \subseteq aborted \ Sharers(r)
  BY <1>1 DEF EndWith, TasksEnd, IInv, TypeOK
<1>7. AbortInv'
  BY <1>2, <1>6 DEF AbortInv, IInv, TypeOK, Runners
<1> QED
  BY <1>3, <1>4, <1>5, <1>6, <1>7

\* A check that begins is sent or drops an expired request; an aborted task
\* begins none.
LEMMA CheckRuns ==
  ASSUME IInv, AbortInv, NEW r \in Runners, NEW s \in Services, Check(r, s),
         run[r].pc \in {"idle", "sleep"}
  PROVE  /\ \A x \in Runners \ {r} : Calm(x)
         /\ \/ run'[r].pc \in Still
            \/ /\ run'[r].pc \in {"sent", "drop"} /\ run'[r].svc = s
               /\ Up(s) /\ r \notin aborted
         /\ Down' = Down /\ LivesOn
         /\ aborted' \subseteq aborted
         /\ AbortInv'
<1>0. r \notin aborted
  BY DEF AbortInv
<1>1. CASE EndCheck(r, "final")
  BY <1>1, EndCheckRuns
<1>2. ASSUME NEW v, Up(s), UNCHANGED <<life, aborted>>,
             run' = [run EXCEPT ![r] = v], v.svc = s,
             v.pc \in {"joined", "sent", "drop"}
      PROVE  /\ \A x \in Runners \ {r} : Calm(x)
             /\ \/ run'[r].pc \in Still
                \/ /\ run'[r].pc \in {"sent", "drop"} /\ run'[r].svc = s
                   /\ Up(s) /\ r \notin aborted
             /\ Down' = Down /\ LivesOn
             /\ aborted' \subseteq aborted
             /\ AbortInv'
  <2>1. /\ \A x \in Runners \ {r} : run'[x] = run[x]
        /\ run'[r].svc = s /\ run'[r].pc \in {"joined", "sent", "drop"}
    BY <1>2 DEF IInv, TypeOK
  <2>2. AbortInv'
    BY <1>0, <1>2, <2>1 DEF AbortInv, IInv, TypeOK, Runners
  <2> QED
    BY <1>0, <1>2, <2>1, <2>2 DEF Calm, Still, Down, LivesOn
<1>3. CASE Up(s) /\ checks[s] # None
  <2> DEFINE v == [pc |-> "joined", svc |-> s, code |-> None, on |-> checks[s]]
  <2>1. run' = [run EXCEPT ![r] = v] /\ UNCHANGED <<life, aborted>>
    BY <1>3 DEF Check
  <2>2. v.svc = s /\ v.pc \in {"joined", "sent", "drop"}
    OBVIOUS
  <2> HIDE DEF v
  <2> QED
    BY <1>2, <1>3, <2>1, <2>2
<1>4. CASE Up(s) /\ checks[s] = None /\ pending # None
  <2> DEFINE v == [pc |-> IF pending \in lapsed THEN "drop" ELSE "sent",
                   svc |-> s, code |-> pending, on |-> None]
  <2>1. run' = [run EXCEPT ![r] = v] /\ UNCHANGED <<life, aborted>>
    BY <1>4 DEF Check, CheckOnce
  <2>2. v.svc = s /\ v.pc \in {"joined", "sent", "drop"}
    OBVIOUS
  <2> HIDE DEF v
  <2> QED
    BY <1>2, <1>4, <2>1, <2>2
<1> QED
  BY <1>1, <1>3, <1>4 DEF Check, CheckOnce

\* Starting and ending a task that is in no check.
LEMMA TaskRuns ==
  ASSUME IInv, AbortInv, NEW s \in Services, TaskMoves(s)
  PROVE  /\ \A x \in Runners : Calm(x)
         /\ \A x \in aborted : run'[x] = run[x]
         /\ run[s].pc \notin {"idle", "sleep"} => run' = run
<1>0. s \in Runners /\ run[s] \in Runs
  BY DEF Runners, IInv, TypeOK
<1>1. CASE run' = run
  BY <1>1 DEF Calm
<1>2. CASE run[s].pc \in {"idle", "sleep"} /\ run' # run
  <2>1. run'[s].pc \in {"idle", "sleep"}
        /\ \A x \in Runners \ {s} : run'[x] = run[x]
    <3>1. CASE run' = [run EXCEPT ![s].pc = "sleep"]
      <4>1. run'[s] = [run[s] EXCEPT !.pc = "sleep"]
        BY <1>0, <3>1 DEF IInv, TypeOK
      <4>2. run'[s].pc = "sleep"
        BY <1>0, <4>1 DEF Runs
      <4> QED
        BY <3>1, <4>2 DEF IInv, TypeOK
    <3>2. CASE run' = [run EXCEPT ![s] = Idle(s)]
      BY <1>0, <3>2, IdleIsRun DEF IInv, TypeOK
    <3> QED
      BY <1>2, <3>1, <3>2 DEF TaskMoves
  <2>2. s \notin aborted /\ aborted \subseteq Runners
    BY <1>2 DEF AbortInv, IInv, TypeOK, Runners
  <2> QED
    BY <1>2, <2>1, <2>2 DEF Calm, Still
<1> QED
  BY <1>1, <1>2 DEF TaskMoves

----------------------------------------------------------------------------
(* Grants: what is in the hands of a check, what is lost and what may be.   *)

InHand(x) == run[x].pc \in {"granted", "store"}

Granted == {e \in Codes : order[e] > 0}

\* The order of the grants, and a grant in hand is newer than any that its
\* instance has stored.
OrderInv ==
  \A e \in Codes : /\ order[e] <= Cardinality(Granted)
                   /\ order[e] > 0 \/ kept[e] # None => status[e] = "used"

HandInv ==
  \A x \in Runners : InHand(x) =>
    /\ status[run[x].code] = "used"
    /\ \A e \in Codes : kept[e] = run[x].svc => order[e] < order[run[x].code]

\* An instance that has been aborted or taken down inside an exchange may
\* still lose the credential of that exchange, and no other.
AtRisk(x) ==
  \/ InExchange(x) /\ x \in aborted
  \/ (InExchange(x) \/ run[x].pc = "store") /\ run[x].svc \in Down

Risk == {s \in Services : \E x \in Runners : run[x].svc = s /\ AtRisk(x)}

Budget == errors + cut + Cardinality(Down)

LossInv == Cardinality(Lost) + Cardinality(Risk) <= Budget

GrantInv == AbortInv /\ OrderInv /\ HandInv /\ LossInv

\* What a step may do to the two sets and to the budget.
Settled ==
  Lost' \subseteq Lost /\ Risk' \subseteq Risk /\ Budget' \in {Budget, Budget + 1}

LostToFault ==
  \E d \in Codes : /\ Lost' \subseteq Lost \union {d} /\ Risk' \subseteq Risk
                   /\ Budget' = Budget + 1

LostAtRisk ==
  \E d \in Codes, s \in Risk :
    /\ Lost' \subseteq Lost \union {d} /\ Risk' \subseteq Risk \ {s}
    /\ Budget' = Budget

PutAtRisk ==
  \E s \in Services : /\ Lost' \subseteq Lost /\ Risk' \subseteq Risk \union {s}
                      /\ Budget' = Budget + 1

Accounted == Settled \/ LostToFault \/ LostAtRisk \/ PutAtRisk

LEMMA FiniteSets ==
  /\ IsFiniteSet(Lost) /\ IsFiniteSet(Risk) /\ IsFiniteSet(Down)
  /\ IsFiniteSet(Granted)
  /\ Cardinality(Lost) \in Nat /\ Cardinality(Risk) \in Nat
  /\ Cardinality(Down) \in Nat /\ Cardinality(Granted) \in Nat
<1>1. /\ Lost \in SUBSET Codes /\ Risk \in SUBSET Services
      /\ Down \in SUBSET Services /\ Granted \in SUBSET Codes
  BY DEF Lost, Risk, Down, Granted
<1>2. /\ IsFiniteSet(Lost) /\ IsFiniteSet(Risk) /\ IsFiniteSet(Down)
      /\ IsFiniteSet(Granted)
  BY <1>1, FS_Subset, AuthorizationAssumption
<1> QED
  BY <1>2, FS_CardinalityType

\* The cardinality of a set that gains or loses one element at most.
LEMMA Grows ==
  ASSUME NEW S, NEW T, NEW x, IsFiniteSet(S), T \subseteq S \union {x}
  PROVE  /\ IsFiniteSet(T) /\ Cardinality(T) \in Nat /\ Cardinality(S) \in Nat
         /\ Cardinality(T) <= Cardinality(S) + 1
<1>1. /\ IsFiniteSet(S \union {x}) /\ Cardinality(S) \in Nat
      /\ Cardinality(S \union {x}) <= Cardinality(S) + 1
      /\ Cardinality(S \union {x}) \in Nat
  BY FS_AddElement, FS_CardinalityType
<1>2. /\ IsFiniteSet(T) /\ Cardinality(T) <= Cardinality(S \union {x})
  BY <1>1, FS_Subset
<1> QED
  BY <1>1, <1>2, FS_CardinalityType

LEMMA Shrinks ==
  ASSUME NEW S, NEW T, IsFiniteSet(S), T \subseteq S
  PROVE  /\ IsFiniteSet(T) /\ Cardinality(T) \in Nat /\ Cardinality(S) \in Nat
         /\ Cardinality(T) <= Cardinality(S)
         /\ \A x \in S : T \subseteq S \ {x} => Cardinality(T) + 1 <= Cardinality(S)
<1>1. /\ IsFiniteSet(T) /\ Cardinality(T) <= Cardinality(S)
      /\ Cardinality(T) \in Nat /\ Cardinality(S) \in Nat
  BY FS_Subset, FS_CardinalityType
<1>2. ASSUME NEW x \in S, T \subseteq S \ {x}
      PROVE  Cardinality(T) + 1 <= Cardinality(S)
  <2>1. /\ IsFiniteSet(S \ {x}) /\ Cardinality(S \ {x}) = Cardinality(S) - 1
    BY FS_RemoveElement
  <2>2. Cardinality(T) <= Cardinality(S \ {x})
    BY <1>2, <2>1, FS_Subset
  <2> QED
    BY <1>1, <2>1, <2>2
<1> QED
  BY <1>1, <1>2

\* Whatever is accounted for keeps the books in balance.
LEMMA Balance ==
  ASSUME IInv, LossInv, Accounted
  PROVE  LossInv'
<1>0. Budget \in Nat
  BY FiniteSets, AuthorizationAssumption DEF Budget, IInv, TypeOK
<1>1. CASE Settled
  BY <1>0, <1>1, FiniteSets, Shrinks DEF Settled, LossInv
<1>2. CASE LostToFault
  <2>1. Cardinality(Lost') <= Cardinality(Lost) + 1 /\ Cardinality(Lost') \in Nat
    BY <1>2, FiniteSets, Grows DEF LostToFault
  <2>2. Cardinality(Risk') <= Cardinality(Risk) /\ Cardinality(Risk') \in Nat
    BY <1>2, FiniteSets, Shrinks DEF LostToFault
  <2> QED
    BY <1>0, <1>2, <2>1, <2>2, FiniteSets DEF LostToFault, LossInv
<1>3. CASE LostAtRisk
  <2>1. Cardinality(Lost') <= Cardinality(Lost) + 1 /\ Cardinality(Lost') \in Nat
    BY <1>3, FiniteSets, Grows DEF LostAtRisk
  <2>2. Cardinality(Risk') + 1 <= Cardinality(Risk) /\ Cardinality(Risk') \in Nat
    BY <1>3, FiniteSets, Shrinks DEF LostAtRisk
  <2> QED
    BY <1>0, <1>3, <2>1, <2>2, FiniteSets DEF LostAtRisk, LossInv
<1>4. CASE PutAtRisk
  <2>1. Cardinality(Lost') <= Cardinality(Lost) /\ Cardinality(Lost') \in Nat
    BY <1>4, FiniteSets, Shrinks DEF PutAtRisk
  <2>2. Cardinality(Risk') <= Cardinality(Risk) + 1 /\ Cardinality(Risk') \in Nat
    BY <1>4, FiniteSets, Grows DEF PutAtRisk
  <2> QED
    BY <1>0, <1>4, <2>1, <2>2, FiniteSets DEF PutAtRisk, LossInv
<1> QED
  BY <1>1, <1>2, <1>3, <1>4 DEF Accounted

\* Nothing is granted or stored, and nothing new is in hand.
LEMMA HandStep ==
  ASSUME IInv, OrderInv, HandInv, UNCHANGED <<kept, order>>,
         \A d \in Codes : status[d] = "used" => status'[d] = "used",
         \A x \in Runners : InHand(x)' =>
           InHand(x) /\ run'[x].svc = run[x].svc /\ run'[x].code = run[x].code
  PROVE  OrderInv' /\ HandInv'
<1>1. Granted' = Granted
  BY DEF Granted
<1>2. \A x \in Runners : InHand(x) => run[x].code \in Codes
  BY DEF IInv, ChecksInv, Running, InHand
<1> QED
  BY <1>1, <1>2 DEF OrderInv, HandInv

\* What stays in hand is not lost; what leaves the hand of r may be.
LEMMA LostStep ==
  ASSUME UNCHANGED kept,
         \A d \in Codes : status'[d] = "used" => status[d] = "used",
         NEW r \in Runners,
         \A x \in Runners \ {r} : InHand(x) =>
           InHand(x)' /\ run'[x].code = run[x].code
  PROVE  /\ Lost' \subseteq Lost \union {run[r].code}
         /\ ~InHand(r) \/ (InHand(r)' /\ run'[r].code = run[r].code) =>
              Lost' \subseteq Lost
BY DEF Lost, InHand

LEMMA RiskStep ==
  ASSUME \A x \in Runners : AtRisk(x)' => AtRisk(x) /\ run'[x].svc = run[x].svc
  PROVE  Risk' \subseteq Risk
BY DEF Risk

\* A runner that does not change, or that holds nothing and risks nothing.
Meek(x) ==
  run'[x] = run[x] \/ (~InHand(x) /\ ~InHand(x)' /\ ~AtRisk(x)')

LEMMA CalmIsMeek ==
  ASSUME NEW x \in Runners, Calm(x)
  PROVE  Meek(x)
BY DEF Calm, Meek, Still, InHand, AtRisk, InExchange

LEMMA MeekStep ==
  ASSUME IInv, OrderInv, HandInv, UNCHANGED <<kept, order>>,
         \A d \in Codes : status[d] = "used" <=> status'[d] = "used",
         \A x \in Runners : Meek(x), aborted' \subseteq aborted, Down' = Down,
         Services # {}
  PROVE  OrderInv' /\ HandInv' /\ Lost' \subseteq Lost /\ Risk' \subseteq Risk
<1>1. OrderInv' /\ HandInv'
  BY HandStep DEF Meek, InHand
<1>2. Lost' \subseteq Lost
  BY LostStep DEF Meek, InHand, Runners
<1>3. Risk' \subseteq Risk
  BY RiskStep DEF Meek, AtRisk, InExchange
<1> QED
  BY <1>1, <1>2, <1>3

----------------------------------------------------------------------------
(* The effect of each action on the grants.                                 *)

\* The steps in which nothing leaves a check.
LEMMA CalmSteps ==
  ASSUME IInv, GrantInv,
         \/ \E d \in Codes : OwnerDecides(d) \/ Lapse(d)
         \/ \E t \in Starters : \/ \E d \in Codes : CreateDevice(t, d)
                               \/ SavePending(t) \/ StartFails(t)
         \/ UNCHANGED vars
  PROVE  AbortInv' /\ OrderInv' /\ HandInv' /\ Settled
<1>1. /\ UNCHANGED <<run, kept, order, aborted, life, cut>>
      /\ errors' \in {errors, errors + 1}
  BY DEF OwnerDecides, Lapse, CreateDevice, SavePending, StartFails, Fault,
         vars, files, service, server
<1>2. \A d \in Codes : status[d] = "used" <=> status'[d] = "used"
  BY DEF OwnerDecides, Lapse, CreateDevice, SavePending, StartFails, vars,
         server, IInv, TypeOK
<1>3. Down' = Down
  BY <1>1 DEF Down
<1>4. AbortInv'
  BY <1>1 DEF GrantInv, AbortInv
<1>5. OrderInv' /\ HandInv' /\ Lost' \subseteq Lost /\ Risk' \subseteq Risk
  BY <1>1, <1>2, <1>3, MeekStep, AuthorizationAssumption DEF GrantInv, Meek
<1>6. Budget' \in {Budget, Budget + 1}
  BY <1>1, <1>3, FiniteSets DEF Budget, IInv, TypeOK
<1> QED
  BY <1>4, <1>5, <1>6 DEF Settled

LEMMA ToolSteps ==
  ASSUME IInv, GrantInv,
         \/ \E k \in Checkers, s \in Services : ToolCheck(k, s)
         \/ \E s \in Services : Wake(s)
  PROVE  AbortInv' /\ OrderInv' /\ HandInv' /\ Settled
<1>1. UNCHANGED <<status, kept, order, cut, errors>>
  BY DEF ToolCheck, Wake, server, files
<1>2. PICK r \in Runners, s \in Services :
        run[r].pc \in {"idle", "sleep"} /\ Check(r, s)
  BY DEF ToolCheck, Wake, Asleep, Runners
<1>3. /\ \A x \in Runners \ {r} : Calm(x)
      /\ \/ run'[r].pc \in Still
         \/ /\ run'[r].pc \in {"sent", "drop"} /\ run'[r].svc = s
            /\ Up(s) /\ r \notin aborted
      /\ Down' = Down
      /\ aborted' \subseteq aborted
      /\ AbortInv'
  BY <1>2, CheckRuns DEF GrantInv
<1>4. Meek(r)
  BY <1>2, <1>3 DEF Meek, InHand, AtRisk, InExchange, Still, Up, Down
<1>5. OrderInv' /\ HandInv' /\ Lost' \subseteq Lost /\ Risk' \subseteq Risk
  BY <1>1, <1>3, <1>4, CalmIsMeek, MeekStep, AuthorizationAssumption DEF GrantInv
<1>6. Budget' = Budget
  BY <1>1, <1>3 DEF Budget
<1> QED
  BY <1>3, <1>5, <1>6 DEF Settled

\* A task that is in no check starts or ends.
LEMMA TaskSteps ==
  ASSUME IInv, GrantInv, NEW s \in Services, TaskMoves(s),
         UNCHANGED <<status, kept, order, cut, errors, aborted>>, Down' = Down
  PROVE  AbortInv' /\ OrderInv' /\ HandInv' /\ Settled
<1>1. /\ \A x \in Runners : Calm(x)
      /\ \A x \in aborted : run'[x] = run[x]
  BY TaskRuns DEF GrantInv
<1>2. AbortInv'
  BY <1>1 DEF GrantInv, AbortInv
<1>3. OrderInv' /\ HandInv' /\ Lost' \subseteq Lost /\ Risk' \subseteq Risk
  BY <1>1, CalmIsMeek, MeekStep, AuthorizationAssumption DEF GrantInv
<1>4. Budget' = Budget
  BY DEF Budget
<1> QED
  BY <1>2, <1>3, <1>4 DEF Settled

\* start() aborts a task: its exchange is at risk, and counted in `cut`.
LEMMA CancelSteps ==
  ASSUME IInv, GrantInv, NEW t \in Starters, NEW s \in Services, NEW q,
         CancelTask(t, s, q), UNCHANGED <<status, kept, order, errors, life>>
  PROVE  AbortInv' /\ OrderInv' /\ HandInv' /\ (Settled \/ PutAtRisk)
<1>0. s \in Runners /\ Down' = Down
  BY DEF Runners, Down
<1>1. CASE ~(HasTask(s) /\ ~Asleep(s))
  <2>1. TaskMoves(s) /\ UNCHANGED <<aborted, cut>>
    BY <1>1 DEF CancelTask, TaskMoves, HasTask, Asleep
  <2> QED
    BY <1>0, <2>1, TaskSteps
<1>2. CASE HasTask(s) /\ ~Asleep(s)
  <2>1. /\ aborted' = aborted \union {s} /\ run' = run
        /\ cut' = IF InExchange(s) /\ s \notin aborted THEN cut + 1 ELSE cut
    BY <1>2 DEF CancelTask
  <2>2. AbortInv'
    BY <1>2, <2>1 DEF GrantInv, AbortInv, HasTask, Asleep
  <2>3. OrderInv' /\ HandInv'
    BY <2>1, HandStep DEF GrantInv, InHand
  <2>4. Lost' \subseteq Lost
    BY <1>0, <2>1, LostStep DEF InHand
  <2>5. CASE InExchange(s) /\ s \notin aborted
    <3>1. \A x \in Runners : AtRisk(x)' => AtRisk(x) \/ x = s
      BY <1>0, <2>1 DEF AtRisk, InExchange
    <3>2. Risk' \subseteq Risk \union {s}
      BY <1>0, <2>1, <3>1 DEF Risk, IInv, TaskInv
    <3>3. Budget' = Budget + 1
      BY <1>0, <2>1, <2>5, FiniteSets DEF Budget, IInv, TypeOK
    <3> QED
      BY <2>2, <2>3, <2>4, <3>2, <3>3 DEF PutAtRisk
  <2>6. CASE ~(InExchange(s) /\ s \notin aborted)
    <3>1. \A x \in Runners : AtRisk(x)' => AtRisk(x)
      BY <1>0, <2>1, <2>6 DEF AtRisk, InExchange
    <3>2. Risk' \subseteq Risk
      BY <2>1, <3>1, RiskStep
    <3>3. Budget' = Budget
      BY <1>0, <2>1, <2>6 DEF Budget
    <3> QED
      BY <2>2, <2>3, <2>4, <3>2, <3>3 DEF Settled
  <2> QED
    BY <2>5, <2>6
<1> QED
  BY <1>1, <1>2

LEMMA StartSteps ==
  ASSUME IInv, GrantInv,
         \/ \E t \in Starters, s \in Services, q \in Requests :
              StartReuses(t, s, q) \/ StartReplaces(t, s, q)
         \/ \E t \in Starters : DeleteLapsed(t) \/ StartReturns(t)
  PROVE  AbortInv' /\ OrderInv' /\ HandInv' /\ (Settled \/ PutAtRisk)
<1>1. ASSUME NEW t \in Starters, NEW s \in Services, NEW q,
             \/ StartReuses(t, s, q) \/ StartReplaces(t, s, q)
             \/ DeleteLapsed(t) /\ s = begin[t].svc /\ q = begin[t].request
             \/ StartReturns(t) /\ s = begin[t].svc
      PROVE  AbortInv' /\ OrderInv' /\ HandInv' /\ (Settled \/ PutAtRisk)
  <2>1. UNCHANGED <<status, kept, order, errors, life>>
    BY <1>1 DEF StartReuses, StartReplaces, DeleteLapsed, StartReturns, server,
                files, service
  <2>2. CASE CancelTask(t, s, q)
    BY <2>1, <2>2, CancelSteps
  <2>3. CASE TaskMoves(s) /\ UNCHANGED <<aborted, cut>>
    BY <2>1, <2>3, TaskSteps DEF Down
  <2>4. CancelTask(t, s, q) \/ (TaskMoves(s) /\ UNCHANGED <<aborted, cut>>)
    BY <1>1, StartTaskMoves DEF StartReuses, StartReplaces, DeleteLapsed,
                                StartReturns, service, TaskMoves
  <2> QED
    BY <2>2, <2>3, <2>4
<1>2. \A t \in Starters : begin[t].svc \in Services
  BY DEF IInv, BeginInv, Coded, Starts
<1> QED
  BY <1>1, <1>2

\* An instance that is stopped or crashes may lose what it has in hand.
LEMMA InstanceSteps ==
  ASSUME IInv, GrantInv, NEW s \in Services, Boot(s) \/ Stop(s) \/ Crash(s)
  PROVE  AbortInv' /\ OrderInv' /\ HandInv' /\ Accounted
<1>0. s \in Runners /\ UNCHANGED <<status, kept, order, cut, errors>>
  BY DEF Runners, Boot, Stop, Crash, server, files
<1>1. CASE Boot(s)
  <2>1. TaskMoves(s) /\ aborted' = aborted
    BY <1>1, StartTaskMoves DEF Boot
  <2>2. Down' = Down
    BY <1>1 DEF Boot, Down, IInv, TypeOK
  <2> QED
    BY <1>0, <2>1, <2>2, TaskSteps DEF Accounted
<1>2. ASSUME s \notin Down, Down' = Down \union {s}
      PROVE  Budget' = Budget + 1
  <2>1. Cardinality(Down') = Cardinality(Down) + 1
    BY <1>2, FiniteSets, FS_AddElement
  <2> QED
    BY <1>0, <2>1, FiniteSets DEF Budget, IInv, TypeOK
<1>3. CASE Stop(s)
  <2>1. /\ TaskMoves(s)
        /\ \/ aborted' = aborted
           \/ aborted' = aborted \union {s} /\ HasTask(s) /\ ~Asleep(s)
              /\ run' = run
    BY <1>3 DEF Stop, TaskMoves, HasTask, Asleep
  <2>2. s \notin Down /\ Down' = Down \union {s}
    BY <1>3 DEF Stop, Up, Down, IInv, TypeOK
  <2>3. /\ \A x \in Runners : Calm(x)
        /\ \A x \in aborted : run'[x] = run[x]
    BY <2>1, TaskRuns DEF GrantInv
  <2>4. AbortInv'
    BY <2>1, <2>3 DEF GrantInv, AbortInv, HasTask, Asleep
  <2>5. OrderInv' /\ HandInv'
    BY <1>0, <2>3, HandStep DEF GrantInv, Calm, Still, InHand
  <2>6. Lost' \subseteq Lost
    BY <1>0, <2>3, LostStep DEF Calm, Still, InHand
  <2>7. Risk' \subseteq Risk \union {s}
    <3>1. ASSUME NEW x \in Runners, AtRisk(x)'
          PROVE  run'[x] = run[x] /\ (AtRisk(x) \/ run[x].svc = s)
      <4>1. run'[x] = run[x]
        BY <2>3, <3>1 DEF Calm, Still, AtRisk, InExchange
      <4> QED
        BY <2>1, <2>2, <3>1, <4>1 DEF AtRisk, InExchange, IInv, TaskInv
    <3> QED
      BY <3>1 DEF Risk
  <2> QED
    BY <1>2, <2>2, <2>4, <2>5, <2>6, <2>7 DEF Accounted, PutAtRisk
<1>4. CASE Crash(s)
  <2>1. /\ \A x \in Runners : IF run[x].svc = s THEN run'[x] = Idle(s)
                                ELSE run'[x] = run[x]
        /\ aborted' = aborted \ {s} /\ Down' = Down \union {s}
        /\ run \in [Runners -> Runs]
    BY <1>4 DEF Crash, Down, IInv, TypeOK
  <2>2. AbortInv'
    BY <2>1 DEF GrantInv, AbortInv, IInv, TypeOK, TaskInv, Runners
  <2>3. OrderInv' /\ HandInv'
    BY <1>0, <2>1, IdleIsRun, HandStep DEF GrantInv, InHand
  <2>4. ASSUME NEW x \in Runners, AtRisk(x)'
        PROVE  AtRisk(x) /\ run'[x].svc = run[x].svc /\ run[x].svc # s
    <3>1. run[x].svc # s
      BY <2>1, <2>4, IdleIsRun DEF AtRisk, InExchange
    <3>2. run'[x] = run[x]
      BY <2>1, <3>1
    <3>3. run[x].svc \in Down' => run[x].svc \in Down
      BY <2>1, <3>1
    <3> QED
      BY <2>1, <2>4, <3>1, <3>2, <3>3 DEF AtRisk, InExchange
  <2>5. Risk' \subseteq Risk \ {s}
    BY <2>4 DEF Risk
  <2>6. CASE \E r \in Runners : run[r].svc = s /\ InHand(r)
    <3>1. PICK r \in Runners : run[r].svc = s /\ InHand(r)
      BY <2>6
    <3>2. run[r].code \in Codes
      BY <3>1 DEF IInv, ChecksInv, Running, InHand
    <3>3. \A x \in Runners \ {r} : InHand(x) => run[x].svc # s
      BY <3>1 DEF IInv, ChecksInv, Running, InHand
    <3>4. Lost' \subseteq Lost \union {run[r].code}
      BY <1>0, <2>1, <3>3, LostStep DEF InHand
    <3>5. CASE s \in Down
      <4>1. s \in Risk
        BY <3>1, <3>5 DEF Risk, AtRisk, InHand, InExchange
      <4>2. Budget' = Budget
        <5>1. Down' = Down
          BY <2>1, <3>5
        <5> QED
          BY <1>0, <5>1 DEF Budget
      <4> QED
        BY <2>2, <2>3, <2>5, <3>2, <3>4, <4>1, <4>2 DEF Accounted, LostAtRisk
    <3>6. CASE s \notin Down
      BY <1>2, <2>1, <2>2, <2>3, <2>5, <3>2, <3>4, <3>6
         DEF Accounted, LostToFault
    <3> QED
      BY <3>5, <3>6
  <2>7. CASE ~ \E r \in Runners : run[r].svc = s /\ InHand(r)
    <3>1. Lost' \subseteq Lost
      BY <1>0, <2>1, <2>7, LostStep DEF InHand
    <3>2. Budget' \in {Budget, Budget + 1}
      <4>1. CASE s \in Down
        <5>1. Down' = Down
          BY <2>1, <4>1
        <5> QED
          BY <1>0, <5>1 DEF Budget
      <4>2. CASE s \notin Down
        BY <1>2, <2>1, <4>2
      <4> QED
        BY <4>1, <4>2
    <3> QED
      BY <2>2, <2>3, <2>5, <3>1, <3>2 DEF Accounted, Settled
  <2> QED
    BY <2>6, <2>7
<1> QED
  BY <1>1, <1>3, <1>4

\* A check ends; a credential in hand is lost to a failure, or to the abort
\* that has put it at risk.
LEMMA EndSteps ==
  ASSUME IInv, GrantInv, NEW r \in Runners,
         \/ ReceivePending(r) \/ RemoveCompleted(r)
         \/ RemoveRefused(r) \/ CheckFails(r)
  PROVE  AbortInv' /\ OrderInv' /\ HandInv' /\ Accounted
<1>1. /\ \E result : EndCheck(r, result)
      /\ UNCHANGED <<status, kept, order, cut>>
      /\ Running(r)
      /\ \/ errors' = errors + 1
         \/ errors' = errors /\ (InHand(r) => r \in aborted)
  BY DEF ReceivePending, RemoveCompleted, Completed, RemoveRefused, CheckFails,
         Fault, files, server, Running, InHand, InExchange, Open
<1>2. /\ \A x \in Runners \ {r} : Calm(x)
      /\ run'[r].pc \in Still
      /\ Down' = Down
      /\ aborted' \subseteq aborted
      /\ AbortInv'
  BY <1>1, EndCheckRuns DEF GrantInv
<1>3. OrderInv' /\ HandInv'
  BY <1>1, <1>2, HandStep DEF GrantInv, Calm, Still, InHand
<1>4. /\ Lost' \subseteq Lost \union {run[r].code}
      /\ ~InHand(r) => Lost' \subseteq Lost
  BY <1>1, <1>2, LostStep DEF Calm, Still, InHand
<1>5. ASSUME NEW x \in Runners, AtRisk(x)'
      PROVE  AtRisk(x) /\ run'[x].svc = run[x].svc /\ x # r
  BY <1>2, <1>5 DEF Calm, Still, AtRisk, InExchange
<1>6. Risk' \subseteq Risk
  BY <1>5, RiskStep
<1>7. Budget' = Budget + (errors' - errors)
  BY <1>1, <1>2, FiniteSets DEF Budget, IInv, TypeOK
<1>8. Budget \in Nat /\ errors \in Nat /\ run[r].code \in Codes
      /\ run[r].svc \in Services
  BY <1>1, FiniteSets DEF Budget, IInv, TypeOK, ChecksInv, Runs
<1>9. CASE errors' = errors + 1
  <2>1. Budget' = Budget + 1
    BY <1>7, <1>8, <1>9
  <2> QED
    BY <1>2, <1>3, <1>4, <1>6, <1>8, <2>1 DEF Accounted, LostToFault
<1>10. CASE errors' = errors
  <2>1. Budget' = Budget
    BY <1>7, <1>8, <1>10
  <2>2. CASE ~InHand(r)
    BY <1>2, <1>3, <1>4, <1>6, <2>1, <2>2 DEF Accounted, Settled
  <2>3. CASE InHand(r)
    <3> DEFINE s == run[r].svc
    <3>1. AtRisk(r)
      <4>1. r \in aborted /\ run[r].pc # "store"
        BY <1>1, <1>8, <1>10, <2>3
           DEF ReceivePending, RemoveCompleted, Completed, RemoveRefused,
               CheckFails, Fault, InHand, InExchange, Open
      <4> QED
        BY <2>3, <4>1 DEF AtRisk, InHand, InExchange
    <3>2. s \in Risk
      BY <1>8, <3>1 DEF Risk
    <3>3. s \notin Risk'
      <4>1. ASSUME NEW x \in Runners, run'[x].svc = s, AtRisk(x)'
            PROVE  FALSE
        <5>1. AtRisk(x) /\ run[x].svc = s /\ x # r
          BY <1>5, <4>1
        <5>2. Running(x)
          BY <5>1 DEF AtRisk, InExchange, Running
        <5> QED
          BY <1>1, <5>1, <5>2 DEF IInv, ChecksInv
      <4> QED
        BY <4>1 DEF Risk
    <3> QED
      BY <1>2, <1>3, <1>4, <1>6, <1>8, <2>1, <3>2, <3>3
         DEF Accounted, LostAtRisk
  <2> QED
    BY <2>2, <2>3
<1> QED
  BY <1>1, <1>9, <1>10

LEMMA GotoRuns ==
  ASSUME IInv, NEW r \in Runners, NEW pc, run' = [run EXCEPT ![r].pc = pc]
  PROVE  /\ \A x \in Runners \ {r} : run'[x] = run[x]
         /\ run'[r].pc = pc /\ run'[r].svc = run[r].svc
         /\ run'[r].code = run[r].code
<1>1. run[r] \in Runs /\ run \in [Runners -> Runs]
  BY DEF IInv, TypeOK
<1>2. run'[r] = [run[r] EXCEPT !.pc = pc]
  BY <1>1
<1> QED
  BY <1>1, <1>2 DEF Runs

\* The server answers; a grant is the newest of all.
LEMMA AnswerStep ==
  ASSUME IInv, GrantInv, NEW r \in Runners, Answer(r)
  PROVE  AbortInv' /\ OrderInv' /\ HandInv' /\ Settled
<1> DEFINE d == run[r].code
<1>1. PICK pc \in {"granted", "unsettled", "refused"} :
        /\ run' = [run EXCEPT ![r].pc = pc]
        /\ IF pc = "granted"
           THEN /\ status[d] = "approved"
                /\ status' = [status EXCEPT ![d] = "used"]
                /\ order' = [order EXCEPT ![d] = 1 + Cardinality(Granted)]
           ELSE UNCHANGED <<status, order>>
  BY DEF Answer, Granted
<1>2. /\ UNCHANGED <<kept, aborted, life, cut, errors>>
      /\ run[r].pc = "sent" /\ d \in Codes
  BY DEF Answer, files, service, IInv, ChecksInv, Running
<1>3. /\ \A x \in Runners \ {r} : run'[x] = run[x]
      /\ run'[r].pc = pc /\ run'[r].svc = run[r].svc /\ run'[r].code = d
  BY <1>1, GotoRuns
<1>4. Down' = Down /\ Budget' = Budget
  BY <1>2 DEF Down, Budget
<1>5. AbortInv'
  BY <1>2, <1>3 DEF GrantInv, AbortInv, IInv, TypeOK, Runners
<1>6. Risk' \subseteq Risk
  BY <1>2, <1>3, <1>4, RiskStep DEF AtRisk, InExchange
<1>7. CASE pc # "granted"
  <2>1. UNCHANGED <<status, order>> /\ ~InHand(r)'
    BY <1>1, <1>3, <1>7 DEF InHand
  <2>2. OrderInv' /\ HandInv'
    BY <1>2, <1>3, <2>1, HandStep DEF GrantInv, InHand
  <2>3. Lost' \subseteq Lost
    BY <1>2, <1>3, <2>1, LostStep DEF InHand
  <2> QED
    BY <1>4, <1>5, <1>6, <2>2, <2>3 DEF Settled
<1>8. CASE pc = "granted"
  <2>1. /\ status[d] = "approved"
        /\ status' = [status EXCEPT ![d] = "used"]
        /\ order' = [order EXCEPT ![d] = 1 + Cardinality(Granted)]
    BY <1>1, <1>8
  <2>2. order[d] = 0 /\ kept[d] = None
    BY <1>2, <2>1 DEF GrantInv, OrderInv, IInv, TypeOK
  <2>5. ASSUME NEW e \in Codes
        PROVE  /\ order'[e] = IF e = d THEN 1 + Cardinality(Granted) ELSE order[e]
               /\ status'[e] = IF e = d THEN "used" ELSE status[e]
               /\ order[e] <= Cardinality(Granted) /\ order[e] \in Nat
    BY <1>2, <2>1 DEF GrantInv, OrderInv, IInv, TypeOK
  <2>3. Granted' = Granted \union {d} /\ d \notin Granted
    <3>1. 1 + Cardinality(Granted) > 0
      BY FiniteSets
    <3>2. Granted' = {e \in Codes : order'[e] > 0}
      BY DEF Granted
    <3>3. \A e \in Codes : order'[e] > 0 <=> (e = d \/ order[e] > 0)
      BY <2>5, <3>1
    <3> QED
      BY <1>2, <2>2, <3>2, <3>3 DEF Granted
  <2>4. Cardinality(Granted') = Cardinality(Granted) + 1
    BY <2>3, FiniteSets, FS_AddElement
  <2>6. OrderInv'
    BY <1>2, <2>4, <2>5, FiniteSets DEF GrantInv, OrderInv
  <2>7. ASSUME NEW x \in Runners, InHand(x)'
        PROVE  /\ status'[run'[x].code] = "used"
               /\ \A e \in Codes : kept'[e] = run'[x].svc =>
                    order'[e] < order'[run'[x].code]
    <3>1. \A e \in Codes : kept[e] = run[x].svc => e # d
      BY <1>2, <2>2, AuthorizationAssumption DEF IInv, TypeOK, Runs, Runners
    <3>2. CASE x = r
      BY <1>2, <1>3, <2>5, <3>1, <3>2, FiniteSets
    <3>3. CASE x # r
      <4>1. InHand(x) /\ run'[x] = run[x]
        BY <1>3, <2>7, <3>3 DEF InHand
      <4>2. run[x].code \in Codes /\ status[run[x].code] = "used"
        BY <4>1 DEF GrantInv, HandInv, IInv, ChecksInv, Running, InHand
      <4> QED
        BY <1>2, <2>1, <2>5, <3>1, <4>1, <4>2 DEF GrantInv, HandInv
    <3> QED
      BY <3>2, <3>3
  <2>8. HandInv'
    BY <2>7 DEF HandInv
  <2>9. Lost' \subseteq Lost
    <3>1. ASSUME NEW e \in Lost'
          PROVE  e \in Lost
      <4>1. e \in Codes /\ e # d
        BY <1>3, <1>8, <3>1 DEF Lost
      <4> QED
        BY <1>2, <1>3, <2>5, <3>1, <4>1 DEF Lost
    <3> QED
      BY <3>1
  <2> QED
    BY <1>4, <1>5, <1>6, <2>6, <2>8, <2>9 DEF Settled
<1> QED
  BY <1>7, <1>8

\* An answer is received; a foreign credential is dropped, which is a fault.
LEMMA ReceiveSteps ==
  ASSUME IInv, GrantInv, NEW r \in Runners,
         \/ ReceiveRefusal(r) \/ ReceiveCredential(r) \/ ReceiveForeign(r)
         \/ Activated(r)
  PROVE  AbortInv' /\ OrderInv' /\ HandInv' /\ (Settled \/ LostToFault)
<1>1. PICK pc \in {"drop", "store", "remove"} :
        /\ run' = [run EXCEPT ![r].pc = pc]
        /\ pc = "store" => run[r].pc = "granted"
        /\ pc = "store" => r \notin aborted
        /\ InHand(r) /\ pc # "store" => errors' = errors + 1
  BY DEF ReceiveRefusal, ReceiveCredential, ReceiveForeign, Activated, Goto,
         Fault, InHand, Open, IInv, TypeOK
<1>2. /\ UNCHANGED <<status, order, kept, aborted, life, cut>>
      /\ errors' \in {errors, errors + 1}
      /\ Running(r)
  BY DEF ReceiveRefusal, ReceiveCredential, ReceiveForeign, Activated, Goto,
         Fault, Running, server, files, service
<1>3. /\ \A x \in Runners \ {r} : run'[x] = run[x]
      /\ run'[r].pc = pc /\ run'[r].svc = run[r].svc
      /\ run'[r].code = run[r].code
  BY <1>1, GotoRuns
<1>4. Down' = Down /\ run[r].code \in Codes
  BY <1>2 DEF Down, IInv, ChecksInv
<1>5. AbortInv'
  BY <1>2, <1>3 DEF GrantInv, AbortInv, IInv, TypeOK, Runners
<1>6. OrderInv' /\ HandInv'
  BY <1>1, <1>2, <1>3, HandStep DEF GrantInv, InHand
<1>7. Risk' \subseteq Risk
  <2>1. ASSUME NEW x \in Runners, AtRisk(x)'
        PROVE  AtRisk(x) /\ run'[x].svc = run[x].svc
    <3>1. CASE x = r
      BY <1>1, <1>2, <1>3, <1>4, <2>1, <3>1 DEF AtRisk, InExchange
    <3>2. CASE x # r
      BY <1>2, <1>3, <1>4, <2>1, <3>2 DEF AtRisk, InExchange
    <3> QED
      BY <3>1, <3>2
  <2> QED
    BY <2>1, RiskStep
<1>8. /\ Lost' \subseteq Lost \union {run[r].code}
      /\ ~InHand(r) \/ pc = "store" => Lost' \subseteq Lost
  BY <1>1, <1>2, <1>3, LostStep DEF InHand
<1>9. /\ Budget' \in {Budget, Budget + 1}
      /\ errors' = errors + 1 => Budget' = Budget + 1
  BY <1>2, <1>4, FiniteSets DEF Budget, IInv, TypeOK
<1> QED
  BY <1>1, <1>4, <1>5, <1>6, <1>7, <1>8, <1>9 DEF Settled, LostToFault

\* The credential is stored.
LEMMA StoreStep ==
  ASSUME IInv, GrantInv, NEW r \in Runners, StoreCredential(r)
  PROVE  /\ AbortInv' /\ OrderInv' /\ HandInv' /\ Settled
         /\ \A d \in Codes : kept'[d] # kept[d] =>
              \A e \in Codes : kept[e] = kept'[d] => order[e] < order[d]
<1> DEFINE c == run[r].code
           s == run[r].svc
<1>1. /\ run' = [run EXCEPT ![r].pc = "activate"] /\ run[r].pc = "store"
      /\ kept' = [kept EXCEPT ![c] = s]
      /\ UNCHANGED <<status, order, aborted, life, cut, errors>>
  BY DEF StoreCredential, Goto, server, service
<1>2. /\ \A x \in Runners \ {r} : run'[x] = run[x]
      /\ run'[r].pc = "activate" /\ run'[r].svc = s /\ run'[r].code = c
  BY <1>1, GotoRuns
<1>3. /\ c \in Codes /\ s \in Services /\ InHand(r) /\ status[c] = "used"
      /\ \A e \in Codes : kept[e] = s => order[e] < order[c]
  BY <1>1 DEF IInv, TypeOK, Runs, ChecksInv, Running, InHand, GrantInv, HandInv
<1>4. /\ Down' = Down /\ Budget' = Budget /\ Granted' = Granted
  BY <1>1 DEF Down, Budget, Granted
<1>5. \A e \in Codes : kept'[e] = IF e = c THEN s ELSE kept[e]
  BY <1>1, <1>3 DEF IInv, TypeOK
<1>6. AbortInv'
  BY <1>1, <1>2 DEF GrantInv, AbortInv, IInv, TypeOK, Runners
<1>7. OrderInv'
  BY <1>1, <1>3, <1>4, <1>5 DEF GrantInv, OrderInv
<1>8. HandInv'
  <2>1. ASSUME NEW x \in Runners, InHand(x)'
        PROVE  /\ status'[run'[x].code] = "used"
               /\ \A e \in Codes : kept'[e] = run'[x].svc =>
                    order'[e] < order'[run'[x].code]
    <3>1. x # r /\ run'[x] = run[x] /\ InHand(x)
      BY <1>2, <2>1 DEF InHand
    <3>2. run[x].svc # s
      BY <1>3, <3>1 DEF IInv, ChecksInv, Running, InHand
    <3> QED
      BY <1>1, <1>5, <3>1, <3>2 DEF GrantInv, HandInv
  <2> QED
    BY <2>1 DEF HandInv
<1>9. Risk' \subseteq Risk
  BY <1>1, <1>2, <1>4, RiskStep DEF AtRisk, InExchange
<1>10. Lost' \subseteq Lost
  <2>1. ASSUME NEW e \in Lost'
        PROVE  e \in Lost
    <3>1. e \in Codes /\ e # c /\ kept[e] = None /\ status[e] = "used"
      BY <1>1, <1>3, <1>5, <2>1, AuthorizationAssumption DEF Lost, Runners
    <3> QED
      BY <1>2, <2>1, <3>1 DEF Lost
  <2> QED
    BY <2>1
<1> QED
  BY <1>3, <1>4, <1>5, <1>6, <1>7, <1>8, <1>9, <1>10 DEF Settled

----------------------------------------------------------------------------
LEMMA GrantInit == Init => GrantInv
<1> SUFFICES ASSUME Init PROVE GrantInv
  OBVIOUS
<1>1. IInv
  BY InitInv
<1>2. \A r \in Runners : run[r].pc = "idle"
  <2> DEFINE s0 == CHOOSE s \in Services : TRUE
  <2>1. s0 \in Services
    BY AuthorizationAssumption
  <2>2. run = [r \in Runners |-> Idle(IF r \in Services THEN r ELSE s0)]
    BY DEF Init
  <2> HIDE DEF s0
  <2> QED
    BY <2>1, <2>2, IdleIsRun
<1>3. AbortInv /\ OrderInv /\ HandInv
  BY <1>2, FiniteSets DEF Init, AbortInv, OrderInv, HandInv, InHand
<1>4. Lost = {} /\ Risk = {} /\ Down = {}
  BY <1>2 DEF Init, Lost, Risk, AtRisk, InExchange, Down
<1>5. LossInv
  BY <1>4, FS_EmptySet DEF Init, LossInv, Budget
<1> QED
  BY <1>3, <1>5 DEF GrantInv

LEMMA GrantNext ==
  ASSUME IInv, GrantInv, [Next]_vars
  PROVE  GrantInv'
<1>1. AbortInv' /\ OrderInv' /\ HandInv' /\ Accounted
  BY CalmSteps, ToolSteps, StartSteps, InstanceSteps, EndSteps, AnswerStep,
     ReceiveSteps, StoreStep
     DEF Next, CheckStep, StartStep, Accounted
<1>2. LossInv'
  BY <1>1, Balance DEF GrantInv
<1> QED
  BY <1>1, <1>2 DEF GrantInv

----------------------------------------------------------------------------
(* What an instance remembers as connected.                                 *)

\* The newest grant that instance s has stored.
NewestOf(s, d) == \A e \in Codes : kept[e] = s => order[e] <= order[d]

\* An instance remembers one it has stored; each newer one that it has stored
\* since is about to be remembered or has been given up; a check about to be
\* remembered has stored the newest; an instance that has not been booted has
\* done nothing.
NamesInv ==
  /\ \A s \in Services : connected[s] # None =>
       kept[connected[s]] = s /\ connected[s] \notin unreported
  /\ \A s \in Services, d \in Codes :
       Up(s) /\ kept[d] = s /\ d \notin unreported =>
         \/ connected[s] # None /\ order[d] <= order[connected[s]]
         \/ \E x \in Runners : Finishing(x) /\ run[x].svc = s /\ run[x].code = d
  /\ \A x \in Runners : Finishing(x) =>
       /\ kept[run[x].code] = run[x].svc /\ run[x].code \notin unreported
       /\ NewestOf(run[x].svc, run[x].code)
       /\ connected[run[x].svc] # run[x].code
  /\ \A s \in Services : life[s] = "new" =>
       /\ \A e \in Codes : kept[e] # s
       /\ \A x \in Runners : Running(x) => run[x].svc # s
       /\ connected[s] = None

\* A grant is in one hand at most, and is not stored yet; what has been given
\* up was stored.
HeldInv ==
  /\ \A x \in Runners : InHand(x) => kept[run[x].code] = None
  /\ \A x, y \in Runners :
       InHand(x) /\ InHand(y) /\ run[x].code = run[y].code => x = y
  /\ \A d \in unreported : kept[d] # None

\* A check on the way from the server's answer to the store.
Holds(x) ==
  InHand(x)' => /\ run'[x].code = run[x].code /\ Running(x)
                /\ InHand(x) \/ status[run[x].code] = "approved"

\* Codes given up by a step are those of the checks that it ends.
GivesUp ==
  /\ unreported \subseteq unreported'
  /\ \A d \in unreported' : \/ d \in unreported
                            \/ \E x \in Runners : /\ Finishing(x) /\ ~Finishing(x)'
                                                 /\ run[x].code = d

LEMMA HeldStep ==
  ASSUME IInv, OrderInv, HandInv, NamesInv, HeldInv, UNCHANGED kept, GivesUp,
         NEW r \in Runners, Holds(r), \A x \in Runners \ {r} : InHand(x)' =>
                                        InHand(x) /\ run'[x].code = run[x].code
  PROVE  HeldInv'
<1>1. \A x \in Runners : Running(x) => run[x].code \in Codes
  BY DEF IInv, ChecksInv
<1>2. \A x \in Runners : InHand(x) => status[run[x].code] = "used"
  BY DEF HandInv
<1>3. ASSUME NEW x \in Runners, InHand(x)'
      PROVE  kept[run'[x].code] = None
  <2>1. CASE InHand(x)
    BY <1>3, <2>1 DEF HeldInv, Holds
  <2>2. CASE ~InHand(x)
    BY <1>1, <1>3, <2>2 DEF Holds, OrderInv
  <2> QED
    BY <2>1, <2>2
<1>4. ASSUME NEW x \in Runners, NEW y \in Runners, InHand(x)', InHand(y)',
             run'[x].code = run'[y].code
      PROVE  x = y
  <2>1. run'[x].code = run[x].code /\ run'[y].code = run[y].code
    BY <1>4 DEF Holds
  <2>2. CASE InHand(x) /\ InHand(y)
    BY <1>4, <2>1, <2>2 DEF HeldInv
  <2>3. CASE ~(InHand(x) /\ InHand(y)) /\ x # y
    BY <1>2, <1>4, <2>1, <2>3 DEF Holds
  <2> QED
    BY <2>2, <2>3
<1>5. ASSUME NEW d \in unreported'
      PROVE  kept[d] # None
  <2>1. \A x \in Runners : Finishing(x) => kept[run[x].code] \in Services
    BY DEF NamesInv, IInv, TypeOK, Runs
  <2> QED
    BY <2>1, AuthorizationAssumption DEF GivesUp, HeldInv, Runners
<1> QED
  BY <1>3, <1>4, <1>5 DEF HeldInv

\* A step that stores nothing and reports nothing: a check that is about to
\* report goes on, is given up or goes down with its instance.
LEMMA NamesKept ==
  ASSUME IInv, NamesInv, UNCHANGED <<kept, connected>>, GivesUp,
         \A d \in Codes : kept[d] # None => order'[d] = order[d],
         \A s \in Services : /\ life'[s] = "up" => life[s] \in {"up", "new"}
                             /\ life'[s] = "new" => life[s] = "new",
         \A x \in Runners :
           /\ Finishing(x)' => /\ Finishing(x)
                               /\ run'[x].svc = run[x].svc
                               /\ run'[x].code = run[x].code
           /\ Finishing(x) => \/ /\ Finishing(x)'
                                 /\ run'[x].svc = run[x].svc
                                 /\ run'[x].code = run[x].code
                              \/ run[x].code \in unreported'
                              \/ life'[run[x].svc] # "up"
           /\ Running(x)' => \/ life[run'[x].svc] = "up"
                             \/ Running(x) /\ run'[x].svc = run[x].svc
  PROVE  NamesInv'
<1>0. /\ \A x \in Runners : run[x].svc \in Services /\ run[x].svc # None
      /\ \A x \in Runners : Finishing(x) => run[x].code \in Codes
      /\ \A x, y \in Runners :
           Finishing(x) /\ Finishing(y) /\ run[x].svc = run[y].svc => x = y
      /\ None \notin Services
  BY AuthorizationAssumption
     DEF IInv, TypeOK, Runs, ChecksInv, Finishing, Running, Runners
<1>1. ASSUME NEW s \in Services, connected[s] # None
      PROVE  kept[connected[s]] = s /\ connected[s] \notin unreported'
  <2>2. kept[connected[s]] = s /\ connected[s] \notin unreported
    BY <1>1 DEF NamesInv
  <2>3. ASSUME NEW x \in Runners, Finishing(x), run[x].code = connected[s]
        PROVE  FALSE
    <3>1. run[x].svc = s
      BY <2>2, <2>3 DEF NamesInv
    <3> QED
      BY <2>3, <3>1 DEF NamesInv
  <2> QED
    BY <2>2, <2>3 DEF GivesUp
<1>2. ASSUME NEW s \in Services, NEW d \in Codes, Up(s)', kept[d] = s,
             d \notin unreported'
      PROVE  \/ connected[s] # None /\ order'[d] <= order'[connected[s]]
             \/ \E x \in Runners : /\ Finishing(x)' /\ run'[x].svc = s
                                  /\ run'[x].code = d
  <2>1. Up(s) /\ d \notin unreported
    BY <1>2 DEF NamesInv, Up, GivesUp
  <2>2. CASE connected[s] # None /\ order[d] <= order[connected[s]]
    <3>1. kept[connected[s]] = s /\ connected[s] \in Codes
      BY <2>1, <2>2 DEF NamesInv, IInv, TypeOK
    <3>2. order'[d] = order[d] /\ order'[connected[s]] = order[connected[s]]
      BY <1>0, <1>2, <3>1
    <3> QED
      BY <2>2, <3>2
  <2>3. ASSUME NEW x \in Runners, Finishing(x), run[x].svc = s, run[x].code = d
        PROVE  Finishing(x)' /\ run'[x].svc = s /\ run'[x].code = d
    BY <1>2, <2>3 DEF Up
  <2> QED
    BY <1>2, <2>1, <2>2, <2>3 DEF NamesInv
<1>3. ASSUME NEW x \in Runners, Finishing(x)'
      PROVE  /\ kept[run'[x].code] = run'[x].svc
             /\ run'[x].code \notin unreported'
             /\ \A e \in Codes : kept[e] = run'[x].svc =>
                  order'[e] <= order'[run'[x].code]
             /\ connected[run'[x].svc] # run'[x].code
  <2>1. /\ Finishing(x) /\ run'[x].svc = run[x].svc /\ run'[x].code = run[x].code
        /\ kept[run[x].code] = run[x].svc /\ run[x].code \notin unreported
        /\ \A e \in Codes : kept[e] = run[x].svc => order[e] <= order[run[x].code]
        /\ connected[run[x].svc] # run[x].code
    BY <1>3 DEF NamesInv, NewestOf
  <2>2. run[x].code \notin unreported'
    <3>1. ASSUME NEW y \in Runners, Finishing(y), run[y].code = run[x].code
          PROVE  y = x
      <4>1. kept[run[y].code] = run[y].svc
        BY <3>1 DEF NamesInv
      <4> QED
        BY <1>0, <2>1, <3>1, <4>1
    <3> QED
      BY <1>3, <2>1, <3>1 DEF GivesUp
  <2>3. order'[run[x].code] = order[run[x].code]
        /\ \A e \in Codes : kept[e] = run[x].svc => order'[e] = order[e]
    BY <1>0, <2>1
  <2> QED
    BY <2>1, <2>2, <2>3
<1>4. ASSUME NEW s \in Services, life'[s] = "new"
      PROVE  /\ \A e \in Codes : kept[e] # s
             /\ \A x \in Runners : Running(x)' => run'[x].svc # s
             /\ connected[s] = None
  BY <1>4 DEF NamesInv
<1> QED
  BY <1>1, <1>2, <1>3, <1>4 DEF NamesInv, NewestOf, Up

LEMMA NamesStored ==
  ASSUME IInv, OrderInv, HandInv, NamesInv, HeldInv, NEW r \in Runners,
         StoreCredential(r)
  PROVE  NamesInv' /\ HeldInv'
<1> DEFINE c == run[r].code
           s == run[r].svc
<1>1. /\ run' = [run EXCEPT ![r].pc = "activate"] /\ run[r].pc = "store"
      /\ kept' = [kept EXCEPT ![c] = s]
      /\ UNCHANGED <<life, order, connected, unreported>>
  BY DEF StoreCredential, Goto, service, server
<1>2. /\ \A x \in Runners \ {r} : run'[x] = run[x]
      /\ run'[r].pc = "activate" /\ run'[r].svc = s /\ run'[r].code = c
  BY <1>1, GotoRuns
<1>3. /\ c \in Codes /\ s \in Services /\ Running(r) /\ InHand(r)
      /\ \A e \in Codes : kept'[e] = IF e = c THEN s ELSE kept[e]
  BY <1>1 DEF IInv, TypeOK, Runs, ChecksInv, Running, InHand
<1>4. /\ kept[c] = None /\ c \notin unreported /\ None \notin Services
      /\ \A e \in Codes : kept[e] = s => order[e] < order[c]
      /\ \A e \in Codes : order[e] \in Nat
      /\ \A x \in Runners \ {r} : Running(x) => run[x].svc # s
  BY <1>3, AuthorizationAssumption
     DEF HeldInv, HandInv, IInv, TypeOK, ChecksInv, Runners
<1>5. ASSUME NEW i \in Services, connected[i] # None
      PROVE  kept'[connected[i]] = i /\ connected[i] \notin unreported
  <2>1. kept[connected[i]] = i /\ connected[i] \notin unreported
    BY <1>5 DEF NamesInv
  <2>2. connected[i] # c /\ connected[i] \in Codes
    BY <1>4, <1>5, <2>1 DEF IInv, TypeOK
  <2> QED
    BY <1>3, <2>1, <2>2
<1>6. ASSUME NEW i \in Services, NEW d \in Codes, Up(i), kept'[d] = i,
             d \notin unreported
      PROVE  \/ connected[i] # None /\ order[d] <= order[connected[i]]
             \/ \E x \in Runners : /\ Finishing(x)' /\ run'[x].svc = i
                                  /\ run'[x].code = d
  <2>1. CASE d = c
    BY <1>2, <1>3, <1>6, <2>1 DEF Finishing
  <2>2. CASE d # c
    <3>1. kept[d] = i
      BY <1>3, <1>6, <2>2
    <3>2. \A x \in Runners : Finishing(x) => x # r
      BY <1>1 DEF Finishing
    <3> QED
      BY <1>2, <1>6, <3>1, <3>2 DEF NamesInv, Finishing
  <2> QED
    BY <2>1, <2>2
<1>7. ASSUME NEW x \in Runners, Finishing(x)'
      PROVE  /\ kept'[run'[x].code] = run'[x].svc
             /\ run'[x].code \notin unreported
             /\ \A e \in Codes : kept'[e] = run'[x].svc =>
                  order[e] <= order[run'[x].code]
             /\ connected[run'[x].svc] # run'[x].code
  <2>1. CASE x = r
    <3>1. connected[s] # c
      BY <1>3, <1>4, AuthorizationAssumption DEF NamesInv, Runners
    <3>2. \A e \in Codes : kept'[e] = s => order[e] <= order[c]
      BY <1>3, <1>4
    <3> QED
      BY <1>2, <1>3, <1>4, <2>1, <3>1, <3>2
  <2>2. CASE x # r
    <3>1. run'[x] = run[x] /\ Finishing(x) /\ Running(x)
      BY <1>2, <1>7, <2>2 DEF Finishing, Running
    <3>2. /\ kept[run[x].code] = run[x].svc /\ run[x].code \notin unreported
          /\ \A e \in Codes : kept[e] = run[x].svc => order[e] <= order[run[x].code]
          /\ connected[run[x].svc] # run[x].code
      BY <3>1 DEF NamesInv, NewestOf
    <3>3. run[x].svc # s /\ run[x].svc \in Services /\ run[x].code \in Codes
      BY <1>4, <2>2, <3>1 DEF IInv, TypeOK, Runs, ChecksInv
    <3>4. run[x].code # c
      BY <1>4, <3>2, <3>3
    <3> QED
      BY <1>3, <3>1, <3>2, <3>3, <3>4
  <2> QED
    BY <2>1, <2>2
<1>8. ASSUME NEW i \in Services, life[i] = "new"
      PROVE  /\ \A e \in Codes : kept'[e] # i
             /\ \A x \in Runners : Running(x)' => run'[x].svc # i
             /\ connected[i] = None
  <2>1. i # s
    BY <1>3, <1>8 DEF NamesInv
  <2>2. \A x \in Runners : Running(x)' => Running(x) /\ run'[x].svc = run[x].svc
    BY <1>2, <1>3 DEF Running
  <2> QED
    BY <1>3, <1>8, <2>1, <2>2 DEF NamesInv
<1>9. NamesInv'
  BY <1>1, <1>5, <1>6, <1>7, <1>8 DEF NamesInv, NewestOf, Up
<1>10. ASSUME NEW x \in Runners, InHand(x)'
       PROVE  /\ x # r /\ InHand(x) /\ run'[x].code = run[x].code
              /\ run[x].code # c /\ run[x].code \in Codes
  <2>1. x # r /\ InHand(x) /\ run'[x] = run[x]
    BY <1>2, <1>10 DEF InHand
  <2> QED
    BY <1>3, <2>1 DEF HeldInv, IInv, ChecksInv, Running, InHand
<1>11. HeldInv'
  <2>1. \A x \in Runners : InHand(x)' => kept'[run'[x].code] = None
    BY <1>3, <1>10 DEF HeldInv
  <2>2. \A x, y \in Runners :
          InHand(x)' /\ InHand(y)' /\ run'[x].code = run'[y].code => x = y
    BY <1>10 DEF HeldInv
  <2>3. \A d \in unreported' : kept'[d] # None
    BY <1>1, <1>3, AuthorizationAssumption
       DEF HeldInv, IInv, TypeOK, Runners
  <2> QED
    BY <2>1, <2>2, <2>3 DEF HeldInv
<1> QED
  BY <1>9, <1>11

LEMMA NamesReported ==
  ASSUME IInv, NamesInv, HeldInv, OrderInv, HandInv, AbortInv,
         NEW r \in Runners, RemoveCompleted(r)
  PROVE  NamesInv' /\ HeldInv'
<1> DEFINE c == run[r].code
           s == run[r].svc
<1>1. /\ run[r].pc = "remove" /\ EndCheck(r, "final")
      /\ connected' = [connected EXCEPT ![s] = c]
      /\ UNCHANGED <<kept, order, unreported>>
  BY DEF RemoveCompleted, Completed, server
<1>2. /\ \A x \in Runners \ {r} : Calm(x)
      /\ run'[r].pc \in Still
      /\ LivesOn
  BY <1>1, EndCheckRuns
<1>3. /\ s \in Services /\ Finishing(r) /\ c \in Codes
      /\ \A i \in Services : connected'[i] = IF i = s THEN c ELSE connected[i]
  BY <1>1 DEF IInv, TypeOK, Runs, Finishing, ChecksInv, Running
<1>4. /\ kept[c] = s /\ c \notin unreported
      /\ \A e \in Codes : kept[e] = s => order[e] <= order[c]
  BY <1>3 DEF NamesInv, NewestOf
<1>5. \A x \in Runners : /\ Finishing(x)' => Finishing(x) /\ run'[x] = run[x]
                         /\ Running(x)' => Running(x) /\ run'[x] = run[x]
                         /\ x # r /\ Finishing(x) => run'[x] = run[x]
                         /\ Running(x)' => x # r
  BY <1>2 DEF Calm, Still, Finishing, Running
<1>6. \A x \in Runners : Running(x) /\ x # r => run[x].svc # s
  BY <1>3 DEF IInv, ChecksInv, Running, Finishing
<1>7. \A i \in Services : connected'[i] # None =>
        kept[connected'[i]] = i /\ connected'[i] \notin unreported
  BY <1>3, <1>4 DEF NamesInv
<1>8. ASSUME NEW i \in Services, NEW d \in Codes, Up(i)', kept[d] = i,
             d \notin unreported
      PROVE  \/ connected'[i] # None /\ order[d] <= order[connected'[i]]
             \/ \E x \in Runners : /\ Finishing(x)' /\ run'[x].svc = i
                                  /\ run'[x].code = d
  <2>1. CASE i = s
    BY <1>3, <1>4, <1>8, <2>1, AuthorizationAssumption DEF Runners
  <2>2. CASE i # s
    <3>1. connected'[i] = connected[i] /\ Up(i)
      BY <1>2, <1>3, <1>8, <2>2 DEF LivesOn, Up
    <3>2. \A x \in Runners : Finishing(x) /\ run[x].svc = i =>
            Finishing(x)' /\ run'[x] = run[x]
      BY <1>5, <2>2 DEF Finishing
    <3> QED
      BY <1>8, <3>1, <3>2 DEF NamesInv
  <2> QED
    BY <2>1, <2>2
<1>9. ASSUME NEW x \in Runners, Finishing(x)'
      PROVE  /\ kept[run'[x].code] = run'[x].svc
             /\ run'[x].code \notin unreported
             /\ \A e \in Codes : kept[e] = run'[x].svc =>
                  order[e] <= order[run'[x].code]
             /\ connected'[run'[x].svc] # run'[x].code
  <2>1. Finishing(x) /\ run'[x] = run[x] /\ x # r
    BY <1>5, <1>9 DEF Finishing, Running
  <2>2. run[x].svc # s /\ run[x].svc \in Services
    BY <1>6, <2>1 DEF IInv, TypeOK, Runs, Finishing, Running
  <2> QED
    BY <1>3, <2>1, <2>2 DEF NamesInv, NewestOf
<1>10. ASSUME NEW i \in Services, life'[i] = "new"
      PROVE  /\ \A e \in Codes : kept[e] # i
             /\ \A x \in Runners : Running(x)' => run'[x].svc # i
             /\ connected'[i] = None
  <2>1. life[i] = "new"
    BY <1>2, <1>10 DEF LivesOn
  <2> QED
    BY <1>3, <1>4, <1>5, <2>1 DEF NamesInv
<1>11. NamesInv'
  BY <1>1, <1>7, <1>8, <1>9, <1>10 DEF NamesInv, NewestOf, Up
<1>12. HeldInv'
  <2>1. Holds(r) /\ GivesUp
    BY <1>1, <1>2 DEF Holds, GivesUp, InHand, Still
  <2>2. \A x \in Runners \ {r} : InHand(x)' =>
          InHand(x) /\ run'[x].code = run[x].code
    BY <1>2 DEF Calm, Still, InHand
  <2> QED
    BY <1>1, <2>1, <2>2, HeldStep
<1> QED
  BY <1>11, <1>12

\* What a step that stores and reports nothing may do to a runner.
Quiet(x) ==
  \/ Calm(x)
  \/ /\ ~Finishing(x) /\ ~Finishing(x)'
     /\ Running(x)' => \/ life[run'[x].svc] = "up"
                       \/ Running(x) /\ run'[x].svc = run[x].svc
  \/ /\ Finishing(x) /\ Finishing(x)'
     /\ run'[x].svc = run[x].svc /\ run'[x].code = run[x].code
  \/ /\ Finishing(x) /\ ~Running(x)'
     /\ run[x].code \in unreported' \/ life'[run[x].svc] # "up"

LEMMA NamesQuiet ==
  ASSUME IInv, OrderInv, HandInv, NamesInv, HeldInv,
         UNCHANGED <<kept, connected>>, GivesUp,
         \A d \in Codes : kept[d] # None => order'[d] = order[d],
         \A s \in Services : /\ life'[s] = "up" => life[s] \in {"up", "new"}
                             /\ life'[s] = "new" => life[s] = "new",
         NEW r \in Runners, Holds(r), \A x \in Runners \ {r} : InHand(x)' =>
                                        InHand(x) /\ run'[x].code = run[x].code,
         \A x \in Runners : Quiet(x)
  PROVE  NamesInv' /\ HeldInv'
<1>1. ASSUME NEW x \in Runners
      PROVE
           /\ Finishing(x)' => /\ Finishing(x)
                               /\ run'[x].svc = run[x].svc
                               /\ run'[x].code = run[x].code
           /\ Finishing(x) => \/ /\ Finishing(x)'
                                 /\ run'[x].svc = run[x].svc
                                 /\ run'[x].code = run[x].code
                              \/ run[x].code \in unreported'
                              \/ life'[run[x].svc] # "up"
           /\ Running(x)' => \/ life[run'[x].svc] = "up"
                             \/ Running(x) /\ run'[x].svc = run[x].svc
  <2>1. Quiet(x)
    OBVIOUS
  <2>2. CASE run'[x] = run[x]
    BY <2>2 DEF Finishing, Running
  <2>3. CASE run'[x] # run[x]
    BY <2>1, <2>3 DEF Quiet, Calm, Still, Finishing, Running
  <2> QED
    BY <2>2, <2>3
<1>2. NamesInv'
  BY <1>1, NamesKept
<1> QED
  BY <1>2, HeldStep

\* Nothing is granted, given up or taken in hand.
LEMMA NamesCalm ==
  ASSUME IInv, OrderInv, HandInv, NamesInv, HeldInv,
         UNCHANGED <<kept, order, connected, unreported>>,
         \A s \in Services : /\ life'[s] = "up" => life[s] \in {"up", "new"}
                             /\ life'[s] = "new" => life[s] = "new",
         \A x \in Runners : InHand(x)' => InHand(x) /\ run'[x].code = run[x].code,
         \A x \in Runners : Quiet(x)
  PROVE  NamesInv' /\ HeldInv'
<1>1. PICK r \in Runners : TRUE
  BY AuthorizationAssumption DEF Runners
<1>2. GivesUp /\ Holds(r)
  BY DEF GivesUp, Holds, InHand, Running
<1> QED
  BY <1>2, NamesQuiet

\* A runner that goes on in its check.
LEMMA NamesGoto ==
  ASSUME IInv, OrderInv, HandInv, NamesInv, HeldInv, NEW r \in Runners, NEW to,
         Running(r), run' = [run EXCEPT ![r].pc = to],
         Finishing(r)' = Finishing(r), Holds(r),
         \A d \in Codes : kept[d] # None => order'[d] = order[d],
         UNCHANGED <<kept, connected, unreported, life>>
  PROVE  NamesInv' /\ HeldInv'
<1>1. /\ \A x \in Runners \ {r} : run'[x] = run[x]
      /\ run'[r].svc = run[r].svc /\ run'[r].code = run[r].code
  BY GotoRuns
<1>2. \A x \in Runners : Quiet(x)
  BY <1>1 DEF Quiet, Calm
<1>3. /\ GivesUp
      /\ \A x \in Runners \ {r} : InHand(x)' =>
           InHand(x) /\ run'[x].code = run[x].code
  BY <1>1 DEF GivesUp, InHand
<1> QED
  BY <1>2, <1>3, NamesQuiet

\* A background task that is in no check starts or ends.
LEMMA NamesTask ==
  ASSUME IInv, AbortInv, OrderInv, HandInv, NamesInv, HeldInv,
         NEW s \in Services, TaskMoves(s),
         UNCHANGED <<kept, order, connected, unreported>>,
         \A i \in Services : /\ life'[i] = "up" => life[i] \in {"up", "new"}
                             /\ life'[i] = "new" => life[i] = "new"
  PROVE  NamesInv' /\ HeldInv'
<1>1. \A x \in Runners : Calm(x)
  BY TaskRuns
<1>2. \A x \in Runners :
        Quiet(x) /\ (InHand(x)' => InHand(x) /\ run'[x].code = run[x].code)
  BY <1>1 DEF Quiet, Calm, Still, InHand
<1> QED
  BY <1>2, NamesCalm

\* The steps of the status tool and of a waking task.
LEMMA NamesTool ==
  ASSUME IInv, AbortInv, OrderInv, HandInv, NamesInv, HeldInv,
         \/ \E k \in Checkers, s \in Services : ToolCheck(k, s)
         \/ \E s \in Services : Wake(s)
  PROVE  NamesInv' /\ HeldInv'
<1>1. UNCHANGED <<kept, order, connected, unreported>>
  BY DEF ToolCheck, Wake, files, server
<1>2. PICK r \in Runners, s \in Services :
        run[r].pc \in {"idle", "sleep"} /\ Check(r, s)
  BY DEF ToolCheck, Wake, Asleep, Runners
<1>3. /\ \A x \in Runners \ {r} : Calm(x)
      /\ \/ run'[r].pc \in Still
         \/ /\ run'[r].pc \in {"sent", "drop"} /\ run'[r].svc = s
            /\ Up(s) /\ r \notin aborted
      /\ LivesOn
  BY <1>2, CheckRuns
<1>4. \A x \in Runners : Quiet(x)
  BY <1>2, <1>3 DEF Quiet, Calm, Still, Finishing, Running, Up
<1>5. \A x \in Runners : InHand(x)' => InHand(x) /\ run'[x].code = run[x].code
  BY <1>3 DEF Calm, Still, InHand
<1> QED
  BY <1>1, <1>3, <1>4, <1>5, NamesCalm DEF LivesOn

\* A check that ends without a report, and a failing one.
LEMMA NamesEnd ==
  ASSUME IInv, AbortInv, OrderInv, HandInv, NamesInv, HeldInv,
         NEW r \in Runners,
         ReceivePending(r) \/ RemoveRefused(r) \/ CheckFails(r)
  PROVE  NamesInv' /\ HeldInv'
<1>1. /\ \E result : EndCheck(r, result)
      /\ UNCHANGED <<kept, order, connected>>
  BY DEF ReceivePending, RemoveRefused, CheckFails, files, server
<1>2. /\ unreported' = unreported
           \union (IF Finishing(r) THEN {run[r].code} ELSE {})
  BY DEF ReceivePending, RemoveRefused, CheckFails, files, Finishing
<1>3. /\ \A x \in Runners \ {r} : Calm(x)
      /\ run'[r].pc \in Still
      /\ LivesOn
  BY <1>1, EndCheckRuns
<1>4. ~Finishing(r)' /\ ~Running(r)'
  BY <1>3 DEF Finishing, Running, Still
<1>5. \A x \in Runners : Quiet(x)
  BY <1>2, <1>3, <1>4 DEF Quiet
<1>6. GivesUp /\ Holds(r)
  BY <1>2, <1>3, <1>4 DEF GivesUp, Holds, InHand, Still
<1>7. \A x \in Runners \ {r} : InHand(x)' =>
        InHand(x) /\ run'[x].code = run[x].code
  BY <1>3 DEF Calm, Still, InHand
<1> QED
  BY <1>1, <1>3, <1>5, <1>6, <1>7, NamesQuiet DEF LivesOn

\* Boot, stop and crash.
LEMMA NamesInstance ==
  ASSUME IInv, AbortInv, OrderInv, HandInv, NamesInv, HeldInv,
         NEW s \in Services, Boot(s) \/ Stop(s) \/ Crash(s)
  PROVE  NamesInv' /\ HeldInv'
<1>1. UNCHANGED <<kept, order, connected, unreported>>
  BY DEF Boot, Stop, Crash, files, server
<1>2. CASE Boot(s) \/ Stop(s)
  <2>1. TaskMoves(s)
    BY <1>2, StartTaskMoves DEF Boot, Stop, TaskMoves, HasTask, Asleep
  <2>2. \A i \in Services : /\ life'[i] = "up" => life[i] \in {"up", "new"}
                            /\ life'[i] = "new" => life[i] = "new"
    BY <1>2 DEF Boot, Stop, IInv, TypeOK
  <2> QED
    BY <1>1, <2>1, <2>2, NamesTask
<1>3. CASE Crash(s)
  <2>1. /\ life' = [life EXCEPT ![s] = "dead"]
        /\ run' = [r \in Runners |-> IF run[r].svc = s THEN Idle(s) ELSE run[r]]
    BY <1>3 DEF Crash
  <2>2. life'[s] = "dead" /\ \A i \in Services \ {s} : life'[i] = life[i]
    BY <2>1 DEF IInv, TypeOK
  <2>3. ASSUME NEW x \in Runners
        PROVE  /\ Quiet(x)
               /\ InHand(x)' => InHand(x) /\ run'[x].code = run[x].code
    <3>1. CASE run[x].svc = s
      <4>1. run'[x].pc = "idle"
        BY <2>1, <3>1, IdleIsRun
      <4> QED
        BY <2>2, <3>1, <4>1 DEF Quiet, Finishing, Running, InHand
    <3>2. CASE run[x].svc # s
      BY <2>1, <3>2 DEF Quiet, Calm, InHand
    <3> QED
      BY <3>1, <3>2
  <2> QED
    BY <1>1, <2>2, <2>3, NamesCalm
<1> QED
  BY <1>2, <1>3

\* Connect calls.
LEMMA NamesStart ==
  ASSUME IInv, AbortInv, OrderInv, HandInv, NamesInv, HeldInv,
         \/ \E t \in Starters, s \in Services, q \in Requests :
              StartReuses(t, s, q) \/ StartReplaces(t, s, q)
         \/ \E t \in Starters : StartStep(t)
  PROVE  NamesInv' /\ HeldInv'
<1>1. UNCHANGED <<kept, order, connected, unreported, life>>
  BY DEF StartReuses, StartReplaces, StartStep, DeleteLapsed, CreateDevice,
         SavePending, StartReturns, StartFails, files, service, server
<1>2. \A t \in Starters : begin[t].svc \in Services
  BY DEF IInv, BeginInv, Coded, Starts
<1>3. run' = run \/ \E s \in Services : TaskMoves(s)
  <2>1. ASSUME NEW t \in Starters, NEW s \in Services, NEW q, CancelTask(t, s, q)
        PROVE  TaskMoves(s)
    BY <2>1 DEF CancelTask, TaskMoves, HasTask, Asleep
  <2> QED
    BY <1>2, <2>1, StartTaskMoves
       DEF StartReuses, StartReplaces, StartStep, DeleteLapsed, CreateDevice,
           SavePending, StartReturns, StartFails
<1>4. PICK s \in Services : TaskMoves(s)
  BY <1>3, AuthorizationAssumption DEF TaskMoves
<1> QED
  BY <1>1, <1>4, NamesTask

\* The server answers, and a check takes its answer.
LEMMA NamesAnswer ==
  ASSUME IInv, OrderInv, HandInv, NamesInv, HeldInv, NEW r \in Runners,
         \/ Answer(r) \/ ReceiveRefusal(r) \/ ReceiveCredential(r)
         \/ ReceiveForeign(r) \/ Activated(r)
  PROVE  NamesInv' /\ HeldInv'
<1>1. UNCHANGED <<kept, connected, unreported, life>>
  BY DEF Answer, ReceiveRefusal, ReceiveCredential, ReceiveForeign, Activated,
         files, service
<1>2. PICK to \in {"granted", "unsettled", "refused", "drop", "store", "remove"} :
        /\ run' = [run EXCEPT ![r].pc = to]
        /\ to \in {"granted", "store"} =>
             run[r].pc = "granted" \/ status[run[r].code] = "approved"
        /\ \/ to # "remove" /\ run[r].pc \in {"sent", "granted", "refused"}
           \/ to = "remove" /\ run[r].pc = "activate"
  BY DEF Answer, ReceiveRefusal, ReceiveCredential, ReceiveForeign, Activated,
         Goto
<1>3. Running(r) /\ Finishing(r)' = Finishing(r)
  BY <1>2, GotoRuns DEF Running, Finishing
<1>4. Holds(r)
  BY <1>2, <1>3, GotoRuns DEF Holds, InHand
<1>5. \A d \in Codes : kept[d] # None => order'[d] = order[d]
  <2>1. \/ order' = order
        \/ /\ status[run[r].code] = "approved"
           /\ order' = [order EXCEPT ![run[r].code] =
                1 + Cardinality({e \in Codes : order[e] > 0})]
    BY DEF Answer, ReceiveRefusal, ReceiveCredential, ReceiveForeign, Activated,
           server
  <2>2. ASSUME NEW d \in Codes, kept[d] # None
        PROVE  status[d] = "used"
    BY <2>2 DEF OrderInv
  <2> QED
    BY <2>1, <2>2 DEF IInv, TypeOK
<1> QED
  BY <1>1, <1>2, <1>3, <1>4, <1>5, NamesGoto

----------------------------------------------------------------------------
LEMMA NamesInit == Init => NamesInv /\ HeldInv
<1> SUFFICES ASSUME Init PROVE NamesInv /\ HeldInv
  OBVIOUS
<1>1. \A r \in Runners : run[r].pc = "idle"
  <2> DEFINE s0 == CHOOSE s \in Services : TRUE
  <2>1. s0 \in Services
    BY AuthorizationAssumption
  <2>2. run = [r \in Runners |-> Idle(IF r \in Services THEN r ELSE s0)]
    BY DEF Init
  <2> HIDE DEF s0
  <2> QED
    BY <2>1, <2>2, IdleIsRun
<1>2. /\ \A e \in Codes : kept[e] = None
      /\ \A s \in Services : connected[s] = None
      /\ unreported = {}
  BY DEF Init
<1> QED
  BY <1>1, <1>2, AuthorizationAssumption
     DEF NamesInv, HeldInv, Finishing, InHand, Running, Runners, Up

LEMMA NamesNext ==
  ASSUME IInv, AbortInv, OrderInv, HandInv, NamesInv, HeldInv, [Next]_vars
  PROVE  NamesInv' /\ HeldInv'
<1>1. CASE UNCHANGED <<run, kept, order, connected, unreported, life>>
  BY <1>1 DEF NamesInv, HeldInv, NewestOf, InHand, Finishing, Running, Up
<1>2. \/ UNCHANGED <<run, kept, order, connected, unreported, life>>
      \/ ~UNCHANGED vars /\ Next
  BY DEF vars, files, service, server
<1>3. CASE \E d \in Codes : OwnerDecides(d) \/ Lapse(d)
  BY <1>1, <1>3 DEF OwnerDecides, Lapse, files, service
<1>4. CASE \E r \in Runners : CheckStep(r)
  BY <1>4, NamesAnswer, NamesEnd, NamesStored, NamesReported, NamesTool
     DEF CheckStep
<1> QED
  BY <1>1, <1>2, <1>3, <1>4, NamesInstance, NamesTool, NamesStart DEF Next

----------------------------------------------------------------------------
THEOREM GrantsInvariant == Spec => [](IInv /\ GrantInv /\ NamesInv)
<1>1. Init => IInv /\ GrantInv /\ NamesInv /\ HeldInv
  BY InitInv, GrantInit, NamesInit
<1>2. IInv /\ GrantInv /\ NamesInv /\ HeldInv /\ [Next]_vars
        => (IInv /\ GrantInv /\ NamesInv /\ HeldInv)'
  BY NextInv, GrantNext, NamesNext DEF GrantInv
<1> QED
  BY <1>1, <1>2, PTL DEF Spec

(* However starts, checks, restarts and processes interleave, every         *)
(* credential that the server has issued is stored, in hand, or lost to a   *)
(* failed or aborted request, a stop or a crash of its own.                 *)
THEOREM GrantsAccountedFor == Spec => []LossNeedsFault
<1>1. IInv /\ GrantInv => LossNeedsFault
  <2> SUFFICES ASSUME IInv, GrantInv PROVE LossNeedsFault
    OBVIOUS
  <2>1. Budget \in Nat
    BY FiniteSets, AuthorizationAssumption DEF Budget, IInv, TypeOK
  <2>2. Cardinality(Lost) <= Budget
    BY <2>1, FiniteSets DEF GrantInv, LossInv
  <2> QED
    BY <2>2 DEF LossNeedsFault, Budget, Down
<1> QED
  BY <1>1, GrantsInvariant, PTL

(* No instance puts an older grant over a newer one that it has stored.     *)
THEOREM NewerGrantKept == Spec => NewestGrantWins
<1> DEFINE Newer == \A d \in Codes : kept'[d] # kept[d] =>
                      \A e \in Codes : kept[e] = kept'[d] => order[e] < order[d]
<1>1. ASSUME IInv, GrantInv, [Next]_vars
      PROVE  Newer
  <2>1. CASE UNCHANGED kept
    BY <2>1
  <2>2. CASE \E r \in Runners : StoreCredential(r)
    BY <1>1, <2>2, StoreStep
  <2>3. UNCHANGED kept \/ \E r \in Runners : StoreCredential(r)
    BY <1>1 DEF Next, CheckStep, StartStep, vars, files, OwnerDecides, Lapse,
        Boot, Stop, Crash, ToolCheck, StartReuses, StartReplaces, Answer,
        ReceivePending, ReceiveRefusal, ReceiveCredential, ReceiveForeign,
        Activated, RemoveCompleted, Completed, RemoveRefused, CheckFails, Wake,
        DeleteLapsed, CreateDevice, SavePending, StartReturns, StartFails
  <2> QED
    BY <2>1, <2>2, <2>3
<1>2. IInv /\ GrantInv /\ [Next]_vars => [Newer]_vars
  BY <1>1
<1> QED
  BY <1>2, GrantsInvariant, PTL DEF Spec, NewestGrantWins

(* The mailbox an instance remembers as connected is the newest grant that  *)
(* it has stored, whatever else has failed; only a check that ended by a    *)
(* failure after its own store leaves an older one remembered.              *)
THEOREM NamesAreStored == Spec => []ConnectedNamesStored
<1>1. IInv /\ NamesInv => ConnectedNamesStored
  <2> SUFFICES ASSUME IInv, NamesInv, NEW s \in Services, Up(s), checks[s] = None
               PROVE  /\ connected[s] # None =>
                           /\ kept[connected[s]] = s
                           /\ connected[s] \notin unreported
                      /\ \A d \in Codes \ unreported : kept[d] = s =>
                           /\ connected[s] # None
                           /\ order[d] <= order[connected[s]]
    BY DEF ConnectedNamesStored
  <2>1. ASSUME NEW x \in Runners, Finishing(x), run[x].svc = s
        PROVE  FALSE
    BY <2>1, AuthorizationAssumption
       DEF IInv, ChecksInv, Running, Finishing
  <2> QED
    BY <2>1 DEF NamesInv
<1> QED
  BY <1>1, GrantsInvariant, PTL

----------------------------------------------------------------------------
(* Removals: what a check or a connect call removes, it removes for a code  *)
(* that is over.                                                            *)

\* The awaits at which the code of a check is known to be over.
Answered == {"granted", "refused", "store", "activate", "remove", "drop"}

OverInv ==
  /\ \A r \in Runners : run[r].pc \in Answered => Over(run[r].code)
  /\ \A t \in Starters : begin[t].pc = "delete" => begin[t].code \in lapsed

\* Nothing un-expires.
LEMMA LapsedStays ==
  ASSUME [Next]_vars
  PROVE  lapsed \subseteq lapsed'
BY DEF Next, CheckStep, StartStep, vars, server, OwnerDecides, Lapse,
   Boot, Stop, Crash, ToolCheck, StartReuses, StartReplaces, Answer,
   ReceivePending, ReceiveRefusal, ReceiveCredential, ReceiveForeign,
   StoreCredential, Activated, RemoveCompleted, Completed, RemoveRefused,
   CheckFails, Wake, DeleteLapsed, CreateDevice, SavePending, StartReturns,
   StartFails

\* A code that is over stays so.
LEMMA OverStays ==
  ASSUME IInv, [Next]_vars, NEW d \in Codes, Over(d)
  PROVE  Over(d)'
<1>1. lapsed \subseteq lapsed'
  BY LapsedStays
<1>2. \/ UNCHANGED status
      \/ \E e \in Codes : OwnerDecides(e)
      \/ \E r \in Runners : Answer(r)
      \/ \E t \in Starters, e \in Codes : CreateDevice(t, e)
  BY DEF Next, CheckStep, StartStep, vars, server, Lapse,
      Boot, Stop, Crash, ToolCheck, StartReuses, StartReplaces,
      ReceivePending, ReceiveRefusal, ReceiveCredential, ReceiveForeign,
      StoreCredential, Activated, RemoveCompleted, Completed, RemoveRefused,
      CheckFails, Wake, DeleteLapsed, SavePending, StartReturns,
      StartFails
<1>3. ASSUME status[d] \in {"denied", "used"}
      PROVE  status'[d] \in {"denied", "used"}
  BY <1>2, <1>3 DEF OwnerDecides, Answer, CreateDevice, IInv, TypeOK
<1> QED
  BY <1>1, <1>3 DEF Over

\* What every step does with the codes that checks and connect calls have read.
LEMMA OverKept ==
  ASSUME IInv, OverInv, [Next]_vars,
         \A r \in Runners : run'[r].pc \in Answered =>
           \/ run[r].pc \in Answered /\ run'[r].code = run[r].code
           \/ Over(run[r].code)',
         \A t \in Starters : begin'[t].pc = "delete" =>
           begin'[t] = begin[t] \/ begin'[t].code \in lapsed'
  PROVE  OverInv'
<1>1. ASSUME NEW r \in Runners, run'[r].pc \in Answered
      PROVE  Over(run[r].code)'
  <2>1. CASE run[r].pc \in Answered /\ run'[r].code = run[r].code
    <3>1. run[r].code \in Codes /\ Over(run[r].code)
      BY <2>1 DEF IInv, ChecksInv, Running, Answered, OverInv
    <3>2. \A d \in Codes : Over(d) => status'[d] \in {"denied", "used"}
                                     \/ d \in lapsed'
      BY OverStays DEF Over
    <3>3. \/ status'[run[r].code] \in {"denied", "used"}
          \/ run[r].code \in lapsed'
      BY <3>1, <3>2
    <3> QED
      BY <2>1, <3>3 DEF Over
  <2> QED
    BY <1>1, <2>1
<1>2. ASSUME NEW t \in Starters, begin'[t].pc = "delete"
      PROVE  begin'[t].code \in lapsed'
  <2>1. lapsed \subseteq lapsed'
    BY LapsedStays
  <2> QED
    BY <1>2, <2>1 DEF OverInv
<1> QED
  BY <1>1, <1>2 DEF OverInv, Over

\* Nothing has been read yet.
LEMMA OverInit == Init => OverInv
<1> SUFFICES ASSUME Init PROVE OverInv
  OBVIOUS
<1> DEFINE s0 == CHOOSE s \in Services : TRUE
<1>1. s0 \in Services
  BY AuthorizationAssumption
<1>2. /\ run = [r \in Runners |-> Idle(IF r \in Services THEN r ELSE s0)]
      /\ begin = [t \in Starters |-> NoStart(s0)]
  BY DEF Init
<1> HIDE DEF s0
<1>3. \A r \in Runners : run[r].pc = "idle"
  BY <1>1, <1>2, IdleIsRun
<1>4. \A t \in Starters : begin[t].pc = "idle"
  BY <1>2 DEF NoStart
<1> QED
  BY <1>3, <1>4 DEF OverInv, Answered

\* A step that leaves the checks calm and the connect calls where they are.
LEMMA OverCalm ==
  ASSUME IInv, OverInv, [Next]_vars, \A x \in Runners : Calm(x),
         \A t \in Starters : begin'[t].pc = "delete" =>
           begin'[t] = begin[t] \/ begin'[t].code \in lapsed'
  PROVE  OverInv'
<1>1. ASSUME NEW r \in Runners, run'[r].pc \in Answered
      PROVE  run[r].pc \in Answered /\ run'[r].code = run[r].code
  <2>1. run'[r] = run[r]
    BY <1>1 DEF Calm, Still, Answered
  <2> QED
    BY <1>1, <2>1
<1> QED
  BY <1>1, OverKept

\* No connect call begins to delete where a check ends.
LEMMA EndBegins ==
  ASSUME IInv, NEW r \in Runners, NEW result, EndCheck(r, result)
  PROVE  \A t \in Starters : begin'[t].pc = "delete" => begin'[t] = begin[t]
<1>1. PICK again : EndWith(r, again)
  BY DEF EndCheck
<1>2. ASSUME NEW t \in Starters, begin'[t] # begin[t]
      PROVE  begin'[t].pc = "create"
  <2>1. /\ begin[t] \in Starts
        /\ begin'[t] = [begin[t] EXCEPT !.pc = "create"]
    BY <1>1, <1>2 DEF EndWith, TasksEnd, IInv, TypeOK
  <2> QED
    BY <2>1 DEF Starts
<1> QED
  BY <1>2

\* A check that ends forgets its code.
LEMMA OverEnd ==
  ASSUME IInv, AbortInv, OverInv, [Next]_vars, NEW r \in Runners,
         NEW result, EndCheck(r, result)
  PROVE  OverInv'
<1>1. /\ \A x \in Runners \ {r} : Calm(x)
      /\ run'[r].pc \in Still
  BY EndCheckRuns
<1>2. ASSUME NEW x \in Runners, run'[x].pc \in Answered
      PROVE  run[x].pc \in Answered /\ run'[x].code = run[x].code
  <2>1. run'[x].pc \notin Still
    BY <1>2 DEF Still, Answered
  <2>2. x # r /\ Calm(x)
    BY <1>1, <2>1
  <2>3. run'[x] = run[x]
    BY <2>1, <2>2 DEF Calm
  <2> QED
    BY <1>2, <2>3
<1> QED
  BY <1>2, EndBegins, OverKept

\* A check begins.
LEMMA OverCheck ==
  ASSUME IInv, AbortInv, OverInv, [Next]_vars, UNCHANGED server,
         NEW r \in Runners, NEW s \in Services, Check(r, s)
  PROVE  OverInv'
<1>1. CASE EndCheck(r, "final")
  BY <1>1, OverEnd
<1>2. CASE ~EndCheck(r, "final")
  <2>1. UNCHANGED begin
    BY <1>2 DEF Check, CheckOnce
  <2>2. PICK v : /\ run' = [run EXCEPT ![r] = v]
                 /\ v.pc = "drop" => v.code \in lapsed
                 /\ v.pc \in {"joined", "sent", "drop"}
    <3>1. CASE checks[s] # None
      <4> DEFINE v == [pc |-> "joined", svc |-> s, code |-> None,
                       on |-> checks[s]]
      <4>1. run' = [run EXCEPT ![r] = v]
        BY <1>2, <3>1 DEF Check
      <4>2. /\ v.pc = "drop" => v.code \in lapsed
            /\ v.pc \in {"joined", "sent", "drop"}
        OBVIOUS
      <4> HIDE DEF v
      <4> QED
        BY <4>1, <4>2
    <3>2. CASE checks[s] = None
      <4> DEFINE v == [pc |-> IF pending \in lapsed THEN "drop" ELSE "sent",
                       svc |-> s, code |-> pending, on |-> None]
      <4>1. run' = [run EXCEPT ![r] = v]
        BY <1>2, <3>2 DEF Check, CheckOnce
      <4>2. /\ v.pc = "drop" => v.code \in lapsed
            /\ v.pc \in {"joined", "sent", "drop"}
        OBVIOUS
      <4> HIDE DEF v
      <4> QED
        BY <4>1, <4>2
    <3> QED
      BY <3>1, <3>2
  <2>3. /\ run'[r] = v
        /\ \A x \in Runners \ {r} : run'[x] = run[x]
        /\ lapsed' = lapsed
    BY <2>2 DEF IInv, TypeOK, server
  <2>4. Over(run[r].code)' \/ run'[r].pc \notin Answered
    BY <2>2, <2>3 DEF Over, Answered
  <2> QED
    BY <2>1, <2>3, <2>4, OverKept
<1> QED
  BY <1>1, <1>2

\* A check goes on.
LEMMA OverGoto ==
  ASSUME IInv, OverInv, [Next]_vars, NEW r \in Runners, NEW to,
         UNCHANGED begin, run' = [run EXCEPT ![r].pc = to],
         to \in Answered => run[r].pc \in Answered \/ Over(run[r].code)'
  PROVE  OverInv'
<1>1. /\ \A x \in Runners \ {r} : run'[x] = run[x]
      /\ run'[r].pc = to /\ run'[r].code = run[r].code
  BY GotoRuns
<1> QED
  BY <1>1, OverKept

\* The server answers "denied" or "used", or uses the code up.
LEMMA OverAnswer ==
  ASSUME IInv, OverInv, [Next]_vars, NEW r \in Runners,
         \/ Answer(r) \/ ReceiveRefusal(r) \/ ReceiveCredential(r)
         \/ ReceiveForeign(r) \/ StoreCredential(r) \/ Activated(r)
  PROVE  OverInv'
<1>1. CASE Answer(r)
  <2> DEFINE d == run[r].code
  <2>1. d \in Codes /\ UNCHANGED <<begin, lapsed>>
    BY <1>1 DEF Answer, IInv, ChecksInv, Running
  <2>2. PICK to \in {"granted", "unsettled", "refused"} :
          /\ run' = [run EXCEPT ![r].pc = to]
          /\ to = "granted" => status' = [status EXCEPT ![d] = "used"]
          /\ to = "refused" => /\ UNCHANGED status
                               /\ status[d] \in {"denied", "used"} \/ d \in lapsed
    BY <1>1 DEF Answer
  <2>3. run'[r].code = d
    BY <2>2, GotoRuns
  <2>4. to \in {"granted", "refused"} =>
          status'[d] \in {"denied", "used"} \/ d \in lapsed'
    BY <2>1, <2>2 DEF IInv, TypeOK
  <2>5. to \in Answered => Over(run[r].code)'
    BY <2>2, <2>3, <2>4 DEF Over, Answered
  <2> QED
    BY <2>1, <2>2, <2>5, OverGoto
<1>2. CASE \/ ReceiveRefusal(r) \/ ReceiveCredential(r)
           \/ ReceiveForeign(r) \/ StoreCredential(r) \/ Activated(r)
  <2>1. UNCHANGED begin
    BY <1>2 DEF ReceiveRefusal, ReceiveCredential, ReceiveForeign,
                StoreCredential, Activated
  <2>2. PICK to : run' = [run EXCEPT ![r].pc = to]
    BY <1>2 DEF ReceiveRefusal, ReceiveCredential, ReceiveForeign,
                StoreCredential, Activated, Goto
  <2>3. run[r].pc \in Answered
    BY <1>2 DEF ReceiveRefusal, ReceiveCredential, ReceiveForeign,
                StoreCredential, Activated, Goto, Answered
  <2> QED
    BY <2>1, <2>2, <2>3, OverGoto
<1> QED
  BY <1>1, <1>2

\* Boot, stop and crash.
LEMMA OverInstance ==
  ASSUME IInv, AbortInv, OverInv, [Next]_vars, NEW s \in Services,
         Boot(s) \/ Stop(s) \/ Crash(s)
  PROVE  OverInv'
<1>1. CASE Boot(s) \/ Stop(s)
  <2>1. TaskMoves(s)
    BY <1>1, StartTaskMoves DEF Boot, Stop, TaskMoves, HasTask, Asleep
  <2>2. UNCHANGED begin
    BY <1>1 DEF Boot, Stop
  <2> QED
    BY <2>1, <2>2, TaskRuns, OverCalm
<1>2. CASE Crash(s)
  <2>1. /\ run' = [r \in Runners |-> IF run[r].svc = s THEN Idle(s) ELSE run[r]]
        /\ begin' = [t \in Starters |-> IF begin[t].svc = s THEN NoStart(s)
                                        ELSE begin[t]]
    BY <1>2 DEF Crash
  <2>2. \A r \in Runners : run'[r] = run[r] \/ run'[r].pc = "idle"
    BY <2>1, IdleIsRun
  <2>3. NoStart(s).pc = "idle"
    BY DEF NoStart
  <2>4. \A t \in Starters : begin'[t].pc = "delete" => begin'[t] = begin[t]
    BY <2>1, <2>3
  <2>5. ASSUME NEW r \in Runners, run'[r].pc \in Answered
        PROVE  run[r].pc \in Answered /\ run'[r].code = run[r].code
    <3>1. run'[r] = run[r]
      BY <2>2, <2>5 DEF Answered
    <3> QED
      BY <2>5, <3>1
  <2> QED
    BY <2>4, <2>5, OverKept
<1> QED
  BY <1>1, <1>2

\* Connect calls: what one deletes it has read as expired.
LEMMA OverStart ==
  ASSUME IInv, AbortInv, OverInv, [Next]_vars,
         \/ \E t \in Starters, s \in Services, q \in Requests :
              StartReuses(t, s, q) \/ StartReplaces(t, s, q)
         \/ \E t \in Starters : StartStep(t)
  PROVE  OverInv'
<1>1. \A t \in Starters : begin[t] \in Starts
  BY DEF IInv, BeginInv
<1>2. run' = run \/ \E s \in Services : TaskMoves(s)
  <2>1. ASSUME NEW t \in Starters, NEW s \in Services, NEW q, CancelTask(t, s, q)
        PROVE  TaskMoves(s)
    BY <2>1 DEF CancelTask, TaskMoves, HasTask, Asleep
  <2> QED
    BY <1>1, <2>1, StartTaskMoves
       DEF StartReuses, StartReplaces, StartStep, DeleteLapsed, CreateDevice,
           SavePending, StartReturns, StartFails, Starts
<1>3. \A x \in Runners : Calm(x)
  BY <1>2, TaskRuns DEF Calm
<1>4. PICK t \in Starters :
        \E v : /\ begin' = begin \/ begin' = [begin EXCEPT ![t] = v]
               /\ v.pc = "delete" => v.code \in lapsed'
  <2>1. ASSUME NEW t \in Starters, NEW s, NEW q, CancelTask(t, s, q)
        PROVE  \E v : begin' = [begin EXCEPT ![t] = v] /\ v.pc # "delete"
    <3>1. PICK pc \in {"cancel", "create"} :
            begin' = [begin EXCEPT ![t] =
                        [pc |-> pc, svc |-> s, request |-> q, code |-> None]]
      BY <2>1 DEF CancelTask, StartAt
    <3>2. [pc |-> pc, svc |-> s, request |-> q, code |-> None].pc # "delete"
      OBVIOUS
    <3> QED
      BY <3>1, <3>2
  <2>2. ASSUME NEW t \in Starters, NEW s \in Services, NEW q \in Requests,
               StartReuses(t, s, q) \/ StartReplaces(t, s, q)
        PROVE  \E v : /\ begin' = begin \/ begin' = [begin EXCEPT ![t] = v]
                      /\ v.pc = "delete" => v.code \in lapsed'
    <3>1. CASE StartAt(t, "delete", s, q, pending) /\ pending \in lapsed'
      <4> DEFINE v == [pc |-> "delete", svc |-> s, request |-> q,
                       code |-> pending]
      <4>1. begin' = [begin EXCEPT ![t] = v]
        BY <3>1 DEF StartAt
      <4>2. v.code \in lapsed'
        BY <3>1
      <4> QED
        BY <4>1, <4>2
    <3>2. CASE UNCHANGED begin
      <4>1. NoStart(s).pc = "idle"
        BY DEF NoStart
      <4> QED
        BY <3>2, <4>1
    <3> QED
      BY <2>1, <2>2, <3>1, <3>2 DEF StartReuses, StartReplaces, server
  <2>3. ASSUME NEW t \in Starters, StartStep(t)
        PROVE  \E v : begin' = [begin EXCEPT ![t] = v] /\ v.pc # "delete"
    <3>1. CASE DeleteLapsed(t)
      BY <2>1, <3>1 DEF DeleteLapsed
    <3>2. ASSUME NEW d \in Codes, CreateDevice(t, d)
          PROVE  \E v : begin' = [begin EXCEPT ![t] = v] /\ v.pc # "delete"
      <4> DEFINE v == [begin[t] EXCEPT !.pc = "save", !.code = d]
      <4>1. begin' = [begin EXCEPT ![t] = v]
        BY <3>2 DEF CreateDevice
      <4>2. v.pc = "save"
        BY <1>1 DEF Starts
      <4> QED
        BY <4>1, <4>2
    <3>3. CASE SavePending(t)
      <4> DEFINE v == [begin[t] EXCEPT !.pc = "saved"]
      <4>1. begin' = [begin EXCEPT ![t] = v]
        BY <3>3 DEF SavePending
      <4>2. v.pc = "saved"
        BY <1>1 DEF Starts
      <4> QED
        BY <4>1, <4>2
    <3>4. CASE StartReturns(t) \/ StartFails(t)
      <4>1. NoStart(begin[t].svc).pc = "idle"
        BY DEF NoStart
      <4>2. begin' = [begin EXCEPT ![t] = NoStart(begin[t].svc)]
        BY <3>4 DEF StartReturns, StartFails
      <4> QED
        BY <4>1, <4>2
    <3> QED
      BY <2>3, <3>1, <3>2, <3>3, <3>4 DEF StartStep
  <2> QED
    BY <2>2, <2>3
<1>5. \A u \in Starters : begin'[u].pc = "delete" =>
        begin'[u] = begin[u] \/ begin'[u].code \in lapsed'
  BY <1>4 DEF IInv, TypeOK
<1> QED
  BY <1>3, <1>5, OverCalm

\* Every step.
LEMMA OverNext ==
  ASSUME IInv, AbortInv, OverInv, [Next]_vars
  PROVE  OverInv'
<1>1. CASE UNCHANGED <<run, begin>>
  BY <1>1, OverCalm DEF Calm
<1>2. CASE \E d \in Codes : OwnerDecides(d) \/ Lapse(d)
  BY <1>1, <1>2 DEF OwnerDecides, Lapse
<1>3. CASE \E k \in Checkers, s \in Services : ToolCheck(k, s)
  BY <1>3, OverCheck DEF ToolCheck, Runners
<1>4. CASE \E r \in Runners : CheckStep(r)
  <2>1. PICK r \in Runners : CheckStep(r)
    BY <1>4
  <2>2. CASE r \in Services /\ Wake(r)
    BY <2>2, OverCheck DEF Wake, Runners
  <2>3. CASE \/ ReceivePending(r) \/ RemoveCompleted(r) \/ RemoveRefused(r)
             \/ CheckFails(r)
    BY <2>3, OverEnd DEF ReceivePending, RemoveCompleted, Completed,
                         RemoveRefused, CheckFails
  <2> QED
    BY <2>1, <2>2, <2>3, OverAnswer DEF CheckStep
<1>5. CASE UNCHANGED vars
  BY <1>1, <1>5 DEF vars
<1> QED
  BY <1>2, <1>3, <1>4, <1>5, OverInstance, OverStart DEF Next

\* The steps that remove a pending file.
LEMMA Removals ==
  ASSUME IInv, [Next]_vars, pending # None, pending' = None
  PROVE  \/ \E r \in Runners : RemoveCompleted(r) \/ RemoveRefused(r)
         \/ \E t \in Starters : DeleteLapsed(t)
<1>1. ~\E t \in Starters : SavePending(t)
  BY AuthorizationAssumption DEF SavePending, IInv, BeginInv, Coded, Runners
<1> QED
  BY <1>1 DEF Next, CheckStep, StartStep, vars, files, OwnerDecides, Lapse,
      Boot, Stop, Crash, ToolCheck, StartReuses, StartReplaces, Answer,
      ReceivePending, ReceiveRefusal, ReceiveCredential, ReceiveForeign,
      StoreCredential, Activated, CheckFails, Wake, CreateDevice,
      StartReturns, StartFails

(* However instances, connect and status calls overlap, an operation that   *)
(* removes the pending file has read a code that is denied, used up or      *)
(* expired by then: one that may still be completed is lost only where it   *)
(* has taken the place of that one in between                               *)
(* (agent-mail-authorization-service.ts, lines 150-153 and 306).            *)
THEOREM StaleReadsOnly == Spec => LostToStaleReadOnly
<1> DEFINE OnlyStale ==
      pending # None /\ pending' = None /\ ~Over(pending) =>
       \/ \E r \in Runners : /\ run[r].pc \in {"remove", "drop"}
                             /\ run[r].code # pending /\ Over(run[r].code)
                             /\ run'[r] # run[r]
       \/ \E t \in Starters : /\ begin[t].pc = "delete"
                              /\ begin[t].code # pending
                              /\ Over(begin[t].code)
                              /\ begin'[t] # begin[t]
<1>1. Init => OverInv
  BY OverInit
<1>2. IInv /\ GrantInv /\ OverInv /\ [Next]_vars => OverInv'
  BY OverNext DEF GrantInv
<1>3. ASSUME IInv, GrantInv, OverInv, [Next]_vars
      PROVE  OnlyStale
  <2> SUFFICES ASSUME pending # None, pending' = None, ~Over(pending)
               PROVE
       \/ \E r \in Runners : /\ run[r].pc \in {"remove", "drop"}
                             /\ run[r].code # pending /\ Over(run[r].code)
                             /\ run'[r] # run[r]
       \/ \E t \in Starters : /\ begin[t].pc = "delete"
                              /\ begin[t].code # pending
                              /\ Over(begin[t].code)
                              /\ begin'[t] # begin[t]
    OBVIOUS
  <2>1. \/ \E r \in Runners : RemoveCompleted(r) \/ RemoveRefused(r)
        \/ \E t \in Starters : DeleteLapsed(t)
    BY <1>3, Removals
  <2>2. ASSUME NEW r \in Runners, RemoveCompleted(r) \/ RemoveRefused(r)
        PROVE  /\ run[r].pc \in {"remove", "drop"}
               /\ run[r].code # pending /\ Over(run[r].code)
               /\ run'[r] # run[r]
    <3>1. run[r].pc \in {"remove", "drop"} /\ EndCheck(r, "final")
      BY <2>2 DEF RemoveCompleted, Completed, RemoveRefused
    <3>2. run'[r].pc \in Still
      BY <1>3, <3>1, EndCheckRuns DEF GrantInv
    <3> QED
      BY <1>3, <3>1, <3>2 DEF OverInv, Answered, Still
  <2>3. ASSUME NEW t \in Starters, DeleteLapsed(t)
        PROVE  /\ begin[t].pc = "delete"
               /\ begin[t].code # pending /\ Over(begin[t].code)
               /\ begin'[t] # begin[t]
    <3>1. PICK pc \in {"cancel", "create"} :
            begin' = [begin EXCEPT ![t] =
                        [pc |-> pc, svc |-> begin[t].svc,
                         request |-> begin[t].request, code |-> None]]
      BY <2>3 DEF DeleteLapsed, CancelTask, StartAt
    <3>2. begin'[t].pc = pc
      BY <1>3, <3>1 DEF IInv, TypeOK
    <3> QED
      BY <1>3, <2>3, <3>2 DEF DeleteLapsed, OverInv, Over
  <2> QED
    BY <2>1, <2>2, <2>3
<1>4. IInv /\ GrantInv /\ OverInv /\ [Next]_vars => [OnlyStale]_vars
  BY <1>3
<1> QED
  BY <1>1, <1>2, <1>4, GrantsInvariant, PTL DEF Spec, LostToStaleReadOnly

----------------------------------------------------------------------------
(* One at a time.                                                           *)

\* One instance at a time, which nobody stops or asks for the status, and one
\* connect call at a time.
OneAtATime ==
  /\ Checkers = {} /\ MaxUp <= 1 /\ ~MayStop
  /\ \A t, u \in Starters : t = u

\* At these awaits of a connect call there is no background task.
Alone == {"create", "save", "saved"}

\* The instance that is up does all there is to do.
AloneInv ==
  /\ \A s \in Services : life[s] \in {"new", "up", "dead"}
  /\ \A s, i \in Services : Up(s) /\ Up(i) => s = i
  /\ \A s \in Services : run[s].pc # "idle" => Up(s)
  /\ \A t \in Starters : begin[t].pc # "idle" => Up(begin[t].svc)

\* What is pending is what a check or a connect call has read, unless it is
\* removed already.
ReadInv ==
  /\ \A s \in Services : Running(s) => pending \in {run[s].code, None}
  /\ \A t \in Starters :
       /\ begin[t].pc = "delete" => pending \in {begin[t].code, None}
       /\ begin[t].pc = "cancel" => begin[t].svc \in aborted
       /\ begin[t].pc \in Alone => run[begin[t].svc].pc = "idle"

KeptInv == AloneInv /\ ReadInv

\* Nothing is up.
LEMMA KeptInit ==
  ASSUME Init
  PROVE  KeptInv
<1> DEFINE s0 == CHOOSE s \in Services : TRUE
<1>1. s0 \in Services
  BY AuthorizationAssumption
<1>2. /\ run = [r \in Runners |-> Idle(IF r \in Services THEN r ELSE s0)]
      /\ begin = [t \in Starters |-> NoStart(s0)]
      /\ life = [s \in Services |-> "new"]
  BY DEF Init
<1> HIDE DEF s0
<1>3. \A r \in Runners : run[r].pc = "idle"
  BY <1>1, <1>2, IdleIsRun
<1>4. \A t \in Starters : begin[t].pc = "idle"
  BY <1>2 DEF NoStart
<1> QED
  BY <1>2, <1>3, <1>4
     DEF KeptInv, AloneInv, ReadInv, Alone, Up, Running, Runners

\* After the end of a check, whoever shared it is idle, or asleep if he was not
\* aborted; the connect calls that awaited them go on.
LEMMA EndShares ==
  ASSUME IInv, AbortInv, NEW r \in Runners, NEW result, EndCheck(r, result)
  PROVE  \E S \in SUBSET Runners :
           /\ r \in S
           /\ \A x \in S : run[x].pc # "joined" => x = r
           /\ \A x \in Runners \ S : run'[x] = run[x]
           /\ \A x \in S : \/ run'[x].pc = "idle"
                           \/ run'[x].pc = "sleep" /\ x \notin aborted
           /\ \A t \in Starters :
                \/ begin'[t] = begin[t] /\ begin[t].pc # "cancel"
                \/ begin'[t] = begin[t] /\ begin[t].svc \notin S
                \/ begin'[t] = begin[t] /\ begin[t].svc \notin aborted
                \/ /\ begin[t].pc = "cancel" /\ begin'[t].pc = "create"
                   /\ begin'[t].svc = begin[t].svc
                   /\ run'[begin[t].svc].pc = "idle"
           /\ aborted \ S \subseteq aborted'
<1>1. PICK again \in SUBSET Services :
        /\ again \subseteq Sharers(r) /\ EndWith(r, again)
        /\ again \intersect aborted = {}
  <2>1. CASE result = "pending"
    BY <2>1 DEF EndCheck
  <2>2. CASE result # "pending"
    BY <2>2 DEF EndCheck
  <2> QED
    BY <2>1, <2>2
<1> DEFINE S == Sharers(r)
<1>2. /\ S \in SUBSET Runners /\ r \in S
      /\ \A x \in S : run[x].pc # "joined" => x = r
  BY DEF Sharers
<1>3. ASSUME NEW x \in Runners
      PROVE  /\ x \notin S => run'[x] = run[x]
             /\ x \in S /\ x \notin again => run'[x].pc = "idle"
             /\ x \in again => run'[x].pc = "sleep"
  <2>1. run[x].svc \in Services
    BY DEF IInv, TypeOK, Runs
  <2>2. CASE x \in again
    <3>1. run'[x] = [Idle(x) EXCEPT !.pc = "sleep"] /\ x \in Services
      BY <1>1, <2>2 DEF EndWith
    <3> QED
      BY <1>1, <2>2, <3>1, IdleIsRun
  <2>3. CASE x \notin again /\ x \in S
    <3>1. run'[x] = Idle(run[x].svc)
      BY <1>1, <2>3 DEF EndWith
    <3>2. Idle(run[x].svc).pc = "idle"
      BY <2>1, IdleIsRun
    <3> QED
      BY <2>3, <3>1, <3>2
  <2>4. CASE x \notin again /\ x \notin S
    BY <1>1, <2>4 DEF EndWith
  <2> QED
    BY <2>2, <2>3, <2>4
<1> HIDE DEF S
<1>4. /\ begin' = [t \in Starters |->
           IF begin[t].pc = "cancel" /\ begin[t].svc \in (S \intersect Services) \ again
           THEN [begin[t] EXCEPT !.pc = "create"] ELSE begin[t]]
      /\ aborted' = aborted \ ((S \intersect Services) \ again)
  BY <1>1 DEF EndWith, TasksEnd, S
<1>5. ASSUME NEW t \in Starters
      PROVE  \/ begin'[t] = begin[t] /\ begin[t].pc # "cancel"
             \/ begin'[t] = begin[t] /\ begin[t].svc \notin S
             \/ begin'[t] = begin[t] /\ begin[t].svc \notin aborted
             \/ /\ begin[t].pc = "cancel" /\ begin'[t].pc = "create"
                /\ begin'[t].svc = begin[t].svc
                /\ run'[begin[t].svc].pc = "idle"
  <2>1. begin[t] \in Starts /\ begin[t].svc \in Runners \intersect Services
    BY DEF IInv, TypeOK, Starts, Runners
  <2>2. CASE begin[t].pc = "cancel"
             /\ begin[t].svc \in (S \intersect Services) \ again
    <3>1. begin'[t] = [begin[t] EXCEPT !.pc = "create"]
      BY <1>4, <2>2
    <3>2. begin'[t].pc = "create" /\ begin'[t].svc = begin[t].svc
      BY <2>1, <3>1 DEF Starts
    <3>3. run'[begin[t].svc].pc = "idle"
      BY <1>3, <2>1, <2>2
    <3> QED
      BY <2>2, <3>2, <3>3
  <2>3. CASE ~(begin[t].pc = "cancel"
               /\ begin[t].svc \in (S \intersect Services) \ again)
    BY <1>1, <1>4, <2>1, <2>3
  <2> QED
    BY <2>2, <2>3
<1>6. aborted \ S \subseteq aborted'
  BY <1>4
<1>7. \A x \in S : \/ run'[x].pc = "idle"
                   \/ run'[x].pc = "sleep" /\ x \notin aborted
  BY <1>1, <1>2, <1>3
<1> QED
  BY <1>2, <1>3, <1>5, <1>6, <1>7

\* A check ends; the pending file is as it was or removed.
LEMMA KeptEnd ==
  ASSUME OneAtATime, IInv, AbortInv, KeptInv, NEW r \in Services, Up(r),
         NEW result, EndCheck(r, result), run[r].pc # "idle",
         pending' \in {pending, None}
  PROVE  KeptInv'
<1> USE DEF Runners, OneAtATime
<1>1. PICK S \in SUBSET Runners :
           /\ r \in S
           /\ \A x \in S : run[x].pc # "joined" => x = r
           /\ \A x \in Runners \ S : run'[x] = run[x]
           /\ \A x \in S : \/ run'[x].pc = "idle"
                           \/ run'[x].pc = "sleep" /\ x \notin aborted
           /\ \A t \in Starters :
                \/ begin'[t] = begin[t] /\ begin[t].pc # "cancel"
                \/ begin'[t] = begin[t] /\ begin[t].svc \notin S
                \/ begin'[t] = begin[t] /\ begin[t].svc \notin aborted
                \/ /\ begin[t].pc = "cancel" /\ begin'[t].pc = "create"
                   /\ begin'[t].svc = begin[t].svc
                   /\ run'[begin[t].svc].pc = "idle"
           /\ aborted \ S \subseteq aborted'
  BY EndShares
<1>2. life' = life
  <2>1. LivesOn
    BY EndCheckRuns
  <2>2. life' \in
          [Services -> {"new", "up", "stopping", "stopped", "dead"}]
    BY EndCheckStep
  <2>3. \A s \in Services : life'[s] = life[s]
    BY <2>1 DEF LivesOn, KeptInv, AloneInv
  <2> QED
    BY <2>2, <2>3 DEF IInv, TypeOK
<1>3. \A x \in S : run[x].pc # "idle" /\ Up(x)
  BY <1>1 DEF KeptInv, AloneInv
<1>4. \A t \in Starters : begin[t].svc \in Services
  BY DEF IInv, TypeOK, Starts
<1>5. AloneInv'
  BY <1>1, <1>2, <1>3 DEF KeptInv, AloneInv, Up
<1>6. \A s \in Services : Running(s)' => pending' \in {run'[s].code, None}
  BY <1>1 DEF KeptInv, ReadInv, Running
<1>7. ASSUME NEW t \in Starters
      PROVE  /\ begin'[t].pc = "delete" => pending' \in {begin'[t].code, None}
             /\ begin'[t].pc = "cancel" => begin'[t].svc \in aborted'
             /\ begin'[t].pc \in Alone => run'[begin'[t].svc].pc = "idle"
  <2>1. CASE begin[t].pc = "cancel" /\ begin'[t].pc = "create"
             /\ begin'[t].svc = begin[t].svc
             /\ run'[begin[t].svc].pc = "idle"
    BY <2>1
  <2>2. CASE begin'[t] = begin[t] /\ begin[t].pc # "cancel"
    <3>1. begin[t].pc \in Alone => begin[t].svc \notin S
      BY <1>3 DEF KeptInv, ReadInv
    <3> QED
      BY <1>1, <1>4, <2>2, <3>1 DEF KeptInv, ReadInv
  <2>3. CASE begin'[t] = begin[t] /\ begin[t].pc = "cancel"
             /\ begin[t].svc \notin S
    BY <1>1, <2>3 DEF KeptInv, ReadInv, Alone
  <2>4. CASE begin'[t] = begin[t] /\ begin[t].pc = "cancel"
             /\ begin[t].svc \notin aborted
    BY <2>4 DEF KeptInv, ReadInv
  <2> QED
    BY <1>1, <2>1, <2>2, <2>3, <2>4
<1> QED
  BY <1>5, <1>6, <1>7 DEF KeptInv, ReadInv

\* The task begins a check: of what is pending.
LEMMA KeptWake ==
  ASSUME OneAtATime, IInv, AbortInv, KeptInv, NEW s \in Services, Wake(s)
  PROVE  KeptInv'
<1>1. /\ run[s].pc = "sleep" /\ Check(s, s) /\ UNCHANGED <<server, files>>
  BY DEF Wake, Asleep
<1>2. Up(s) /\ pending' = pending
  BY <1>1 DEF KeptInv, AloneInv, files
<1>3. CASE EndCheck(s, "final")
  BY <1>1, <1>2, <1>3, KeptEnd DEF Runners
<1>4. CASE ~EndCheck(s, "final")
  <2>1. UNCHANGED <<begin, life, aborted>>
    BY <1>1, <1>4 DEF Check, CheckOnce
  <2>2. PICK v : /\ run' = [run EXCEPT ![s] = v]
                 /\ v.pc \in {"joined", "sent", "drop"}
                 /\ v.pc # "joined" => v.code = pending
    <3>1. CASE checks[s] # None
      <4> DEFINE v == [pc |-> "joined", svc |-> s, code |-> None,
                       on |-> checks[s]]
      <4>1. run' = [run EXCEPT ![s] = v]
        BY <1>1, <1>4, <3>1 DEF Check
      <4>2. v.pc = "joined"
        OBVIOUS
      <4> HIDE DEF v
      <4> QED
        BY <4>1, <4>2
    <3>2. CASE checks[s] = None
      <4> DEFINE v == [pc |-> IF pending \in lapsed THEN "drop" ELSE "sent",
                       svc |-> s, code |-> pending, on |-> None]
      <4>1. run' = [run EXCEPT ![s] = v]
        BY <1>1, <1>4, <3>2 DEF Check, CheckOnce
      <4>2. v.code = pending /\ v.pc \in {"sent", "drop"}
        OBVIOUS
      <4> HIDE DEF v
      <4> QED
        BY <4>1, <4>2
    <3> QED
      BY <3>1, <3>2
  <2>3. run'[s] = v /\ \A x \in Services \ {s} : run'[x] = run[x]
    BY <2>2 DEF IInv, TypeOK, Runners
  <2>4. AloneInv'
    BY <1>2, <2>1, <2>3 DEF KeptInv, AloneInv, Up
  <2>5. \A x \in Services : Running(x)' => pending' \in {run'[x].code, None}
    BY <1>2, <2>2, <2>3 DEF KeptInv, ReadInv, Running
  <2>6. \A t \in Starters : begin[t].svc \in Services
    BY DEF IInv, TypeOK, Starts
  <2>7. \A t \in Starters : begin[t].pc \in Alone => begin[t].svc # s
    BY <1>1 DEF KeptInv, ReadInv
  <2> QED
    BY <1>2, <2>1, <2>3, <2>4, <2>5, <2>6, <2>7 DEF KeptInv, ReadInv
<1> QED
  BY <1>3, <1>4

\* The server, the owner, and a check that goes on.
LEMMA KeptQuiet ==
  ASSUME OneAtATime, IInv, KeptInv, UNCHANGED <<pending, life, aborted, begin>>,
         \A x \in Services : \/ run'[x] = run[x]
                             \/ /\ Running(x) /\ Running(x)'
                                /\ run'[x].code = run[x].code
  PROVE  KeptInv'
<1>1. AloneInv'
  BY DEF KeptInv, AloneInv, Up, Running
<1>2. \A t \in Starters : begin[t].svc \in Services
  BY DEF IInv, TypeOK, Starts
<1>3. \A s \in Services : Running(s)' => pending' \in {run'[s].code, None}
  BY DEF KeptInv, ReadInv, Running
<1>4. \A t \in Starters :
        begin[t].pc \in Alone => run'[begin[t].svc].pc = "idle"
  BY <1>2 DEF KeptInv, ReadInv, Running
<1> QED
  BY <1>1, <1>3, <1>4 DEF KeptInv, ReadInv

\* A check goes on with the code it has read.
LEMMA KeptGoto ==
  ASSUME OneAtATime, IInv, KeptInv, NEW r \in Runners,
         \/ Answer(r) \/ ReceiveRefusal(r) \/ ReceiveCredential(r)
         \/ ReceiveForeign(r) \/ StoreCredential(r) \/ Activated(r)
  PROVE  KeptInv'
<1>1. /\ Running(r) /\ UNCHANGED <<pending, life, aborted, begin>>
      /\ \E to \in {"granted", "unsettled", "refused", "store", "activate",
                    "remove", "drop"} : run' = [run EXCEPT ![r].pc = to]
  BY DEF Answer, ReceiveRefusal, ReceiveCredential, ReceiveForeign,
         StoreCredential, Activated, Goto, Running, files, service
<1>2. /\ \A x \in Runners \ {r} : run'[x] = run[x]
      /\ Running(r)' /\ run'[r].code = run[r].code
  BY <1>1, GotoRuns DEF Running
<1> QED
  BY <1>1, <1>2, KeptQuiet DEF Runners

\* Boot and crash; nobody stops an instance.
LEMMA KeptInstance ==
  ASSUME OneAtATime, IInv, AbortInv, KeptInv, NEW s \in Services,
         Boot(s) \/ Stop(s) \/ Crash(s)
  PROVE  KeptInv'
<1> USE DEF Runners
<1>0. \A t \in Starters : begin[t].svc \in Services
  BY DEF IInv, TypeOK, Starts
<1>1. CASE Boot(s)
  <2>1. \A x \in Services : ~Up(x)
    <3> DEFINE Us == {x \in Services : life[x] \in {"up", "stopping"}}
    <3>1. IsFiniteSet(Us)
      BY AuthorizationAssumption, FS_Subset
    <3>2. Cardinality(Us) \in Nat /\ Cardinality(Us) < MaxUp
      BY <1>1, <3>1, FS_CardinalityType DEF Boot
    <3>3. Cardinality(Us) = 0
      BY <3>2, AuthorizationAssumption DEF OneAtATime
    <3>4. Us = {}
      BY <3>1, <3>3, FS_EmptySet
    <3> QED
      BY <3>4 DEF Up
  <2>2. /\ \A x \in Services : run[x].pc = "idle"
        /\ \A t \in Starters : begin[t].pc = "idle"
    BY <1>0, <2>1 DEF KeptInv, AloneInv
  <2>3. /\ UNCHANGED <<begin, pending, aborted>>
        /\ life' = [life EXCEPT ![s] = "up"]
        /\ StartTask(s)
    BY <1>1 DEF Boot, files
  <2>4. /\ life'[s] = "up"
        /\ \A x \in Services \ {s} : life'[x] = life[x]
    BY <2>3 DEF IInv, TypeOK
  <2>5. /\ \A x \in Services \ {s} : run'[x] = run[x]
        /\ run'[s].pc \in {"idle", "sleep"}
    <3>1. CASE run' = run
      BY <2>2, <3>1
    <3>2. CASE run' = [run EXCEPT ![s].pc = "sleep"]
      BY <3>2, GotoRuns
    <3> QED
      BY <2>3, <3>1, <3>2 DEF StartTask
  <2>6. AloneInv'
    BY <2>1, <2>2, <2>3, <2>4, <2>5 DEF KeptInv, AloneInv, Up
  <2>7. \A x \in Services : ~Running(x)'
    BY <2>2, <2>5 DEF Running
  <2> QED
    BY <2>2, <2>3, <2>6, <2>7 DEF KeptInv, ReadInv, Alone
<1>2. CASE Stop(s)
  BY <1>2 DEF Stop, OneAtATime
<1>3. CASE Crash(s)
  <2>1. /\ life' = [life EXCEPT ![s] = "dead"]
        /\ run' = [r \in Runners |-> IF run[r].svc = s THEN Idle(s) ELSE run[r]]
        /\ begin' = [t \in Starters |-> IF begin[t].svc = s THEN NoStart(s)
                                        ELSE begin[t]]
        /\ pending' = pending /\ aborted' = aborted \ {s}
    BY <1>3 DEF Crash, files
  <2>2. life'[s] = "dead" /\ \A x \in Services \ {s} : life'[x] = life[x]
    BY <2>1 DEF IInv, TypeOK
  <2>3. /\ run'[s].pc = "idle"
        /\ \A x \in Services \ {s} : run'[x] = run[x]
    BY <2>1, IdleIsRun DEF IInv, TaskInv
  <2>4. NoStart(s).pc = "idle"
    BY DEF NoStart
  <2>5. \A t \in Starters :
          \/ begin'[t].pc = "idle"
          \/ begin'[t] = begin[t] /\ begin[t].svc \in Services \ {s}
    BY <1>0, <2>1, <2>4
  <2>6. AloneInv'
    BY <2>2, <2>3, <2>5 DEF KeptInv, AloneInv, Up
  <2>7. \A x \in Services : Running(x)' => pending' \in {run'[x].code, None}
    BY <2>1, <2>3 DEF KeptInv, ReadInv, Running
  <2>8. ASSUME NEW t \in Starters, begin'[t].pc # "idle"
        PROVE  /\ begin'[t].pc = "delete" => pending' \in {begin'[t].code, None}
               /\ begin'[t].pc = "cancel" => begin'[t].svc \in aborted'
               /\ begin'[t].pc \in Alone => run'[begin'[t].svc].pc = "idle"
    BY <2>1, <2>3, <2>5, <2>8 DEF KeptInv, ReadInv
  <2> QED
    BY <2>6, <2>7, <2>8 DEF KeptInv, ReadInv, Alone
<1> QED
  BY <1>1, <1>2, <1>3

\* The one connect call moves, and maybe the task with it.
LEMMA KeptBegin ==
  ASSUME OneAtATime, IInv, KeptInv, NEW t \in Starters, NEW s \in Services,
         Up(s), TaskMoves(s), UNCHANGED life,
         \A x \in Services : Running(x) => pending' \in {run[x].code, None},
         begin'[t].pc # "idle" => begin'[t].svc = s,
         begin'[t].pc = "delete" => pending' \in {begin'[t].code, None},
         begin'[t].pc = "cancel" => s \in aborted',
         begin'[t].pc \in Alone => run'[s].pc = "idle"
  PROVE  KeptInv'
<1> USE DEF Runners
<1>1. \A u \in Starters : u = t
  BY DEF OneAtATime
<1>2. /\ \A x \in Services \ {s} : run'[x] = run[x]
      /\ run'[s] = run[s] \/ run'[s].pc \in {"idle", "sleep"}
  <2>1. CASE run' = run
    BY <2>1
  <2>2. CASE run' = [run EXCEPT ![s].pc = "sleep"]
    BY <2>2, GotoRuns
  <2>3. CASE run' = [run EXCEPT ![s] = Idle(s)]
    BY <2>3, IdleIsRun DEF IInv, TypeOK
  <2> QED
    BY <2>1, <2>2, <2>3 DEF TaskMoves
<1>3. AloneInv'
  BY <1>1, <1>2 DEF KeptInv, AloneInv, Up
<1>4. \A x \in Services : Running(x)' => pending' \in {run'[x].code, None}
  BY <1>2 DEF Running
<1> QED
  BY <1>1, <1>3, <1>4 DEF KeptInv, ReadInv, Alone

\* What CancelTask leaves behind.
LEMMA CancelLeaves ==
  ASSUME IInv, NEW t \in Starters, NEW s \in Services, NEW q,
         CancelTask(t, s, q)
  PROVE  /\ TaskMoves(s)
         /\ begin'[t].pc \in {"cancel", "create"} /\ begin'[t].svc = s
         /\ begin'[t].pc = "cancel" => s \in aborted'
         /\ begin'[t].pc = "create" => run'[s].pc = "idle"
<1>1. TaskMoves(s)
  BY DEF CancelTask, TaskMoves, HasTask, Asleep
<1>2. PICK pc \in {"cancel", "create"} :
        begin' = [begin EXCEPT ![t] =
                    [pc |-> pc, svc |-> s, request |-> q, code |-> None]]
  BY DEF CancelTask, StartAt
<1>3. begin'[t] = [pc |-> pc, svc |-> s, request |-> q, code |-> None]
  BY <1>2 DEF IInv, TypeOK
<1>4. begin'[t].pc = pc /\ begin'[t].svc = s
  BY <1>3
<1>5. CASE HasTask(s) /\ ~Asleep(s)
  <2>1. /\ begin' = [begin EXCEPT ![t] =
                    [pc |-> "cancel", svc |-> s, request |-> q, code |-> None]]
        /\ s \in aborted'
    BY <1>5 DEF CancelTask, StartAt
  <2>2. begin'[t].pc = "cancel"
    BY <2>1 DEF IInv, TypeOK
  <2> QED
    BY <1>1, <1>4, <2>1, <2>2
<1>6. CASE ~(HasTask(s) /\ ~Asleep(s))
  <2>1. /\ begin' = [begin EXCEPT ![t] =
                    [pc |-> "create", svc |-> s, request |-> q, code |-> None]]
        /\ run' = [run EXCEPT ![s] = Idle(s)]
    BY <1>6 DEF CancelTask, StartAt
  <2>2. begin'[t].pc = "create"
    BY <2>1 DEF IInv, TypeOK
  <2>3. run'[s].pc = "idle"
    BY <2>1, IdleIsRun DEF IInv, TypeOK, Runners
  <2> QED
    BY <1>1, <1>4, <2>2, <2>3
<1> QED
  BY <1>5, <1>6

\* A connect call begins.
LEMMA KeptCalled ==
  ASSUME OneAtATime, IInv, KeptInv, NEW t \in Starters, NEW s \in Services,
         NEW q \in Requests, StartReuses(t, s, q) \/ StartReplaces(t, s, q)
  PROVE  KeptInv'
<1>1. /\ Up(s) /\ UNCHANGED <<life, pending>> /\ begin[t].pc = "idle"
  BY DEF StartReuses, StartReplaces, service, files
<1>2. \A x \in Services : Running(x) => pending' \in {run[x].code, None}
  BY <1>1 DEF KeptInv, ReadInv
<1>3. CASE StartReuses(t, s, q)
  <2>1. TaskMoves(s) /\ begin'[t].pc = "idle"
    BY <1>1, <1>3, StartTaskMoves DEF StartReuses
  <2> QED
    BY <1>1, <1>2, <2>1, KeptBegin DEF Alone
<1>4. CASE StartReplaces(t, s, q) /\ CancelTask(t, s, q)
  BY <1>1, <1>2, <1>4, CancelLeaves, KeptBegin DEF Alone
<1>5. CASE StartReplaces(t, s, q) /\ StartAt(t, "delete", s, q, pending)
           /\ UNCHANGED run
  <2>1. begin'[t] = [pc |-> "delete", svc |-> s, request |-> q,
                     code |-> pending]
    BY <1>5 DEF StartAt, IInv, TypeOK
  <2>2. begin'[t].pc = "delete" /\ begin'[t].svc = s /\ begin'[t].code = pending
    BY <2>1
  <2> QED
    BY <1>1, <1>2, <1>5, <2>2, KeptBegin DEF Alone, TaskMoves
<1> QED
  BY <1>3, <1>4, <1>5 DEF StartReplaces

\* A connect call goes on.
LEMMA KeptStart ==
  ASSUME OneAtATime, IInv, KeptInv, NEW t \in Starters, StartStep(t)
  PROVE  KeptInv'
<1> DEFINE s == begin[t].svc
<1>1. begin[t] \in Starts /\ s \in Services
  BY DEF IInv, TypeOK, Starts
<1>2. Up(s) /\ UNCHANGED life
  BY <1>1 DEF KeptInv, AloneInv, StartStep, DeleteLapsed, CreateDevice,
              SavePending, StartReturns, StartFails, service
<1>3. CASE DeleteLapsed(t)
  <2>1. pending' = None /\ CancelTask(t, s, begin[t].request)
    BY <1>3 DEF DeleteLapsed
  <2> QED
    BY <1>1, <1>2, <2>1, CancelLeaves, KeptBegin DEF Alone
<1>4. CASE \E d \in Codes : CreateDevice(t, d)
  <2>1. PICK d \in Codes : CreateDevice(t, d)
    BY <1>4
  <2>2. /\ begin' = [begin EXCEPT ![t] = [begin[t] EXCEPT !.pc = "save",
                                                          !.code = d]]
        /\ begin[t].pc = "create" /\ UNCHANGED <<run, pending>>
    BY <2>1 DEF CreateDevice, files
  <2>3. begin'[t].pc = "save" /\ begin'[t].svc = s
    BY <1>1, <2>2 DEF IInv, TypeOK, Starts
  <2>4. run'[s].pc = "idle"
    BY <2>2 DEF KeptInv, ReadInv, Alone
  <2> QED
    BY <1>1, <1>2, <2>2, <2>3, <2>4, KeptBegin
       DEF TaskMoves, KeptInv, ReadInv
<1>5. CASE SavePending(t)
  <2>1. /\ begin' = [begin EXCEPT ![t] = [begin[t] EXCEPT !.pc = "saved"]]
        /\ begin[t].pc = "save" /\ UNCHANGED run
    BY <1>5 DEF SavePending
  <2>2. begin'[t].pc = "saved" /\ begin'[t].svc = s
    BY <1>1, <2>1 DEF IInv, TypeOK, Starts
  <2>3. run[s].pc = "idle"
    BY <2>1 DEF KeptInv, ReadInv, Alone
  <2>4. \A x \in Services : ~Running(x)
    BY <1>1, <1>2, <2>3 DEF KeptInv, AloneInv, Running
  <2> QED
    BY <1>1, <1>2, <2>1, <2>2, <2>3, <2>4, KeptBegin DEF TaskMoves
<1>6. CASE StartReturns(t) \/ StartFails(t)
  <2>1. /\ begin' = [begin EXCEPT ![t] = NoStart(s)]
        /\ TaskMoves(s) /\ UNCHANGED pending
    BY <1>1, <1>6, StartTaskMoves
       DEF StartReturns, StartFails, TaskMoves, files
  <2>2. NoStart(s).pc = "idle"
    BY DEF NoStart
  <2>3. begin'[t].pc = "idle"
    BY <2>1, <2>2 DEF IInv, TypeOK
  <2> QED
    BY <1>1, <1>2, <2>1, <2>3, KeptBegin DEF Alone, KeptInv, ReadInv
<1> QED
  BY <1>3, <1>4, <1>5, <1>6 DEF StartStep

\* Every step.
LEMMA KeptNext ==
  ASSUME OneAtATime, IInv, AbortInv, KeptInv, [Next]_vars
  PROVE  KeptInv'
<1>1. CASE UNCHANGED <<run, pending, life, aborted, begin>>
  BY <1>1, KeptQuiet
<1>2. CASE \E d \in Codes : OwnerDecides(d) \/ Lapse(d)
  BY <1>1, <1>2 DEF OwnerDecides, Lapse, files, service
<1>3. CASE \E k \in Checkers, s \in Services : ToolCheck(k, s)
  BY <1>3 DEF OneAtATime
<1>4. CASE \E r \in Runners : CheckStep(r)
  <2>1. PICK r \in Services : r \in Runners /\ CheckStep(r)
    BY <1>4 DEF OneAtATime, Runners
  <2>2. CASE \/ ReceivePending(r) \/ RemoveCompleted(r) \/ RemoveRefused(r)
             \/ CheckFails(r)
    <3>1. /\ \E result : EndCheck(r, result)
          /\ run[r].pc # "idle" /\ pending' \in {pending, None}
      BY <2>2 DEF ReceivePending, RemoveCompleted, Completed, RemoveRefused,
                  CheckFails, InExchange, files
    <3>2. Up(r)
      BY <3>1 DEF KeptInv, AloneInv
    <3> QED
      BY <3>1, <3>2, KeptEnd
  <2> QED
    BY <2>1, <2>2, KeptGoto, KeptWake DEF CheckStep
<1>5. CASE UNCHANGED vars
  BY <1>1, <1>5 DEF vars, files, service
<1> QED
  BY <1>2, <1>3, <1>4, <1>5, KeptInstance, KeptCalled, KeptStart DEF Next

(* Where nothing overlaps, no pending authorization is removed before the   *)
(* server has settled its code or it has expired: a connect call that       *)
(* replaces it waits for the background task, over crashes and restarts.    *)
(* With the status tool, a second process, a second connect call or a stop  *)
(* that leaves a connect call behind, this is false; StaleReadsOnly says    *)
(* what is true then.                                                       *)
THEOREM PendingIsKept ==
  ASSUME OneAtATime
  PROVE  Spec => PendingKept
<1> DEFINE Kept == pending # None /\ pending' = None => Over(pending)
<1>1. Init => OverInv /\ KeptInv
  BY OverInit, KeptInit
<1>2. IInv /\ GrantInv /\ OverInv /\ KeptInv /\ [Next]_vars
        => (OverInv /\ KeptInv)'
  BY OverNext, KeptNext DEF GrantInv
<1>3. ASSUME IInv, GrantInv, OverInv, KeptInv, [Next]_vars
      PROVE  Kept
  <2> SUFFICES ASSUME pending # None, pending' = None
               PROVE  Over(pending)
    OBVIOUS
  <2>1. \/ \E r \in Runners : RemoveCompleted(r) \/ RemoveRefused(r)
        \/ \E t \in Starters : DeleteLapsed(t)
    BY <1>3, Removals
  <2>2. ASSUME NEW r \in Runners, RemoveCompleted(r) \/ RemoveRefused(r)
        PROVE  Over(pending)
    <3>1. r \in Services /\ run[r].pc \in {"remove", "drop"}
      BY <2>2 DEF RemoveCompleted, Completed, RemoveRefused, OneAtATime, Runners
    <3>2. pending = run[r].code
      BY <1>3, <3>1 DEF KeptInv, ReadInv, Running
    <3> QED
      BY <1>3, <3>1, <3>2 DEF OverInv, Answered, Runners
  <2>3. ASSUME NEW t \in Starters, DeleteLapsed(t)
        PROVE  Over(pending)
    BY <1>3, <2>3 DEF DeleteLapsed, KeptInv, ReadInv, OverInv, Over
  <2> QED
    BY <2>1, <2>2, <2>3
<1>4. IInv /\ GrantInv /\ OverInv /\ KeptInv /\ [Next]_vars => [Kept]_vars
  BY <1>3
<1> QED
  BY <1>1, <1>2, <1>4, GrantsInvariant, PTL DEF Spec, PendingKept
=============================================================================
