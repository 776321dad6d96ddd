---------------------------- MODULE Authorization ----------------------------
(***************************************************************************)
(* AgentMailAuthorizationService for one Plugin Account: the connect tool  *)
(* (start), the status tool (check), the background task that completes an *)
(* approved authorization, the pending-authorization file they share and   *)
(* the authorization server (external).                                    *)
(*                                                                         *)
(* A service instance lives from a boot to a stop or a crash; instances of *)
(* several processes may live at once.  The pending file is read           *)
(* synchronously, so a step reads it and acts on it; it is written and     *)
(* removed by awaited operations, which are steps of their own.            *)
(***************************************************************************)
EXTENDS Naturals, FiniteSets

CONSTANTS
  Services,   \* service instances, each also names its background task
  Checkers,   \* concurrent calls of the status tool
  Starters,   \* concurrent calls of the connect tool
  Codes,      \* device codes the server may issue
  Requests,   \* mailbox and Space asked for; one mailbox each
  None,
  MaxUp,      \* instances that live at the same time
  MaxErrors,  \* bound of the model: requests and activations that fail
  MayLapse,   \* codes may expire
  MayStop,    \* instances may be stopped
  MayCrash    \* processes may crash

Runners == Services \union Checkers   \* who runs a check

ASSUME AuthorizationAssumption ==
  /\ Services # {} /\ IsFiniteSet(Services) /\ IsFiniteSet(Codes)
  /\ None \notin Runners \union Codes \union Requests
  /\ Services \intersect Checkers = {}
  /\ MaxUp \in Nat /\ MaxErrors \in Nat
  /\ {MayLapse, MayStop, MayCrash} \subseteq BOOLEAN

VARIABLES
  status,     \* server: of each code
  lapsed,     \* codes whose expiresAt has passed
  request,    \* what each code was issued for
  shown,      \* codes an owner was given
  pending,    \* the pending-authorization file
  stored,     \* the credential file: the code its credential was issued for
  life,       \* of each service instance
  checks,     \* #checks of each instance: who runs the check in flight
  connected,  \* #connected of each instance
  aborted,    \* the background task's AbortController
  run,        \* the check each runner runs, waits for or sleeps before
  begin,      \* the start each connect call is in
  order,      \* history: the place of each code among those granted, or 0
  latest,     \* history: the code last saved as pending
  kept,       \* history: the instance that stored the credential of each code
  unreported, \* history: codes whose check failed after it had stored them
  cut,        \* history: exchanges that start() has aborted
  errors      \* failures so far, capped by MaxErrors

server  == <<status, lapsed, request, shown, order>>
files   == <<pending, stored, latest, kept, unreported>>
service == <<life, checks, connected, aborted>>
vars    == <<server, files, service, run, begin, cut, errors>>

\* The check each runner is in, on instance `svc`: `on` is the runner whose
\* check it shares.
Runs == [pc : {"idle", "sleep", "joined", "sent", "granted", "unsettled",
               "refused", "store", "activate", "remove", "drop"},
         svc : Services, code : Codes \union {None},
         on : Runners \union {None}]

Starts == [pc : {"idle", "delete", "cancel", "create", "save", "saved"},
           svc : Services, request : Requests \union {None},
           code : Codes \union {None}]

Up(s) == life[s] = "up"
Idle(s) == [pc |-> "idle", svc |-> s, code |-> None, on |-> None]

\* bg tasks: asleep between two checks, or inside one
Asleep(s)  == run[s].pc = "sleep"
HasTask(s) == run[s].pc # "idle"

Fault == errors < MaxErrors /\ errors' = errors + 1

----------------------------------------------------------------------------
(* The server and the mailbox owner.                                       *)

OwnerDecides(d) ==
  /\ status[d] = "waiting" /\ d \in shown
  /\ \E answer \in {"approved", "denied"} :
       status' = [status EXCEPT ![d] = answer]
  /\ UNCHANGED <<lapsed, request, shown, order, files, service, run, begin,
                 cut, errors>>

Lapse(d) ==
  /\ MayLapse /\ status[d] # "unused" /\ d \notin lapsed
  /\ lapsed' = lapsed \union {d}
  /\ UNCHANGED <<status, request, shown, order, files, service, run, begin,
                 cut, errors>>

\* The server handles an exchange; the answer is on its way.
Answer(r) ==
  LET d == run[r].code IN
  /\ run[r].pc = "sent"
  /\ \E answer \in {"granted", "unsettled", "refused"} :
       /\ run' = [run EXCEPT ![r].pc = answer]
       /\ CASE answer = "granted" ->
                 /\ status[d] = "approved"
                 /\ status' = [status EXCEPT ![d] = "used"]
                 /\ order' = [order EXCEPT ![d] =
                      1 + Cardinality({e \in Codes : order[e] > 0})]
            [] answer = "unsettled" ->
                 status[d] = "waiting" /\ UNCHANGED <<status, order>>
            [] answer = "refused" ->
                 /\ status[d] \in {"denied", "used"} \/ d \in lapsed
                 /\ UNCHANGED <<status, order>>
  /\ UNCHANGED <<lapsed, request, shown, files, service, begin, cut, errors>>

----------------------------------------------------------------------------
(* The end of a check, and of a background task.                           *)

Sharers(r) == {x \in Runners : x = r \/ (run[x].pc = "joined" /\ run[x].on = r)}

\* Background tasks S end: the calls of start that await them go on, and an
\* instance that is stopping has stopped.
TasksEnd(S) ==
  /\ begin' = [t \in Starters |->
       IF begin[t].pc = "cancel" /\ begin[t].svc \in S
       THEN [begin[t] EXCEPT !.pc = "create"] ELSE begin[t]]
  /\ life' = [s \in Services |->
       IF s \in S /\ life[s] = "stopping" THEN "stopped" ELSE life[s]]
  /\ aborted' = aborted \ S

\* The check that r runs ends, for everyone who shares it; the background
\* tasks in `again` sleep.
EndWith(r, again) ==
  /\ checks' = [s \in Services |-> IF checks[s] = r THEN None ELSE checks[s]]
  /\ run' = [x \in Runners |->
       IF x \in again THEN [Idle(x) EXCEPT !.pc = "sleep"]
       ELSE IF x \in Sharers(r) THEN Idle(run[x].svc) ELSE run[x]]
  /\ TasksEnd((Sharers(r) \intersect Services) \ again)

\* mutant: a background task checks once
EndCheckOnce(r, result) == EndWith(r, {})

\* After a "pending" result a task goes on unless it has been aborted.
EndCheck(r, result) ==
  EndWith(r, IF result = "pending"
             THEN (Sharers(r) \intersect Services) \ aborted ELSE {})

----------------------------------------------------------------------------
(* check: #checkOnce, shared by everyone who asks while one is running.    *)

\* What the check of r on s does before it first awaits.
CheckOnce(r, s) ==
  IF pending = None
  THEN /\ EndCheck(r, "final")
  ELSE /\ run' = [run EXCEPT ![r] =
            [pc |-> IF pending \in lapsed THEN "drop" ELSE "sent",
             svc |-> s, code |-> pending, on |-> None]]
       /\ checks' = [checks EXCEPT ![s] = r]
       /\ UNCHANGED <<life, aborted, begin>>

\* mutant: every caller runs a check of its own
CheckAlone(r, s) ==
  IF Up(s) THEN CheckOnce(r, s) ELSE EndCheck(r, "final")

Check(r, s) ==
  IF ~Up(s) THEN EndCheck(r, "final")
  ELSE IF checks[s] # None
  THEN /\ run' = [run EXCEPT ![r] = [pc |-> "joined", svc |-> s, code |-> None,
                                     on |-> checks[s]]]
       /\ UNCHANGED <<life, checks, aborted, begin>>
  ELSE CheckOnce(r, s)

ToolCheck(k, s) ==
  /\ run[k].pc = "idle" /\ Up(s)
  /\ Check(k, s)
  /\ UNCHANGED <<server, files, connected, cut, errors>>

Wake(s) ==
  /\ Asleep(s)
  /\ Check(s, s)
  /\ UNCHANGED <<server, files, connected, cut, errors>>

\* The exchange of a background task that has been aborted never completes.
Open(r) == ~(r \in Services /\ r \in aborted)

Goto(r, from, to) == run[r].pc = from /\ run' = [run EXCEPT ![r].pc = to]

\* mutant: a request that is not decided yet is taken for a refused one
ReceiveAny(r) ==
  /\ Goto(r, "unsettled", "drop") /\ Open(r)
  /\ UNCHANGED <<server, files, service, begin, cut, errors>>

ReceivePending(r) ==
  /\ run[r].pc = "unsettled" /\ Open(r)
  /\ EndCheck(r, "pending")
  /\ UNCHANGED <<server, files, connected, cut, errors>>

ReceiveRefusal(r) ==
  /\ Goto(r, "refused", "drop") /\ Open(r)
  /\ UNCHANGED <<server, files, service, begin, cut, errors>>

\* mutant: a credential is dropped when its request is not the pending one
ReceiveCurrent(r) ==
  /\ Open(r)
  /\ Goto(r, "granted", IF pending = run[r].code THEN "store" ELSE "drop")
  /\ UNCHANGED <<server, files, service, begin, cut, errors>>

ReceiveCredential(r) ==
  /\ Goto(r, "granted", "store") /\ Open(r)
  /\ UNCHANGED <<server, files, service, begin, cut, errors>>

\* assertCredentialIdentity: a credential of another Bot is discarded
ReceiveForeign(r) ==
  /\ Goto(r, "granted", "drop") /\ Open(r)
  /\ Fault
  /\ UNCHANGED <<server, files, service, begin, cut>>

StoreCredential(r) ==
  /\ Goto(r, "store", "activate")
  /\ stored' = run[r].code
  /\ kept' = [kept EXCEPT ![run[r].code] = run[r].svc]
  /\ UNCHANGED <<server, pending, latest, unreported, service, begin, cut,
                 errors>>

\* onCredentialStored has activated the account.
Activated(r) ==
  /\ Goto(r, "activate", "remove")
  /\ UNCHANGED <<server, files, service, begin, cut, errors>>

Completed(r, code) ==
  /\ run[r].pc = "remove"
  /\ pending' = None
  /\ connected' = [connected EXCEPT ![run[r].svc] = code]
  /\ EndCheck(r, "final")
  /\ UNCHANGED <<server, stored, latest, kept, unreported, cut, errors>>

\* mutant: the mailbox of the pending request is reported as connected
RemoveReported(r) == Completed(r, pending)

RemoveCompleted(r) == Completed(r, run[r].code)

\* expired, denied, used, or a credential of another Bot
RemoveRefused(r) ==
  /\ run[r].pc = "drop"
  /\ pending' = None
  /\ EndCheck(r, "final")
  /\ UNCHANGED <<server, stored, latest, kept, unreported, connected, cut,
                 errors>>

InExchange(r) == run[r].pc \in {"sent", "granted", "refused", "unsettled"}

\* The credential is in the file, #connected is not assigned yet.
Finishing(r) == run[r].pc \in {"activate", "remove"}

\* The request fails or is aborted, or an operation after it fails.
CheckFails(r) ==
  /\ \/ InExchange(r) /\ ~Open(r) /\ UNCHANGED errors
     \/ InExchange(r) /\ Fault
     \/ run[r].pc \in {"store", "activate", "remove", "drop"} /\ Fault
  /\ EndCheck(r, "final")
  /\ unreported' = unreported \union (IF Finishing(r) THEN {run[r].code} ELSE {})
  /\ UNCHANGED <<server, pending, stored, latest, kept, connected, cut>>

----------------------------------------------------------------------------
(* start.                                                                  *)

\* #startBackgroundTask and the synchronous load at its beginning.
StartTask(s) ==
  run' = IF HasTask(s) \/ pending = None THEN run
         ELSE [run EXCEPT ![s].pc = "sleep"]

\* `read` is the pending code that the call is about to delete.
StartAt(t, pc, s, q, read) ==
  begin' = [begin EXCEPT ![t] =
    [pc |-> pc, svc |-> s, request |-> q, code |-> read]]

\* mutant: the aborted task is not awaited
CancelUnawaited(t, s, q) ==
  /\ StartAt(t, "create", s, q, None)
  /\ IF HasTask(s) /\ ~Asleep(s)
     THEN aborted' = aborted \union {s} /\ UNCHANGED run
     ELSE run' = [run EXCEPT ![s] = Idle(s)] /\ UNCHANGED aborted
  /\ UNCHANGED cut

\* #cancelBackgroundTask: a sleeping task ends at once, another is aborted and
\* awaited.
CancelTask(t, s, q) ==
  IF HasTask(s) /\ ~Asleep(s)
  THEN /\ StartAt(t, "cancel", s, q, None)
       /\ aborted' = aborted \union {s}
       /\ cut' = IF InExchange(s) /\ s \notin aborted THEN cut + 1 ELSE cut
       /\ UNCHANGED run
  ELSE /\ StartAt(t, "create", s, q, None)
       /\ run' = [run EXCEPT ![s] = Idle(s)]
       /\ UNCHANGED <<aborted, cut>>

\* mutant: no pending request is taken for a valid one
ReusesAbsent(q) == pending \notin lapsed /\ (pending = None \/ request[pending] = q)

Reuses(q) ==
  pending # None /\ pending \notin lapsed /\ request[pending] = q

StartReuses(t, s, q) ==
  /\ begin[t].pc = "idle" /\ Up(s)
  /\ Reuses(q)
  /\ StartTask(s)
  /\ shown' = shown \union {pending}
  /\ UNCHANGED <<status, lapsed, request, order, files, service, begin, cut,
                 errors>>

\* bound of the model: the server has a code for every start under way
CodesLeft ==
  Cardinality({d \in Codes : status[d] = "unused"})
    > Cardinality({t \in Starters :
                     begin[t].pc \in {"delete", "cancel", "create"}})

StartReplaces(t, s, q) ==
  /\ begin[t].pc = "idle" /\ Up(s)
  /\ ~Reuses(q)
  /\ CodesLeft
  /\ IF pending \in lapsed
     THEN /\ StartAt(t, "delete", s, q, pending)
          /\ UNCHANGED <<aborted, run, cut>>
     ELSE CancelTask(t, s, q)
  /\ UNCHANGED <<server, files, life, checks, connected, errors>>

DeleteLapsed(t) ==
  /\ begin[t].pc = "delete"
  /\ pending' = None
  /\ CancelTask(t, begin[t].svc, begin[t].request)
  /\ UNCHANGED <<server, stored, latest, kept, unreported, life, checks,
                 connected, errors>>

\* createDeviceAuthorization
CreateDevice(t, d) ==
  /\ begin[t].pc = "create" /\ status[d] = "unused"
  /\ status' = [status EXCEPT ![d] = "waiting"]
  /\ request' = [request EXCEPT ![d] = begin[t].request]
  /\ begin' = [begin EXCEPT ![t].pc = "save", ![t].code = d]
  /\ UNCHANGED <<lapsed, shown, order, files, service, run, cut, errors>>

SavePending(t) ==
  /\ begin[t].pc = "save"
  /\ pending' = begin[t].code /\ latest' = begin[t].code
  /\ begin' = [begin EXCEPT ![t].pc = "saved"]
  /\ UNCHANGED <<server, stored, kept, unreported, service, run, cut, errors>>

NoStart(s) == [pc |-> "idle", svc |-> s, request |-> None, code |-> None]

StartReturns(t) ==
  /\ begin[t].pc = "saved"
  /\ StartTask(begin[t].svc)
  /\ shown' = shown \union {begin[t].code}
  /\ begin' = [begin EXCEPT ![t] = NoStart(begin[t].svc)]
  /\ UNCHANGED <<status, lapsed, request, order, files, service, cut, errors>>

StartFails(t) ==
  /\ begin[t].pc \in {"delete", "create", "save"}
  /\ Fault
  /\ begin' = [begin EXCEPT ![t] = NoStart(begin[t].svc)]
  /\ UNCHANGED <<server, files, service, run, cut>>

----------------------------------------------------------------------------
(* Instances: boot with resumePending, stop, crash.                        *)

Boot(s) ==
  /\ life[s] = "new"
  /\ Cardinality({x \in Services : life[x] \in {"up", "stopping"}}) < MaxUp
  /\ life' = [life EXCEPT ![s] = "up"]
  /\ StartTask(s)
  /\ UNCHANGED <<server, files, checks, connected, aborted, begin, cut, errors>>

\* Checks and starts that tools have called go on.
Stop(s) ==
  /\ MayStop /\ Up(s)
  /\ IF HasTask(s) /\ ~Asleep(s)
     THEN /\ life' = [life EXCEPT ![s] = "stopping"]
          /\ aborted' = aborted \union {s}
          /\ UNCHANGED run
     ELSE /\ life' = [life EXCEPT ![s] = "stopped"]
          /\ run' = [run EXCEPT ![s] = Idle(s)]
          /\ UNCHANGED aborted
  /\ UNCHANGED <<server, files, checks, connected, begin, cut, errors>>

Crash(s) ==
  /\ MayCrash /\ life[s] \in {"up", "stopping", "stopped"}
  /\ life' = [life EXCEPT ![s] = "dead"]
  /\ checks' = [checks EXCEPT ![s] = None]
  /\ aborted' = aborted \ {s}
  /\ run' = [r \in Runners |-> IF run[r].svc = s THEN Idle(s) ELSE run[r]]
  /\ begin' = [t \in Starters |-> IF begin[t].svc = s THEN NoStart(s)
                                  ELSE begin[t]]
  /\ UNCHANGED <<server, files, connected, cut, errors>>

----------------------------------------------------------------------------
Init ==
  /\ status = [d \in Codes |-> "unused"]
  /\ request = [d \in Codes |-> None]
  /\ lapsed = {} /\ shown = {}
  /\ order = [d \in Codes |-> 0] /\ latest = None
  /\ kept = [d \in Codes |-> None] /\ unreported = {}
  /\ pending = None /\ stored = None
  /\ life = [s \in Services |-> "new"]
  /\ checks = [s \in Services |-> None]
  /\ connected = [s \in Services |-> None]
  /\ aborted = {}
  /\ LET s0 == CHOOSE s \in Services : TRUE
     IN  /\ run = [r \in Runners |-> Idle(IF r \in Services THEN r ELSE s0)]
         /\ begin = [t \in Starters |-> NoStart(s0)]
  /\ cut = 0 /\ errors = 0

CheckStep(r) ==
  \/ Answer(r)
  \/ ReceivePending(r) \/ ReceiveRefusal(r)
  \/ ReceiveCredential(r) \/ ReceiveForeign(r)
  \/ StoreCredential(r) \/ Activated(r) \/ RemoveCompleted(r)
  \/ RemoveRefused(r) \/ CheckFails(r)
  \/ r \in Services /\ Wake(r)

StartStep(t) ==
  \/ DeleteLapsed(t) \/ (\E d \in Codes : CreateDevice(t, d))
  \/ SavePending(t) \/ StartReturns(t) \/ StartFails(t)

Next ==
  \/ \E d \in Codes : OwnerDecides(d) \/ Lapse(d)
  \/ \E s \in Services : Boot(s) \/ Stop(s) \/ Crash(s)
  \/ \E k \in Checkers, s \in Services : ToolCheck(k, s)
  \/ \E t \in Starters, s \in Services, q \in Requests :
       StartReuses(t, s, q) \/ StartReplaces(t, s, q)
  \/ \E r \in Runners : CheckStep(r)
  \/ \E t \in Starters : StartStep(t)

\* Requests, timers and file operations end; owners and tools owe nothing.
Spec == /\ Init /\ [][Next]_vars
        /\ \A r \in Runners : WF_vars(CheckStep(r))
        /\ \A t \in Starters : WF_vars(StartStep(t))

----------------------------------------------------------------------------
Running(r) == run[r].pc \notin {"idle", "sleep", "joined"}

TypeOK ==
  /\ status \in [Codes -> {"unused", "waiting", "approved", "denied", "used"}]
  /\ request \in [Codes -> Requests \union {None}]
  /\ lapsed \in SUBSET Codes /\ shown \in SUBSET Codes
  /\ order \in [Codes -> Nat]
  /\ latest \in Codes \union {None}
  /\ kept \in [Codes -> Services \union {None}]
  /\ unreported \in SUBSET Codes
  /\ pending \in Codes \union {None} /\ stored \in Codes \union {None}
  /\ life \in [Services -> {"new", "up", "stopping", "stopped", "dead"}]
  /\ checks \in [Services -> Runners \union {None}]
  /\ connected \in [Services -> Codes \union {None}]
  /\ aborted \in SUBSET Services
  /\ run \in [Runners -> Runs] /\ begin \in [Starters -> Starts]
  /\ cut \in Nat /\ errors \in 0 .. MaxErrors

(* Within one instance the checks of the status tool and of the background  *)
(* task never run twice at once: each code is exchanged by one of them, and *)
(* the others share its answer.                                             *)
OneCheckPerService ==
  \A x, y \in Runners :
    /\ Running(x) /\ Running(y) /\ run[x].svc = run[y].svc
    => x = y

(* A credential that the server has issued for an approved code is stored,  *)
(* or still in the hands of the check that got it, or was lost to a failed  *)
(* or aborted request, a stop or a crash, one credential each: no           *)
(* interleaving of starts, checks and instances loses one by itself.        *)
Lost ==
  {d \in Codes : /\ status[d] = "used" /\ kept[d] = None
                 /\ \A r \in Runners :
                      ~(run[r].code = d /\ run[r].pc \in {"granted", "store"})}

LossNeedsFault ==
  Cardinality(Lost)
    <= errors + cut + Cardinality({s \in Services : life[s] \notin {"new", "up"}})

(* No instance puts an older grant over a newer one of its own: a check that *)
(* was answered before another is not still to be stored after it.           *)
NewestGrantWins ==
  [][\A d \in Codes : kept'[d] # kept[d] =>
       \A e \in Codes : kept[e] = kept'[d] => order[e] < order[d]]_vars

(* What the status tool falls back to when nothing is pending (#connected)  *)
(* is a mailbox whose credential this instance has stored, and of those     *)
(* stored the newest granted, whatever has failed before, in between or     *)
(* since.  One thing alone makes it name an older one: the activation or    *)
(* the removal that follows the store failed, and the check ended before    *)
(* it could report the mailbox whose credential it had put in use.          *)
ConnectedNamesStored ==
  \A s \in Services : Up(s) /\ checks[s] = None =>
    /\ connected[s] # None =>
         kept[connected[s]] = s /\ connected[s] \notin unreported
    /\ \A d \in Codes \ unreported : kept[d] = s =>
         connected[s] # None /\ order[d] <= order[connected[s]]

\* Nothing can come of a code any more.
Over(d) == status[d] \in {"denied", "used"} \/ d \in lapsed

(* A pending authorization is removed only once the server has settled its  *)
(* code or it has expired.                                                  *)
PendingKept == [][pending # None /\ pending' = None => Over(pending)]_vars

(* Where instances, connect and status calls overlap, one that may still be *)
(* completed is removed at times, but only by an operation that had read    *)
(* another one before, and that one is over: nothing is removed because     *)
(* its own code was given up too early.                                     *)
LostToStaleReadOnly ==
  [][pending # None /\ pending' = None /\ ~Over(pending) =>
       \/ \E r \in Runners : /\ run[r].pc \in {"remove", "drop"}
                             /\ run[r].code # pending /\ Over(run[r].code)
                             /\ run'[r] # run[r]
       \/ \E t \in Starters : /\ begin[t].pc = "delete"
                              /\ begin[t].code # pending
                              /\ Over(begin[t].code)
                              /\ begin'[t] # begin[t]]_vars

(* "The plugin will complete the connection automatically after approval":  *)
(* the latest request an owner was given is exchanged once it is approved,  *)
(* unless it expires or no instance is up.                                  *)
Awaiting(d) ==
  /\ latest = d /\ d \notin lapsed /\ status[d] = "approved"
  /\ \E s \in Services : Up(s)

CompletesAutomatically == \A d \in Codes : Awaiting(d) ~> ~Awaiting(d)
=============================================================================
