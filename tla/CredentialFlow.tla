---------------------------- MODULE CredentialFlow ----------------------------
(***************************************************************************)
(* How a stored credential comes into use: the Gateway process of index.ts *)
(* as a whole.  StoredCredentialActivationWatcher compares the credential  *)
(* files with what it has observed, the registry (AccountRegistry) loads a *)
(* runtime, and the runtime is handed to AccountDiscoveryManager.activate. *)
(* Tool calls, the credential bus and authorizations of this process use   *)
(* the registry meanwhile, and other processes write the files.            *)
(*                                                                         *)
(* AccountRegistry lets the calls that a settled load has woken go on in   *)
(* any order and at any time.  Here they are continuations of one event    *)
(* loop: they run in the order in which the calls began to wait, and       *)
(* before anything else of the process.                                    *)
(***************************************************************************)
EXTENDS AccountRegistry, AccountDiscovery, Sequences

CONSTANTS
  Config,    \* the OpenClaw configuration the process was started with
  Watcher,   \* the caller that is the watcher
  MaxFaults  \* bound of the model: loads and starts that fail

ASSUME FlowAssumption ==
  /\ Accounts = Bots
  /\ Discovered = {a.id : a \in discoverPluginAccounts(Config)}
  /\ Watcher \in Steady /\ MaxFaults \in Nat

VARIABLES
  service,   \* the service of index.ts: "down", "up" or "stopping"
  watch,     \* the check the watcher is in
  observed,  \* #observedFingerprints
  served,    \* the credential of the runtime last handed to the manager
  line,      \* calls in the order in which they wait or have been woken
  refused,   \* server: credentials it answers 401 or 403 to
  overtaken, \* history: accounts that an older load or a stray runtime undid
  faults     \* failures so far, capped by MaxFaults

watching == <<service, watch, observed>>
outcomes == <<refused, overtaken, faults>>
flow     == <<watching, served, line, outcomes>>
fvars    == <<vars, flow>>

InLine(p) == \E i \in DOMAIN line : line[i] = p

\* The continuation of a call in line is pending.
Woken(p) == call[p].pc \in {"read", "activate"}

\* No continuation is pending: the event loop takes up something else.
Quiet == \A i \in DOMAIN line : ~Woken(line[i])

\* A credential is issued once, for one account.
Fresh(c) == \A a \in Accounts : c \notin everStored[a]

----------------------------------------------------------------------------
(* The end of a call: what its caller does with the outcome.               *)

Checks == [pc : {"idle", "scan", "match", "call"}, todo : SUBSET Accounts,
           account : Accounts, fingerprint : Credentials \union {None}]

NoCheck == [pc |-> "idle", todo |-> {}, account |-> CHOOSE a \in Accounts : TRUE,
            fingerprint |-> None]

\* The check goes on with the accounts S, unless the watcher has been stopped.
GoOn(S) ==
  watch' = IF service = "up" /\ S # {}
           THEN [NoCheck EXCEPT !.pc = "scan", !.todo = S] ELSE NoCheck

\* The calls that this step returns from, the watcher's among them or not.
WatcherReturns == call[Watcher].pc # "idle" /\ call'[Watcher].pc = "idle"

\* mutant: an account is observed whatever became of its activation
ObserveAlways(a, known) ==
  IF WatcherReturns
  THEN /\ observed' = [observed EXCEPT ![a] = watch.fingerprint]
       /\ GoOn(watch.todo \ {a})
  ELSE UNCHANGED <<watch, observed>>

\* The fingerprint is observed if it was activated or refused; else the next
\* check tries again.
Observe(a, known) ==
  IF WatcherReturns
  THEN /\ observed' = IF known THEN [observed EXCEPT ![a] = watch.fingerprint]
                      ELSE observed
       /\ GoOn(watch.todo \ {a})
  ELSE UNCHANGED <<watch, observed>>

\* discoveryManager.activate, which does nothing unless it is started.
HandOver(a, c) ==
  served' = IF phase = "up" THEN [served EXCEPT ![a] = c] ELSE served

----------------------------------------------------------------------------
(* Callers.                                                                *)

\* A tool call reads the file.
ToolReads(p, a) ==
  /\ Quiet /\ p # Watcher
  /\ ReadStored(p, a)
  /\ line' = Append(line, p)
  /\ UNCHANGED <<watching, served, outcomes>>

\* The listener of the credential bus hears of an account.  It listens while
\* the service starts and runs, until it stops.
BusNotifies(p, a) ==
  /\ Quiet /\ p # Watcher
  /\ service # "stopping" /\ phase # "down"
  /\ Notified(p, a)
  /\ line' = IF stored[a] # None THEN Append(line, p) ELSE line
  /\ UNCHANGED <<watching, served, outcomes>>

\* An authorization of this process has stored its credential.
Authorizes(p, a, c) ==
  /\ Quiet /\ p # Watcher /\ Fresh(c)
  /\ Authorize(p, a, c)
  /\ UNCHANGED flow

\* Another process stores a credential, or the owner removes the file.  No
\* continuation looks at the files, so a moment between two of them is as good
\* as the moment after them.
Elsewhere(a) ==
  /\ Quiet
  /\ \/ \E c \in Credentials : Fresh(c) /\ StoreElsewhere(a, c)
     \/ stored[a] # None /\ Remove(a)
  /\ UNCHANGED flow

\* A call leaves the line when it runs, and joins its end to wait again.
Requeue(p) ==
  LET i    == CHOOSE i \in DOMAIN line : line[i] = p
      rest == IF InLine(p)
              THEN SubSeq(line, 1, i - 1) \o SubSeq(line, i + 1, Len(line))
              ELSE line
  IN  line' = IF call'[p].pc = "waiting" THEN Append(rest, p) ELSE rest

\* The first pending continuation runs, or an authorization goes on.
Turn(p) ==
  \/ Quiet /\ call[p].pc = "activate"
  \/ \E i \in DOMAIN line :
       line[i] = p /\ Woken(p) /\ \A j \in 1 .. i - 1 : ~Woken(line[j])

\* The credential of the runtime that #activateStored returns at once: if the
\* maps have come apart, not the one whose fingerprint it has compared.
Current(p) ==
  IF runtimes = NotStarted \/ fingerprints = NotStarted THEN None
  ELSE IF fingerprints[call[p].account] = call[p].credential
       THEN runtimes[call[p].account] ELSE None

FlowActivateStored(p) ==
  LET a == call[p].account IN
  /\ Turn(p)
  /\ ActivateStored(p)
  /\ Requeue(p)
  /\ IF Current(p) # None THEN HandOver(a, Current(p)) ELSE UNCHANGED served
  /\ Observe(a, Current(p) # None)
  /\ overtaken' = IF Current(p) \in {None, call[p].credential} THEN overtaken
                  ELSE overtaken \union {a}
  /\ UNCHANGED <<service, refused, faults>>

\* An authorization that was not in line may have been overtaken by a store.
FlowActivate(p) ==
  LET a == call[p].account IN
  /\ Turn(p)
  /\ Activate(p)
  /\ Requeue(p)
  /\ Observe(a, FALSE)
  /\ overtaken' = IF Quiet /\ stored[a] # call[p].credential
                  THEN overtaken \union {a} ELSE overtaken
  /\ UNCHANGED <<service, served, refused, faults>>

\* A load that a stop has cut off does not know of the loads since: it puts an
\* older map back, and the calls that wait for it go on with what they read.
CutOff(p) == activations[call[p].account] # p

\* The load of p ends well, unless its mailbox has another account or the
\* registry has been stopped meanwhile.
FlowLoadSucceeds(p) ==
  LET a  == call[p].account
      c  == call[p].credential
      ok == MailboxFree(p) /\ fingerprints # NotStarted
  IN  /\ Quiet /\ c \notin refused
      /\ LoadSucceeds(p)
      /\ IF ok THEN HandOver(a, c) ELSE UNCHANGED served
      /\ Observe(a, ok)
      /\ overtaken' = IF CutOff(p) THEN Accounts ELSE overtaken
      /\ UNCHANGED <<service, line, refused, faults>>

Fault == faults < MaxFaults /\ faults' = faults + 1

FlowLoadFails(p) ==
  LET a == call[p].account
      c == call[p].credential
  IN  /\ Quiet
      /\ LoadFails(p)
      /\ \/ /\ refused' = refused \union {c}
            /\ Observe(a, TRUE)
            /\ IF c \in refused THEN UNCHANGED faults ELSE Fault
         \/ /\ Fault
            /\ Observe(a, FALSE)
            /\ UNCHANGED refused
      /\ overtaken' = IF CutOff(p) THEN overtaken \union {a} ELSE overtaken
      /\ UNCHANGED <<service, served, line>>

----------------------------------------------------------------------------
(* The watcher: checkNow, when it starts and at each interval.             *)

BeginCheck ==
  /\ Quiet /\ service = "up" /\ watch.pc = "idle"
  /\ GoOn(catalog)
  /\ UNCHANGED <<vars, service, observed, served, line, outcomes>>

\* getFingerprint of account a; a fingerprint not yet observed is activated.
GetFingerprint(a) ==
  /\ Quiet /\ watch.pc = "scan" /\ a \in watch.todo
  /\ IF service = "up" /\ stored[a] \notin {None, observed[a]}
     THEN /\ watch' = [watch EXCEPT !.pc = "match", !.account = a,
                                    !.fingerprint = stored[a]]
          /\ UNCHANGED observed
     ELSE /\ GoOn(watch.todo \ {a})
          /\ observed' = IF service = "up" /\ stored[a] = None
                         THEN [observed EXCEPT ![a] = None] ELSE observed
  /\ UNCHANGED <<vars, service, served, line, outcomes>>

\* activateStoredIfFingerprintMatches reads the file again.  If it has changed
\* since or is gone, the account is left to the next check.
MatchFingerprint ==
  LET a == watch.account IN
  /\ Quiet /\ watch.pc = "match"
  /\ IF stored[a] = watch.fingerprint
     THEN /\ ReadStored(Watcher, a)
          /\ line' = Append(line, Watcher)
          /\ watch' = [watch EXCEPT !.pc = "call"]
     ELSE /\ GoOn(watch.todo \ {a})
          /\ UNCHANGED <<vars, line>>
  /\ UNCHANGED <<service, observed, served, outcomes>>

----------------------------------------------------------------------------
(* The service and the controller.                                         *)

\* start: ensureStarted has returned, the watcher is created and started.
ServiceStarts ==
  /\ Quiet /\ service = "down" /\ phase = "up"
  /\ service' = "up"
  /\ UNCHANGED <<vars, watch, observed, served, line, outcomes>>

\* stop: the watcher is stopped and its check awaited, then the controller.
ServiceStops ==
  /\ Quiet /\ service = "up" /\ stops < MaxStops
  /\ service' = "stopping"
  /\ UNCHANGED <<vars, watch, observed, served, line, outcomes>>

ControllerStops ==
  /\ Quiet /\ service = "stopping" /\ watch.pc = "idle"
  /\ Stop
  /\ service' = "down" /\ observed' = Nothing /\ served' = Nothing
  /\ UNCHANGED <<watch, line, outcomes>>

ControllerStarts ==
  /\ Quiet /\ (Start \/ \E a \in Accounts : StartLoads(a))
  /\ UNCHANGED flow

\* The manager is started with the runtimes that have been loaded.
ControllerStarted ==
  /\ Quiet /\ StartEnds
  /\ IF phase' = "up" THEN served' = loaded /\ UNCHANGED faults
     ELSE Fault /\ UNCHANGED served
  /\ UNCHANGED <<watching, line, refused, overtaken>>

----------------------------------------------------------------------------
FlowInit ==
  /\ Init
  /\ service = "down" /\ watch = NoCheck
  /\ observed = Nothing /\ served = Nothing
  /\ line = <<>>
  /\ refused = {} /\ overtaken = {} /\ faults = 0

FlowProgress(p) == \/ FlowActivate(p) \/ FlowActivateStored(p)
                   \/ FlowLoadSucceeds(p) \/ FlowLoadFails(p)

Watch == \/ BeginCheck \/ MatchFingerprint
         \/ \E a \in Accounts : GetFingerprint(a)

FlowNext ==
  \/ \E p \in Callers, a \in Accounts :
       \/ ToolReads(p, a) \/ BusNotifies(p, a)
       \/ \E c \in Credentials : Authorizes(p, a, c)
  \/ \E a \in Accounts : Elsewhere(a)
  \/ \E p \in Callers : FlowProgress(p)
  \/ Watch
  \/ ServiceStarts \/ ServiceStops
  \/ ControllerStarts \/ ControllerStarted \/ ControllerStops

\* The interval timer fires, files are read, requests end, and continuations
\* run.  Continuations of others come between again and again, which delays
\* the event loop but does not make it forget: SF.  Nobody has to store a
\* credential, call a tool or start anything.
FlowSpec == /\ FlowInit /\ [][FlowNext]_fvars
            /\ WF_fvars(Watch)
            /\ \A p \in Callers : SF_fvars(FlowProgress(p))

----------------------------------------------------------------------------
FlowTypeOK ==
  /\ TypeOK
  /\ service \in {"down", "up", "stopping"}
  /\ watch \in Checks
  /\ observed \in RuntimeMaps /\ served \in RuntimeMaps
  /\ line \in Seq(Callers)
  /\ refused \in SUBSET Credentials /\ overtaken \in SUBSET Accounts
  /\ faults \in 0 .. MaxFaults

(* A credential that any process stores comes into use while the service is *)
(* up: the account's runtime and its discovery loop are both made with it.  *)
(* The exceptions: the server refuses it, its mailbox has another account,  *)
(* the maps of the registry have come apart (FingerprintsMatch), or it was  *)
(* undone by an older load: one that a stop had cut off, or that of an      *)
(* authorization after whose store another one came.                        *)
InUse(a) == runtimes[a] = stored[a] /\ served[a] = stored[a]

Behind(a) ==
  service = "up" /\ a \in catalog /\ stored[a] # None /\ ~InUse(a)

Excused(a) ==
  \/ stored[a] \in refused
  \/ \E b \in Loaded(runtimes) \ {a} :
       MailboxOf[runtimes[b]] = MailboxOf[stored[a]]
  \/ ~FingerprintsMatch
  \/ a \in overtaken

StoredComesIntoUse == \A a \in Accounts : Behind(a) ~> ~Behind(a) \/ Excused(a)

(* The watcher leaves alone what it has observed, so it must not observe a   *)
(* stored credential that did not come into use, nor may an older one        *)
(* replace it afterwards: no call that has read an older file, waits for a   *)
(* load or is loading.  The exceptions are those of StoredComesIntoUse; that *)
(* another account has the mailbox is none, since it is tried again.         *)
ObservedInUse ==
  \A a \in Accounts :
    Behind(a) /\ observed[a] = stored[a] =>
      stored[a] \in refused \/ ~FingerprintsMatch \/ a \in overtaken

(* Neither an account's runtime nor its discovery loop ever uses a           *)
(* credential that was not stored for that account, whichever of the         *)
(* watcher, tool calls, authorizations and other processes brought it there  *)
(* and whichever load it was read or shared from on the way.                 *)
AccountsIsolated ==
  /\ RuntimesIsolated
  /\ \A a \in Accounts : served[a] # None => served[a] \in everStored[a]

(* An account that the process knows is, under every configuration it may    *)
(* have come from, one Agent's only account: "one bad Bot does not disable   *)
(* unrelated valid Agents", and none can use the mailbox of another.         *)
AgentsSeparate == \A a \in catalog : Separate[a]
=============================================================================
