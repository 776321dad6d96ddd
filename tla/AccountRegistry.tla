--------------------------- MODULE AccountRegistry ---------------------------
(***************************************************************************)
(* PluginAccountRuntimeRegistry: the in-memory runtimes of the Plugin      *)
(* Accounts, the fingerprints of the credentials they were loaded with,    *)
(* and the callers that load them: tool calls (activateStored), the        *)
(* authorization service (activate) and the runtime controller (start and  *)
(* stop).                                                                  *)
(*                                                                         *)
(* Code between two awaits is one step.  A runtime is the credential its   *)
(* client was created with, a fingerprint is the credential it digests.    *)
(***************************************************************************)
EXTENDS Naturals, FiniteSets

CONSTANTS
  Accounts,     \* enabled Plugin Accounts, one for each Bot
  Discovered,   \* those in the configuration this process was started with
  Credentials,  \* mailbox credentials
  MailboxOf,    \* the mail account each credential resolves to (server)
  Callers,      \* concurrent calls of activate and activateStored
  Steady,       \* the callers whose calls are not counted
  None,         \* nothing stored, nothing loaded, nobody
  NotStarted,   \* #runtimes and #credentialFingerprints are undefined
  MaxCalls,     \* bound of the model: calls each caller that is counted makes
  MaxStops      \* bound of the model: times the service is stopped

RuntimeMaps == [Accounts -> Credentials \union {None}]

ASSUME RegistryAssumption ==
  /\ Accounts # {} /\ Discovered \subseteq Accounts
  /\ None \notin Credentials /\ None \notin Callers
  /\ Steady \subseteq Callers
  /\ NotStarted \notin RuntimeMaps
  /\ DOMAIN MailboxOf = Credentials
  /\ MaxCalls \in Nat /\ MaxStops \in Nat

VARIABLES
  catalog,       \* PluginAccountCatalog: the accounts this process knows
  stored,        \* the credential file of each account, written by anyone
  runtimes,      \* #runtimes
  fingerprints,  \* #credentialFingerprints
  activations,   \* #activations: the caller whose load is in flight
  call,          \* what each caller is doing
  phase,         \* the controller: "down", "starting" or "up"
  toLoad,        \* start(): accounts still to be loaded
  loaded,        \* start(): what has been loaded
  calls,         \* calls made by each caller, capped by MaxCalls
  stops,         \* times stopped, capped by MaxStops
  everStored     \* history: the credentials ever stored for an account

starts == <<phase, toLoad, loaded, stops>>
maps   == <<runtimes, fingerprints>>
files  == <<stored, everStored>>
vars   == <<files, catalog, maps, activations, call, starts, calls>>

Nothing == [a \in Accounts |-> None]

Loaded(m) == {a \in Accounts : m[a] # None}

\* assertUniqueResolvedMailAccounts of the accounts loaded in m
assertUnique(m) ==
  \A a, b \in Loaded(m) : MailboxOf[m[a]] = MailboxOf[m[b]] => a = b

\* `on` is the caller whose operation this one awaits, `current` the map read
\* before the load.
Calls == [pc : {"idle", "read", "activate", "loading", "joined", "waiting"},
          account : Accounts, credential : Credentials \union {None},
          on : Callers \union {None}, current : RuntimeMaps]

NoCall == [pc |-> "idle", account |-> CHOOSE a \in Accounts : TRUE,
           credential |-> None, on |-> None, current |-> Nothing]

----------------------------------------------------------------------------
(* The credential file: authorization, here or in another process.         *)

Store(a, c) ==
  /\ stored' = [stored EXCEPT ![a] = c]
  /\ everStored' = [everStored EXCEPT ![a] = @ \union {c}]

Begin(p, a, pc, c) ==
  /\ call[p].pc = "idle"
  /\ p \in Steady \/ calls[p] < MaxCalls
  /\ calls' = IF p \in Steady THEN calls ELSE [calls EXCEPT ![p] = @ + 1]
  /\ call' = [call EXCEPT ![p] = [NoCall EXCEPT !.pc = pc, !.account = a,
                                                !.credential = c]]
  /\ UNCHANGED <<maps, activations, starts>>

\* storeCredential has returned; onCredentialStored will call activate.
Authorize(p, a, c) ==
  /\ a \in catalog
  /\ Begin(p, a, "activate", c)
  /\ Store(a, c)
  /\ UNCHANGED catalog

\* Another process stores a credential, or its owner removes the file.
StoreElsewhere(a, c) ==
  /\ Store(a, c)
  /\ UNCHANGED <<catalog, maps, activations, call, starts, calls>>

Remove(a) ==
  /\ stored' = [stored EXCEPT ![a] = None]
  /\ UNCHANGED <<everStored, catalog, maps, activations, call, starts, calls>>

\* activateStored has read the file.
Read(p, a) ==
  /\ Begin(p, a, "read", stored[a])
  /\ UNCHANGED files

\* Of an account in the catalog; a missing file ends the call.
ReadStored(p, a) ==
  /\ a \in catalog /\ stored[a] # None
  /\ Read(p, a)
  /\ UNCHANGED catalog

\* Another registration context of the process, whose configuration may be
\* newer, has stored a credential: the account is known from now on.
Register(a) == catalog' = catalog \union {a}

\* The listener of the credential bus registers the account and goes on like
\* a tool call.
Notified(p, a) ==
  /\ Register(a)
  /\ IF stored[a] # None THEN Read(p, a)
     ELSE UNCHANGED <<files, maps, activations, call, starts, calls>>

----------------------------------------------------------------------------
(* activate.                                                               *)

Become(p, pc, q) == call' = [call EXCEPT ![p] = [@ EXCEPT !.pc = pc, !.on = q]]

\* mutant: a load starts although the registry has not
EnterUnstarted(p) ==
  /\ call' = [call EXCEPT ![p] = [@ EXCEPT !.pc = "loading",
                                           !.current = runtimes]]
  /\ activations' = [activations EXCEPT ![call[p].account] = p]

\* activate: take part in the load of this account that is in flight, wait
\* for it to end when it uses another credential, or start one.
Enter(p) ==
  LET a == call[p].account
      q == activations[a]
  IN  IF q # None
      THEN /\ Become(p, IF call[q].credential = call[p].credential
                        THEN "joined" ELSE "waiting", q)
           /\ UNCHANGED activations
      ELSE IF runtimes = NotStarted
      THEN /\ call' = [call EXCEPT ![p] = NoCall]
           /\ UNCHANGED activations
      ELSE /\ call' = [call EXCEPT ![p] = [@ EXCEPT !.pc = "loading",
                                                    !.current = runtimes]]
           /\ activations' = [activations EXCEPT ![a] = p]

Activate(p) ==
  /\ call[p].pc = "activate"
  /\ Enter(p)
  /\ UNCHANGED <<files, catalog, maps, starts, calls>>

\* activateStored: a runtime with the fingerprint just read is returned.
ActivateStored(p) ==
  LET a == call[p].account IN
  /\ call[p].pc = "read"
  /\ IF \/ runtimes = NotStarted
        \/ runtimes[a] # None /\ fingerprints = NotStarted
        \/ runtimes[a] # None /\ fingerprints[a] = call[p].credential
     THEN /\ call' = [call EXCEPT ![p] = NoCall]
          /\ UNCHANGED activations
     ELSE Enter(p)
  /\ UNCHANGED <<files, catalog, maps, starts, calls>>

\* mutant: only the caller that loaded is told of the outcome
SettleAlone(p) ==
  /\ activations' = [a \in Accounts |->
       IF activations[a] = p THEN None ELSE activations[a]]
  /\ call' = [call EXCEPT ![p] = NoCall]

\* The operation of p has settled: its entry is removed, the calls that joined
\* it return with it, the calls that waited for it call activate again.
Settle(p) ==
  /\ activations' = [a \in Accounts |->
       IF activations[a] = p THEN None ELSE activations[a]]
  /\ call' = [q \in Callers |->
       IF q = p \/ (call[q].pc = "joined" /\ call[q].on = p) THEN NoCall
       ELSE IF call[q].pc = "waiting" /\ call[q].on = p
       THEN [call[q] EXCEPT !.pc = "activate", !.on = None]
       ELSE call[q]]

\* mutant: the runtime of every account is replaced
InstallEverywhere(p) ==
  /\ runtimes' = [a \in Accounts |-> call[p].credential]
  /\ fingerprints' = runtimes'

\* mutant: the new runtime is merged into the latest map, still checked
\* against the map read before the load
InstallMerged(p) ==
  LET a == call[p].account
      c == call[p].credential
      free == \A b \in Loaded(call[p].current) \ {a} :
                MailboxOf[call[p].current[b]] # MailboxOf[c]
  IN  IF runtimes # NotStarted /\ fingerprints # NotStarted /\ free
      THEN /\ runtimes' = [runtimes EXCEPT ![a] = c]
           /\ fingerprints' = [fingerprints EXCEPT ![a] = c]
      ELSE UNCHANGED maps

\* #activate after the load: the map read before it with the new runtime.
Result(p) == [call[p].current EXCEPT ![call[p].account] = call[p].credential]

MailboxFree(p) ==
  LET a == call[p].account
  IN  \A b \in Loaded(Result(p)) \ {a} :
        MailboxOf[Result(p)[b]] # MailboxOf[call[p].credential]

\* Unique against the map read before the load, then both maps are replaced;
\* fingerprints may have become undefined meanwhile.
Install(p) ==
  IF MailboxFree(p)
  THEN /\ runtimes' = Result(p)
       /\ fingerprints' =
            IF fingerprints = NotStarted THEN NotStarted
            ELSE [fingerprints EXCEPT ![call[p].account] = call[p].credential]
  ELSE UNCHANGED maps

LoadSucceeds(p) ==
  /\ call[p].pc = "loading"
  /\ Install(p)
  /\ Settle(p)
  /\ UNCHANGED <<files, catalog, starts, calls>>

LoadFails(p) ==
  /\ call[p].pc = "loading"
  /\ Settle(p)
  /\ UNCHANGED <<files, catalog, maps, starts, calls>>

----------------------------------------------------------------------------
(* start and stop, called by the runtime controller.                       *)

\* start() refuses when a runtime map exists; the controller then stops the
\* registry again.
Start ==
  /\ phase = "down"
  /\ IF runtimes = NotStarted
     THEN phase' = "starting" /\ toLoad' = catalog /\ loaded' = Nothing
          /\ UNCHANGED <<maps, activations>>
     ELSE UNCHANGED <<phase, toLoad, loaded>>
          /\ runtimes' = NotStarted /\ fingerprints' = NotStarted
          /\ activations' = Nothing
  /\ UNCHANGED <<files, catalog, call, calls, stops>>

\* One account: without a credential, or with a rejected one, it is skipped.
StartLoads(a) ==
  /\ phase = "starting" /\ a \in toLoad
  /\ toLoad' = toLoad \ {a}
  /\ \E c \in {None, stored[a]} : loaded' = [loaded EXCEPT ![a] = c]
  /\ UNCHANGED <<files, catalog, maps, activations, call, phase, calls, stops>>

\* start() fails, on a load or because two accounts share a mailbox, and the
\* controller stops the registry; or both maps are set.
StartEnds ==
  /\ phase = "starting"
  /\ \/ /\ toLoad = {} /\ assertUnique(loaded)
        /\ phase' = "up" /\ runtimes' = loaded /\ fingerprints' = loaded
        /\ UNCHANGED activations
     \/ /\ phase' = "down"
        /\ runtimes' = NotStarted /\ fingerprints' = NotStarted
        /\ activations' = Nothing
  /\ toLoad' = {} /\ loaded' = Nothing
  /\ UNCHANGED <<files, catalog, call, calls, stops>>

Stop ==
  /\ phase = "up" /\ stops < MaxStops
  /\ stops' = stops + 1
  /\ phase' = "down"
  /\ runtimes' = NotStarted /\ fingerprints' = NotStarted
  /\ activations' = Nothing
  /\ UNCHANGED <<files, catalog, call, toLoad, loaded, calls>>

----------------------------------------------------------------------------
Init ==
  /\ catalog = Discovered
  /\ stored \in RuntimeMaps
  /\ everStored = [a \in Accounts |-> {stored[a]} \ {None}]
  /\ runtimes = NotStarted /\ fingerprints = NotStarted
  /\ activations = Nothing
  /\ call = [p \in Callers |-> NoCall]
  /\ phase = "down" /\ toLoad = {} /\ loaded = Nothing
  /\ calls = [p \in Callers |-> 0] /\ stops = 0

Progress(p) == \/ Activate(p) \/ ActivateStored(p)
               \/ LoadSucceeds(p) \/ LoadFails(p)

Next ==
  \/ \E p \in Callers, a \in Accounts :
       \/ ReadStored(p, a) \/ Notified(p, a)
       \/ \E c \in Credentials : Authorize(p, a, c)
  \/ \E a \in Accounts :
       Remove(a) \/ \E c \in Credentials : StoreElsewhere(a, c)
  \/ \E p \in Callers : Progress(p)
  \/ Start \/ (\E a \in Accounts : StartLoads(a)) \/ StartEnds \/ Stop

\* Every request ends, with an answer, an error or its timeout, and the event
\* loop runs what was waiting for it.
Spec == Init /\ [][Next]_vars /\ \A p \in Callers : WF_vars(Progress(p))

----------------------------------------------------------------------------
TypeOK ==
  /\ catalog \in SUBSET Accounts
  /\ stored \in RuntimeMaps
  /\ runtimes \in RuntimeMaps \union {NotStarted}
  /\ fingerprints \in RuntimeMaps \union {NotStarted}
  /\ activations \in [Accounts -> Callers \union {None}]
  /\ call \in [Callers -> Calls]
  /\ phase \in {"down", "starting", "up"}
  /\ toLoad \in SUBSET Accounts
  /\ loaded \in RuntimeMaps
  /\ calls \in [Callers -> 0 .. MaxCalls]
  /\ stops \in 0 .. MaxStops
  /\ everStored \in [Accounts -> SUBSET Credentials]

(* A runtime only ever holds a credential that was stored for its own        *)
(* account: neither the map read before a load nor the sharing of a load     *)
(* between callers mixes the credentials of two Agents up.                   *)
RuntimesIsolated ==
  runtimes # NotStarted =>
    \A a \in Accounts : runtimes[a] # None => runtimes[a] \in everStored[a]

(* Every call of activate and activateStored returns: none waits for ever on *)
(* a load that has settled, and no chain of waiting calls starves one.       *)
EveryCallReturns ==
  \A p \in Callers : call[p].pc # "idle" ~> call[p].pc = "idle"

(* A call that shares the load of another call, or waits for it to end, does *)
(* so while that load is in flight: it was not forgotten when the load       *)
(* settled, and a stop, which forgets the loads, does not forget it.  The    *)
(* load is of its own account, and shared only with the same credential.     *)
AwaitsItsLoad ==
  \A p \in Callers :
    LET q == call[p].on IN
    call[p].pc \in {"joined", "waiting"} =>
      /\ q \in Callers /\ call[q].pc = "loading"
      /\ call[q].account = call[p].account
      /\ call[p].pc = "joined" => call[q].credential = call[p].credential

(* The fingerprint kept for an account is that of the credential its runtime *)
(* uses.  activateStored relies on it to tell whether a stored credential is *)
(* the one already in use.                                                   *)
FingerprintsMatch ==
  (runtimes # NotStarted /\ fingerprints # NotStarted) =>
    runtimes = fingerprints

(* No two accounts are ever served by runtimes of one mail account, although *)
(* assertUniqueResolvedMailAccounts compares a new runtime with a map that   *)
(* may be out of date when its load ends.                                    *)
MailboxesUnique == runtimes # NotStarted => assertUnique(runtimes)
=============================================================================
