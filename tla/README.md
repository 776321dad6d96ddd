# TLA+ models of openclaw-octo-mail-plugin

The plugin gives OpenClaw Agents a mailbox each: it authorizes a mailbox for an
Agent (a *Plugin Account*), keeps one API client per account, follows the
mailbox for new mail, hands each new mail to the Agent, and offers tools with
which the Agent drafts, sends and replies. This directory holds TLA+ modules of
its parts, TLC configurations for small instances, and proofs that TLAPS checks.
`PROJECT.json` lists the runs, the lines each definition was translated from,
the hazards, the findings and the theorems.

    tlc -config MCMailDiscovery.cfg MCMailDiscovery      # any MC module and its .cfg
    tlapm MailDiscovery_proofs.tla                       # any *_proofs module

## 1. Inventory

The whole plugin is one Node.js process (the OpenClaw Gateway); a second process
runs its command line. Inside a process nothing runs in parallel: code between
two `await`s is atomic, and everything interleaves at the `await`s. Processes
share only files.

| Part | State it keeps | Operations | Talks to | Status |
|---|---|---|---|---|
| `MailChangesPoller`, `FileDiscoveryStateStore` | cursor file: account, `sinceState`, 200 processed ids | `pollOnce`, `load`, `save` | JMAP server, Agent dispatcher | `MailDiscovery` |
| `AccountDiscoveryManager` | `#active` loops, chained `#activations`, `#stopPromise` | `start`, `stop`, `activate`, the loops | poller, registry, credential bus | `DiscoveryManager`; the loop in `PushDiscovery` |
| `JmapEventSource`, `watchEmailStateChanges` | event stream, recycle timer | open, read, recycle | Mail API, poller | `PushDiscovery` |
| `PluginAccountRuntimeRegistry` | `#runtimes`, `#credentialFingerprints`, `#activations` | `start`, `stop`, `activate`, `activateStored`, `getById` | credential files, API client | `AccountRegistry`, `CredentialFlow` |
| `AgentMailAuthorizationService`, pending store, auth client | pending file, `#checks`, `#connected`, background task | `start`, `check`, `resumePending`, `stop` | authorization server, registry | `Authorization`, in part |
| Authorization tools | none | `connect_mail`, `mail_connection_status` | authorization service | as callers in `Authorization` |
| `AgentMailRuntimeController` | start and stop promises, the service | `ensureStarted`, `stop` | registry, manager, authorization | `RuntimeController` |
| Mail tools, `AgentMailApiClient` writes | none | `mail_reply`, `mail_auto_reply`, `mail_send`, `mail_get_message` | Mail API | `MailWrites`, in part |
| `OpenClawOwnerDraftNotifier`, workflow store | workflow file: ids of delivered notices | `notifyReplyDraft`, `#mutate` | OpenClaw channel | `MailWrites`, in part |
| Agent dispatcher | none | one Agent turn per mail | OpenClaw runtime | a step of `MailDiscovery`, the turn of `RuntimeController` and `MailWrites` |
| `StoredCredentialActivationWatcher`, `CredentialActivationBus` | observed fingerprints, timer | `start`, `stop`, `checkNow` | credential files, registry | `CredentialFlow` |
| `discoverPluginAccounts`, `PluginAccountCatalog` | the catalogue | derive accounts, `register`, `listByAgentId` | OpenClaw configuration, tools, guidance | `AccountDiscovery`; the catalogue in `AccountRegistry` |
| `index.ts` | the service, its watcher and listener | service `start`, `stop` | all of the above | `CredentialFlow`, in part |
| Bind command, setup | files | run once, in another process | authorization, credential files | as a caller of `Authorization` and another process of `CredentialFlow` |
| Explicit accounts, session binding, installer | files | run once | OpenClaw configuration | not modelled |

How they interact. `index.ts` wires one controller to the registry, the manager
and the authorization service. `ensureStarted` loads the registry, starts the
manager with its runtimes and resumes pending authorizations. When an
authorization completes, its credential is stored, then the registry is told to
activate it, then the manager is told through the bus to replace the loop. The
watcher does the same for credentials another process has stored. A loop polls,
dispatches an Agent turn for each new mail and waits for it; the turn calls
tools, which call back into the controller and the registry.

What is hard, part by part, and what has to be true of it:

* **Mail discovery**: a crash or a failed request between any two awaits of a
  poll; the mailbox changes under the poll; an account is bound to another
  mailbox and back. *No mail is lost, none from before the baseline is
  dispatched, repeats are bounded, every mail is settled at last.*
* **Discovery loops**: activate, start and stop overlap, and a loop needs time to
  wind up. *Never two loops on one cursor file; none left after stop; the latest
  runtime wins; no call hangs.*
* **Runtime registry**: state read before a network load is written after it.
  *An Agent only ever uses a mailbox that was granted to it; no mailbox serves
  two; callers return.*
* **Authorization**: one-time codes that are exchanged by a background task and
  by a tool; files shared by processes; crashes between approval, exchange and
  store. *No credential is lost but to a fault; an older grant never replaces a
  newer one; what the owner approves is completed.*
* **Event stream**: a change that nobody announces, a change announced during a
  poll, a connection closed under the poll it caused. *No change is missed, polls
  never overlap, an aborted or refused loop ends.*
* **Controller**: starts that fail half-way, stops during starts, and an Agent turn
  that waits for a tool that waits for a stop that waits for the turn. *All of the
  runtime is exposed or nothing, and it is only started from nothing, but for a registry
  that an activation sets up again after a stop; calls return.*
* **Watcher and catalogue**: another process or another registration context stores a
  credential while the registry starts, loads or stops. *What stays stored comes into
  use, in the registry and in discovery; an account belongs to one Agent, whatever the
  configuration says of others.*
* **Writes**: a write that times out may have happened; a repeated dispatch may
  repeat it; a Draft is notified to its owner. *One automatic reply per mail;
  "not-sent" is true of a write without a JSON answer; one more effect at most per
  fault; no notice mark is lost.*

## 2. Plan

In order of importance to a user who relies on the plugin:

1. `MailDiscovery`, with proofs — done.
2. `AccountRegistry`, with proofs — done.
3. `Authorization`, with proofs — done.
4. `DiscoveryManager`, with proofs — done.
5. `PushDiscovery`, with proofs — done.
6. `RuntimeController`, with proofs — done.
7. `MailWrites`, with proofs — done.
8. `CredentialFlow`, with proofs — done: the watcher, the bus and the service over
   `AccountRegistry`: what is stored comes into use.
9. `InboxDelivery` — done: what mail discovery promises, which `MailDiscovery` is
   shown to implement by a refinement mapping, in a run and by a proof.
10. `AccountDiscovery` — done: the mapping of OCTO bindings to Plugin Accounts.

Every safety property of a run is proved. Left of the system: `bind` with the command lines
of two processes, and the parsing of explicit accounts.

## 3. The modules

Conventions. A step is the code between two awaits; what an operation holds in
memory across an await is in its own record, with `pc` naming the await. The files
of the plugin are written to a temporary file and renamed, so a write is one step
that happens or does not. `Crash` steps lose all memory and keep the files. The
servers and the host are external: they are modelled from what the code asks of
them and makes of their answers. Operators whose comment begins with "mutant" are
plausible bugs; no specification uses them, and each run is checked to fail when one
of them takes the place of the definition it belongs to.

**`MailDiscovery`** — one account's `pollOnce` as a chain of awaits: load the cursor
file (`StartPoll`), take or replace a baseline (`SaveBaseline`), fetch a page of
`Email/changes` (`GetChanges`) and its mails (`GetMessages`), dispatch one and record
it (`TakeNext`, `Dispatch…`, `Record`), save the cursor (`AdvanceCursor`). The server
moves and creates mail between any two of them, any of them may fail, and a crash or
a new binding cuts the poll off. `attempts`, `recorded` and `base` are history, and so
are `newer`, the mails recorded since each one's own last record, which tells whether
the bounded list still holds its id (`PushedOut`), and `crowded`, the number of mails
dispatched again because it did not.

**`InboxDelivery`** — the promise, apart from how it is kept: mail arrives and waits in
line until it is settled or leaves the Inbox, and the Agent is handed mail that is in
line, maybe more than once. `MailDiscovery` maps its cursor, page and remembered ids to
that line (`Delivery`), and its property `DeliversInbox` is the specification.

**`DiscoveryManager`** — `activate` is a queue per account (the promise chain
`#activations`); the head of the queue aborts the running loop, waits for it
(`waits`), and starts the next. `start` goes through its runtimes one by one, `stop`
aborts what it finds in `#active` and waits for it. A loop is "running", "aborted" or
"ended"; what it does is `MailDiscovery` and `PushDiscovery`.

**`PushDiscovery`** — the loop of one account: poll, open the event stream, poll for
each announced change, recycle the stream, wait after failures. A poll is two steps
(what it sees, and its end), so that changes fall into the middle of it. Once the signal is
aborted a poll stops after any page, or before the first, and returns as it always does,
so that it may move the cursor by any part of what there is or not at all. Its property
`AbortEnds` is the fairness that `DiscoveryManager` assumes of `LoopEnds`.

**`AccountRegistry`** — callers of `activate` and `activateStored` race with each
other and with the controller's `start` and `stop`. `call[p].current` is the map a
load read before it began and writes back when it ends. `catalog` is the catalogue of
the process: the accounts of its own configuration, and those that the credential bus
has registered since (`Notified`). Waiters of a settled load go on in any order here.

**`CredentialFlow`** — the Gateway process of `index.ts` around that registry. The
service starts and stops, the watcher compares files with what it has observed (`scan`,
`match`, `call` are the awaits of a check), tools, authorizations and the listener of
the bus call the registry, other processes write the files, and `served` is what the
discovery manager was last handed. `line` holds the calls in the order in which the
event loop goes on with them: woken calls run first and in their order (`Quiet`,
`Turn`), which removes the disorder that `AccountRegistry` allows; `FlowIsRegistry`
proves that nothing is added. Handing a runtime to the manager takes place in the step
that obtained it, since only promise continuations lie between.

**`AccountDiscovery`** — `discoverPluginAccounts` as a set comprehension: an Agent is
mapped to a Bot when no check of the code would exclude it (`Mapped`), and a Bot mapped
to several Agents is nobody's. The tools and the guidance look an Agent up in two
different pieces of code, which `Separate` compares.

**`Authorization`** — `start`, `check`, the background task and `stop` of service
instances in one or more processes on one account. `run` holds the check that each
runner is in, `begin` the connect call, `checks` the promise the others share. A check, and
a connect call that deletes an expired file, keep the code they have read. `unreported`
has the codes whose check failed after it had stored their credential: the activation or
the removal of the file failed, and `#connected` was not assigned.

**`RuntimeController`** — `start` and `stop` name the await that `#start` and `#stop`
are at; `waits` is what each caller awaits. The registry, the manager and the service
are up or down. `loading` has the activations that await the load of an account: nobody
who stops the registry waits for them, and one that ends afterwards sets `#runtimes`
again (`stray`), so that the next start is refused. One Agent turn may call a tool, which
is a caller like the others.
`Settled` lets all callers that awaited a stop go on in one step: their continuations
run back to back with nothing in between that they could observe.

**`MailWrites`** — a turn is dispatched with one of two tools, the tool call makes one
request with an idempotency key, and the server handles it at any time, also after
the caller has given up and the mail has been dispatched again. Drafts are notified
through check, message and mark, with the store's queue and its load and save apart.
A request ends with the server's answer (`Answered`), without one in JSON or with a 5xx
(`RequestFails`), or with a JSON answer that is none to a write, a 408 or a 202 with a
field missing (`AnswerGarbled`), which the code takes for "not-sent".

## 4. Runs

| Run | Shows | Bounds |
|---|---|---|
| `mail_delivery` | no mail skipped, none from before the baseline dispatched, a repeat takes a fault or an id pushed out of the list; implements `InboxDelivery` | 2 accounts, 3 mails, pages of up to 3, 2 pages a poll, 1 remembered id, 3 states, 2 faults |
| `mail_liveness` | every mail that stays is settled, none repeated once recorded | 2 mails, pages of 1, 1 remembered id: each new id pushes the last one out, and there is just room for two pages |
| `credential_flow` | what is stored comes into use and the watcher leaves nothing alone that is not, an account only runs on credentials stored for it, no shared mailbox, one Agent per account, calls return | 2 accounts (1 registered later), 2 credentials of different mailboxes, the watcher and 1 caller of 1 call, 1 stop, 1 fault; all configurations of 2 Agents and 2 Bots |
| `registry_lost_update` | finding 1 | 2 callers of 1 call, no stop |
| `authorization` | one check per process, no loss without a fault, the newest grant wins and is the one reported, pending files are removed only for a code that is over | 2 processes, 2 codes, 1 status call at a time, 1 failed request, stops and crashes |
| `authorization_liveness` | an approved request is completed, pending files are kept | no failed request, no status tool; expiry, crashes, restarts |
| `authorization_transient` | finding 2 | 1 process, 1 code, 1 failed request |
| `discovery_manager` | loops never overlap, quiet after a stop, the latest runtime wins, calls return | 2 accounts (1 enabled), 2 runtimes, 4 loops, 2 activations, 2 stops, 1 failure |
| `push_discovery` | no change missed, no overlapping polls, a refused or aborted loop ends | 5 states, 2 changes per poll, 2 faults |
| `controller` | all or nothing, starts from nothing, each but for an activation that outlives a stop; calls return | 2 callers, 2 stoppers, 2 calls each, 2 activations, 2 turns, 2 services |
| `controller_second_runtime` | finding 3 | 1 caller of 2 calls |
| `mail_writes` | one automatic reply, "not-sent" is true without a JSON answer, effects bounded by faults, no mark lost | 2 mails, 3 tool calls, 1 change of mode, 2 faults |

Why these bounds. Every hazard here is a race of two operations, with a third to see
its result: two callers, two loops, two codes or two polls with one fault to cut the
first and one to cut its retry. Three mails in pages of up to three, the server choosing how
far a page goes, give a full page, a partly handled page and a page after it. Two accounts
are the least with which one account's state can be mixed up with another's. Three tool
calls are a dispatch, its repetition and one of another mail in between.

`MaxProcessed` stands for 200. With `2 * maxChanges - 1 <= 200` the list has room for a
mail's page and the one after it (`RoomForTwoPages`), and no mail is repeated that was
recorded; the default `maxChanges` of 100 satisfies this and the largest legal value, 1000,
does not. `mail_liveness` is at the boundary of the first case, `mail_delivery` in the
second, where a page that is fetched again names mails that the list has dropped:
`OneRepeatPerFault` counts these apart, and is false without counting them.
In `credential_flow` one call, one
stored file and the watcher give three loads that can meet; a second mailbox is what a
rotated credential and a collision of accounts need. Two Agents and two Bots are every
way in which one mapping can concern another.

`StoredComesIntoUse` says that a credential stored for an account of the catalogue is in
the end that of its runtime in the registry and in discovery, unless it is removed or the
service stops before. Its exceptions are the cases in which the code does otherwise. The
server refuses the credential; its mailbox is in use by another account; the fingerprint
map does not match (finding 1), and `activateStored` returns what is not stored; or an older
load undid it (`overtaken`): one that a stop had cut off, whose waiters go on with what
they have read, or that of an authorization after whose store another one came. Without
any one of them TLC finds a counterexample. A file that is replaced and put back within
one interval of the watcher is not noticed by it; `Fresh` excludes that, as the server does
not issue a credential twice.

`ObservedInUse` is the safety behind it. The watcher does not try again what it has
observed, so nothing may be observed that is not in use, and nothing older may replace it
afterwards. The run has one caller beside the watcher, so that a load wakes one call at a
time; that several woken calls go on in the order of what they have read is covered by the
proof (`OrderInv`), for any number of them.

Symmetry is only used in runs of safety properties, over sets whose members no
definition tells apart. No run checks for deadlock: the bounds stop every model, and
the system is meant to come to rest.

Fairness. The event loop of Node.js runs every continuation whose promise has
settled, so each chain of awaits is weakly fair (`PollStep`, `Progress`, `CheckStep`,
`StartStep`, `Starting`, `Stopping`, `StopEnds`, `Activation`, `Watch`). In `CredentialFlow`
a call waits its turn among continuations that come again and again; the loop is delayed
by them but does not forget it, so `FlowProgress` is strongly fair. Requests end because
each has a timeout, timers fire (`Recycle`, `DelayEnds`). `LoopEnds` is fair only for an
aborted loop, which `PushDiscovery` shows. An Agent turn is fair (`TurnEnds`) only
where the host has to end it: it is aborted or has no tool call to wait for; that the
host honours `abortSignal` and a timeout is assumed. Nothing obliges an owner to
decide, a server to change, a process to crash or to start again. Liveness is claimed
under finitely many faults: with a fault in every retry nothing can be promised.

## 5. What is proved

The proof modules hold for every value of the constants that satisfies the module's
assumption (`DiscoveryAssumption`, `RegistryAssumption`, `ManagerAssumption`,
`AuthorizationAssumption`, `PushAssumption`, `ControllerAssumption`, `WritesAssumption`; each
only says that distinguished values are distinct, bounds are numbers and page sizes are
positive). One theorem assumes more, and says so: `PendingIsKept` is about one instance, one
connect call at a time, no status tool and no stop (`OneAtATime`), which are the conditions
of its run, and without which it is false. `RepeatedOnlyWhenPushedOut` and
`RepeatsArePaidFor` hold for every legal `maxChanges`, with room for two pages or without.
`FlowAssumption` says besides that the accounts are those of the Bots and that
the catalogue begins with the ones discovered in the configuration.
Each proves that an inductive invariant holds initially and is kept by every action,
one lemma per action or group of like actions.

| Module | Theorems | The invariant behind them |
|---|---|---|
| `MailDiscovery_proofs` | `NoMailSkipped`, `OnlyNewMailDispatched`, `ImplementsDelivery`, `RepeatedOnlyWhenPushedOut`, `RepeatsArePaidFor` | what is on disk (`FileInv`, `BaselineInv`) and what the poll remembers of it (`MemoryInv`, `PageInv`, `CurInv`): between the cursor on disk and the page in hand, every mail that has stayed in the Inbox is recorded or still to do; the refinement maps each step to one of `InboxDelivery` or to a stutter. `OnceInv`: what is recorded past a cursor is remembered with it or was pushed out (`Covers`), and every id in the list was recorded after those before it (`Follows`), so what falls out of the list has as many others after it as the list holds (`MemoDrops`); the ids that follow one were created less than a page before or after it (`MemoOf`), so where there is room for two pages they are too few to push it out (`MemoKeeps`). `RepeatInv`: the repeats, plus the mails dispatched but not recorded, never outnumber the faults and the mails pushed out |
| `AccountRegistry_proofs` | `CredentialsIsolated`, `NoSharedMailbox`, `CallsAwaitLoads` | `CallsInv`: the map a load has read, and the credential it loads, are themselves isolated by account, so writing them back keeps the map so, stale or not. `LinkInv`: what `#activations` names is loading, and whoever shares a load or waits for one does so while it is in flight (`AwaitsItsLoad`) |
| `CredentialFlow_proofs` | `FlowIsRegistry`, `FlowIsolated`, `FlowMailboxesUnique`, `FlowAgentsSeparate`, `FlowObservedInUse`, `FlowAwaitsLoads` | every step of the process is a step of the registry or leaves it alone, which carries the registry's theorems over; what discovery was handed (`FlowInvariant`) was in a runtime map. `UseInv`, over `LineInv` (each call is in line once, and only while it waits for its turn): calls of one account go on in the order in which they read the file (`OrderInv`); once a load of what is stored has begun, no call can load anything older (`CleanInv`); loops have the credential of the fingerprint map (`HandedInv`), and so does what the watcher has observed (`ObservedInv`) |
| `Authorization_proofs` | `ChecksShared`, `GrantsAccountedFor`, `NewerGrantKept`, `NamesAreStored`, `StaleReadsOnly`, `PendingIsKept` | `IInv`: who runs the shared check and who waits for it; `GrantInv`: credentials lost, plus those at risk in a check, never exceed failures, aborted exchanges and instances taken down; `NamesInv`: what a service calls connected it has stored, and whatever it has stored since is in a check that is still to report it, or is excepted (`unreported`). `OverInv`: the code of a check that has its answer, or of a call that deletes, is over and stays so. `KeptInv`: with nothing overlapping, that code is the pending one, since a connect call that replaces it has no task beside it |
| `DiscoveryManager_proofs` | `LoopsNeverOverlap`, `StoppedIsQuiet`, `LatestIsUsed` | `LiveInv`, `OwnInv`: a live loop is in `#active` or is the one the head of its account's queue waits for, or `stop` does; never two. `LatestInv`: the youngest call of a queue is the latest one |
| `PushDiscovery_proofs` | `PollsNeverOverlap`, `ListenerCaughtUp` | `AwaitInv` (the loop waits for the reader while there is one), `SeenInv` (a poll made for the last announcement sees the latest state, unless it is cut short by the page limit or by an abort) |
| `RuntimeController_proofs` | `ExposedWhole`, `StartsAreClean` | `PartsInv`: which parts are up at each await of a start and of a stop, and that what is down has its registry up only by an activation that outlived a stop |
| `MailWrites_proofs` | `AnsweredOnce`, `NotSentIsHonest`, `EffectsCounted`, `NoticeGivenOnce` | `CallInv`, `SentInv`: a sent reply is recorded under its mail's key, and a request that may yet send is never one reported as not sent, unless its answer was garbled. `BudgetInv`: the dispatches of a mail, and the one due, are at most one more than the faults. `NoticeInv`: only one call saves marks, and it has read those in force |

Each also proves its type invariant, those of `DiscoveryManager` and `MailWrites` only there
and in no run. Only model-checked is all liveness: `EveryMailSettled`, `StoredComesIntoUse`,
`EveryCallReturns`, `CompletesAutomatically`, `CallsReturn` of both modules,
`EveryChangePolled`, `RevokedEnds` and `AbortEnds`. Liveness and fairness are out of the
prover's reach. So is induction over data, which these modules do without: the two
arguments that count (`RepeatsArePaidFor` and `RepeatedOnlyWhenPushedOut`) do so step by step, or
by the cardinality of an interval. No module declares a RECURSIVE operator.

Trying to prove a property has changed some. `OneRepeatPerFault` was a sum over all
mails and is the size of a set. `ObservedInUse` came out as what `StoredComesIntoUse` needs.
`LostToStaleReadOnly` is what is left of `PendingKept` when the status tool is there.

## 6. Findings

1. **A rotated credential can be taken for the one in use**
   (`registry_lost_update`, `FingerprintsMatch`). `#activate` writes back the runtime
   map it read before its load but updates the fingerprint map as it is afterwards.
   Two accounts activated at once leave one of them with its old client under its new
   fingerprint, and `activateStored` then never reloads it.
2. **One failed exchange ends the automatic completion** (`authorization_transient`,
   `CompletesAutomatically`). The background task returns on its first error, while the
   tool has promised that the connection completes after approval.
3. **A failed start leaves background tasks behind** (`controller_second_runtime`,
   `NoSecondRuntime`). When one pending file cannot be resumed, the tasks started for
   the accounts before it run on in a service that nobody holds; each later tool call
   adds a set. The same file keeps every account from starting.

Met while modelling, without a run of its own:

* A mail whose turn always fails is the head of its line for ever: later mail of the
  account waits. A turn that returns is settled, even one that was aborted.
* `pollOnce` may return normally although the signal was aborted at its end; the watch
  that follows does not hear the signal, and `stop()` waits for the recycle timer.
* The back-off delay is capped at 60 s, less than a legal interval of 300 s.
* A Bot bound to several Agents is reported without their names (`bot_reused` has no
  `agentId`), so that `bind` and `status` for one of them do not name the reason.
* An account that is registered later for an Agent which has one already leaves this
  Agent with two: its tools are not offered and its guidance says so, until a reload.
* The runtimes of a load that is in flight when the registry stops are installed
  afterwards, and make the next start fail (`account-runtime-registry.ts:211`).
  `WholeOrNothing` and `StartsFromNothing` state it as their exception.
* A status check removes the pending file without looking whether it is still the one
  it read (`agent-mail-authorization-service.ts:306`); a second connect call in between
  loses its authorization. So does one that meets another call's removal of an expired
  file (`:152`). `StaleReadsOnly` proves that nothing else loses one.
* Calls that waited for a load that a stop has cut off activate what they read before the
  stop, and may put an older credential in the place of a newer one
  (`account-runtime-registry.ts:179-184`); the watcher may have observed the newer one, which it
  then leaves alone.
* After a failed activation the credential stays stored but `#connected` is not assigned
  (`agent-mail-authorization-service.ts:305`): the next check finds the code used, removes
  the file, and the status tool names the mailbox connected before. `ConnectedNamesStored`
  proves that it names an older one for no other reason.
* `mail_reply` has the id of its tool call as idempotency key, so that a repeated
  dispatch makes a second Draft, and a change of mode in between a Draft beside a sent
  reply. `EffectsBounded` counts them: one per fault.
* A JSON answer with status 408 to an automatic reply is "not-sent"
  (`agent-mail-api-client.ts:534-540`), and so is a 202 with a field missing (`:1003-1014`);
  an answer that is not JSON is "unknown" (`:863-871`). The reply may have gone out in
  all three cases. `NotSentIsTrue` states the first two as its exception.
* A failed notice of a saved Draft is not tried again.

## 7. What is left out

The length of delays; texts, prompts and their parsing; URL and size checks of the API
client; `mail_send`, which belongs to owner sessions that are never dispatched again;
pending confirmations in the workflow file, which no code uses; its limit of remembered
notices; two store instances on that file. A turn makes at most one tool call that
writes, as its prompt demands, and one that makes none is not modelled. The server's
honouring of an idempotency key is assumed from the code's use of it. `Restart` in `MailDiscovery` loses memory at any await, also where an abort
would be noticed later. In `authorization_liveness` the status tool is absent, as its
check may remove the pending file of a newer request (above). Of an activation
`RuntimeController` only has the await of its load, and the mailbox collision that it may
end with is one of its failures.

Of `CredentialFlow`: a credential file is one value, read and replaced in one step; the
checks of its path and mode are left out, and so are references to secrets that are read
through the host. The host is taken to call the service's `stop` only after `start` has
returned: a stop during a start would leave the watcher that is created afterwards
(`index.ts:245-279`). The listener of the bus is there whenever the controller is
starting or up. An account whose configuration has changed is refused by `register` and
stays as it is; the model has one configuration per account. `bind` looks whether a
credential exists before it authorizes; that this may race with another process is not
modelled.

Not modelled: the parsing of explicit account configuration and of the plugin's options,
which are checks of one value at a time; `account-session-binding`, which no code uses;
the questions and texts of the command line; and the installer, a script that runs the
package manager and edits one file, with nothing concurrent in it.
