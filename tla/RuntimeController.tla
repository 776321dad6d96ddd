-------------------------- MODULE RuntimeController --------------------------
(***************************************************************************)
(* AgentMailRuntimeController: the one start and the one stop that the     *)
(* Gateway service and any number of tool calls share, over the registry,  *)
(* the discovery manager and the authorization service they bring up and   *)
(* take down.  The tool calls may come from the Agent turn of a discovery  *)
(* loop, which the manager waits for when it stops.                        *)
(*                                                                         *)
(* Code between two awaits is one step.  What the three parts do inside is *)
(* in AccountRegistry, DiscoveryManager and Authorization; here each is    *)
(* down or up.  Of the registry's activations only the await of the load   *)
(* is kept: nobody who stops the registry waits for it, and when it ends   *)
(* the registry is up, whatever has happened in between.                   *)
(***************************************************************************)
EXTENDS Naturals, FiniteSets

CONSTANTS
  Callers,        \* tool calls, and the service's start: ensureStarted
  Stoppers,       \* calls of stop
  Services,       \* authorization services; one whose tasks have ended is reused
  Loads,          \* activations of accounts; one that has ended is reused
  None,
  MaxTurns,       \* bound of the model: Agent turns
  MaxCalls        \* bound of the model: calls each caller makes

ASSUME ControllerAssumption ==
  /\ None \notin Services \union Callers
  /\ Callers \intersect Stoppers = {}
  /\ MaxTurns \in Nat /\ MaxCalls \in Nat

VARIABLES
  start,      \* #startPromise: "none", or the await that #start is at
  stop,       \* #stopPromise: "none", or the await that #stop is at
  service,    \* #authorizationService
  resources,  \* #runtimeResourcesStarted
  registry,   \* #runtimes is set: the account runtimes are loaded
  loading,    \* activations that await the load of their account
  stray,      \* history: an activation that outlived a stop has set #runtimes
  manager,    \* the discovery manager is started
  life,       \* each authorization service: its background tasks run, or not
  turn,       \* the Agent turn of a discovery loop
  tool,       \* the tool call that turn is waiting for
  waits,      \* what each caller and stopper awaits
  turns, calls \* turns and calls so far, each bounded

promises == <<start, stop>>
loads    == <<loading, stray>>
parts    == <<service, resources, registry, loads, manager, life>>
agent    == <<turn, tool, turns>>
vars     == <<promises, parts, agent, waits, calls>>

Released(what) == [p \in DOMAIN waits |->
                     IF waits[p] = what THEN "none" ELSE waits[p]]

\* AccountDiscoveryManager.stop aborts the loop, and the turn with it.
AbortTurn == turn' = IF turn = "running" THEN "aborted" ELSE turn

----------------------------------------------------------------------------
(* ensureStarted.                                                          *)

\* The registry refuses to start when #runtimes is set.
Begun(up) == IF up THEN "refused" ELSE "registry"

\* The service there is, the start under way, or a new start.
Proceed(p) ==
  IF service # None
  THEN UNCHANGED <<waits, start>>
  ELSE /\ waits' = [waits EXCEPT ![p] = "start"]
       /\ start' = IF start = "none" THEN Begun(registry) ELSE start

Called(p) == /\ waits[p] = "none"
             /\ calls[p] < MaxCalls
             /\ calls' = [calls EXCEPT ![p] = @ + 1]

Ensure(p) ==
  /\ Called(p)
  /\ IF stop # "none"
     THEN waits' = [waits EXCEPT ![p] = "stop"] /\ UNCHANGED start
     ELSE Proceed(p)
  /\ UNCHANGED <<stop, parts>>

EnsureStarted(p) == Ensure(p) /\ UNCHANGED agent

\* A tool of the turn: createLazyAccountMailClient starts the runtime first.
TurnCallsTool(p) ==
  /\ turn = "running" /\ tool = None
  /\ Ensure(p)
  /\ tool' = p
  /\ UNCHANGED <<turn, turns>>

----------------------------------------------------------------------------
(* #start.                                                                 *)

\* The catch block: the manager is asked to stop.
Fails == /\ start' = "undo"
         /\ AbortTurn

\* The abort signal of a stop makes the loads fail, unless the last of them
\* has its answer.  What was loaded replaces what an activation has set since.
RegistryStarts ==
  /\ \/ /\ start = "registry"
        /\ registry' = TRUE /\ resources' = TRUE /\ stray' = FALSE
        /\ start' = "manager"
        /\ UNCHANGED turn
     \/ /\ start \in {"registry", "refused"}
        /\ Fails
        /\ UNCHANGED <<registry, resources, stray>>
  /\ UNCHANGED <<stop, service, loading, manager, life, tool, turns, waits, calls>>

ManagerStarts ==
  /\ start = "manager"
  /\ manager' = TRUE
  /\ \/ start' = "service" /\ UNCHANGED turn
     \/ Fails
  /\ UNCHANGED <<stop, service, resources, registry, loads, life, tool,
                 turns, waits, calls>>

\* resumePending starts the background tasks account by account: when one file
\* cannot be read it fails, and the tasks it has started go on.
ServiceCreated ==
  /\ start = "service"
  /\ \/ \E s \in {r \in Services : life[r] = "ended"} :
          /\ service' = s /\ life' = [life EXCEPT ![s] = "running"]
          /\ start' = "none" /\ waits' = Released("start")
          /\ UNCHANGED turn
     \/ /\ \E s \in Services : life' = [life EXCEPT ![s] = "running"]
        /\ Fails
        /\ UNCHANGED <<service, waits>>
     \/ /\ Fails
        /\ UNCHANGED <<service, life, waits>>
  /\ UNCHANGED <<stop, resources, registry, loads, manager, tool, turns, calls>>

\* The loads under way are not waited for.
AllDown == /\ manager' = FALSE /\ registry' = FALSE /\ resources' = FALSE
           /\ stray' = FALSE
           /\ UNCHANGED loading

\* mutant: a failed start leaves the registry loaded
LeaveLoaded ==
  /\ start = "undo" /\ turn = "none"
  /\ manager' = FALSE /\ resources' = FALSE
  /\ start' = "none" /\ waits' = Released("start")
  /\ UNCHANGED <<stop, service, registry, loads, life, agent, calls>>

StartUndone ==
  /\ start = "undo" /\ turn = "none"
  /\ AllDown
  /\ start' = "none" /\ waits' = Released("start")
  /\ UNCHANGED <<stop, service, life, agent, calls>>

----------------------------------------------------------------------------
(* stop.                                                                   *)

\* mutant: a stop during a start settles with the start
StopJoinsStart(p) ==
  /\ Called(p)
  /\ waits' = [waits EXCEPT ![p] = IF start = "none" THEN "stopped" ELSE "start"]
  /\ stop' = IF stop = "none" THEN "start" ELSE stop
  /\ UNCHANGED <<start, parts, agent>>

\* The start under way is aborted; the stop under way is shared.
Stop(p) ==
  /\ Called(p)
  /\ waits' = [waits EXCEPT ![p] = "stopped"]
  /\ stop' = IF stop = "none" THEN "start" ELSE stop
  /\ UNCHANGED <<start, parts, agent>>

\* The stop has settled: its calls return, and the ensureStarted calls that
\* waited for it go on at once: the first of them starts, the rest join it.
Settled ==
  /\ stop' = "none"
  /\ waits' = [p \in DOMAIN waits |-> CASE waits[p] = "stopped" -> "none"
                                        [] waits[p] = "stop" -> "start"
                                        [] OTHER -> waits[p]]
  /\ start' = IF \E p \in Callers : waits[p] = "stop"
              THEN Begun(registry') ELSE start

\* mutant: the start under way is aborted but not awaited
StopHurries ==
  /\ stop = "start"
  /\ IF service = None /\ ~resources
     THEN UNCHANGED parts /\ Settled
     ELSE stop' = "service" /\ UNCHANGED <<start, parts, waits>>
  /\ UNCHANGED <<agent, calls>>

\* The start has ended, either way: nothing to stop, or the service first.
StopAwaitsStart ==
  /\ stop = "start" /\ start = "none"
  /\ IF service = None /\ ~resources
     THEN UNCHANGED parts /\ Settled
     ELSE stop' = "service" /\ UNCHANGED <<start, parts, waits>>
  /\ UNCHANGED <<agent, calls>>

\* mutant: the manager waits for its loops but does not abort them
ManagerNotAborted ==
  /\ stop = "service"
  /\ life' = [s \in Services |-> IF s = service THEN "ended" ELSE life[s]]
  /\ service' = None
  /\ stop' = "manager"
  /\ UNCHANGED <<start, resources, registry, loads, manager, agent, waits, calls>>

\* Its background tasks have ended; the manager is asked to stop.
ServiceStopped ==
  /\ stop = "service"
  /\ life' = [s \in Services |-> IF s = service THEN "ended" ELSE life[s]]
  /\ service' = None
  /\ stop' = "manager"
  /\ AbortTurn
  /\ UNCHANGED <<start, resources, registry, loads, manager, tool, turns,
                 waits, calls>>

ManagerStopped ==
  /\ stop = "manager" /\ turn = "none"
  /\ AllDown
  /\ Settled
  /\ UNCHANGED <<service, life, agent, calls>>

----------------------------------------------------------------------------
(* AccountRuntimeRegistry.activate: a check of an authorization, the       *)
(* watcher of stored credentials or a tool loads one account again.        *)

LoadBegins(l) ==
  /\ registry /\ l \notin loading
  /\ loading' = loading \union {l}
  /\ UNCHANGED <<promises, service, resources, registry, stray, manager, life,
                 agent, waits, calls>>

\* The account could not be loaded, or is written into a copy of the map that
\* was there when the load began.
LoadEnds(l) ==
  /\ l \in loading
  /\ loading' = loading \ {l}
  /\ \/ registry' = TRUE /\ stray' = IF registry THEN stray ELSE TRUE
     \/ UNCHANGED <<registry, stray>>
  /\ UNCHANGED <<promises, service, resources, manager, life, agent, waits, calls>>

----------------------------------------------------------------------------
(* The Agent turn of a loop, and what a failed start left running.         *)

\* A loop of a manager that is not stopping dispatches a mail.
TurnStarts ==
  /\ manager /\ start # "undo" /\ stop # "manager"
  /\ turn = "none"
  /\ turns < MaxTurns /\ turns' = turns + 1
  /\ turn' = "running" /\ tool' = None
  /\ UNCHANGED <<promises, parts, waits, calls>>

\* A turn ends when its tool call has returned, or is cut off by its abort.
TurnEnds ==
  /\ turn # "none"
  /\ tool # None /\ turn # "aborted" => waits[tool] = "none"
  /\ turn' = "none" /\ tool' = None
  /\ UNCHANGED <<promises, parts, turns, waits, calls>>

\* The authorization it polled for was granted, denied or has lapsed.
LostTasksEnd(s) ==
  /\ life[s] = "running" /\ s # service
  /\ life' = [life EXCEPT ![s] = "ended"]
  /\ UNCHANGED <<promises, service, resources, registry, loads, manager,
                 agent, waits, calls>>

----------------------------------------------------------------------------
Init ==
  /\ start = "none" /\ stop = "none"
  /\ service = None /\ resources = FALSE
  /\ registry = FALSE /\ manager = FALSE
  /\ loading = {} /\ stray = FALSE
  /\ life = [s \in Services |-> "ended"]
  /\ turn = "none" /\ tool = None /\ turns = 0
  /\ waits = [p \in Callers \union Stoppers |-> "none"]
  /\ calls = [p \in Callers \union Stoppers |-> 0]

Starting == RegistryStarts \/ ManagerStarts \/ ServiceCreated \/ StartUndone
Stopping == StopAwaitsStart \/ ServiceStopped \/ ManagerStopped

Next ==
  \/ \E p \in Callers : EnsureStarted(p) \/ TurnCallsTool(p)
  \/ \E p \in Stoppers : Stop(p)
  \/ Starting \/ Stopping
  \/ \E l \in Loads : LoadBegins(l) \/ LoadEnds(l)
  \/ TurnStarts \/ TurnEnds
  \/ \E s \in Services : LostTasksEnd(s)

\* Requests end with an answer or a timeout, background tasks end once they are
\* aborted, and the host ends a turn whose abort signal fires or whose tool
\* calls have returned.
Spec == /\ Init /\ [][Next]_vars
        /\ WF_vars(Starting) /\ WF_vars(Stopping) /\ WF_vars(TurnEnds)

----------------------------------------------------------------------------
TypeOK ==
  /\ start \in {"none", "registry", "refused", "manager", "service", "undo"}
  /\ stop \in {"none", "start", "service", "manager"}
  /\ service \in Services \union {None}
  /\ resources \in BOOLEAN /\ registry \in BOOLEAN /\ manager \in BOOLEAN
  /\ loading \in SUBSET Loads /\ stray \in BOOLEAN
  /\ life \in [Services -> {"running", "ended"}]
  /\ turn \in {"none", "running", "aborted"}
  /\ tool \in Callers \union {None}
  /\ waits \in [Callers \union Stoppers -> {"none", "start", "stop", "stopped"}]
  /\ \A p \in Stoppers : waits[p] \in {"none", "stopped"}
  /\ turns \in 0 .. MaxTurns
  /\ calls \in [Callers \union Stoppers -> 0 .. MaxCalls]

(* "Cleans up failed startup and does not expose a partial service" (the    *)
(* test of that name), for any race of starts, failures, stops and loads:   *)
(* once no start and no stop is under way, either a running service is      *)
(* exposed with the registry loaded and the manager started, or none of     *)
(* them is up and no Agent turn is left.  The code has one exception, and   *)
(* the formula states it: an activation whose load outlived the stop sets   *)
(* #runtimes again, and leaves the registry up with nothing else.           *)
WholeOrNothing ==
  start = "none" /\ stop = "none" =>
    IF service # None
    THEN life[service] = "running" /\ registry /\ manager /\ resources
    ELSE /\ ~manager /\ ~resources /\ turn = "none"
         /\ registry => stray

(* A start begins from nothing: neither the callers that waited for a stop  *)
(* nor those that come during a start bring about a second one while the    *)
(* manager, the service or a turn of the last is there.  The registry may   *)
(* be up only by an activation that outlived a stop, and a start is refused *)
(* ("already started") for that reason alone.                               *)
StartsFromNothing ==
  start \in {"registry", "refused"} =>
    /\ ~manager /\ ~resources /\ service = None /\ turn = "none"
    /\ registry => stray
    /\ start = "refused" => registry

(* "Without introducing a second runtime" (the class comment): the          *)
(* background tasks of two authorization services never run at once.        *)
NoSecondRuntime ==
  \A r, s \in Services : life[r] = "running" /\ life[s] = "running" => r = s

(* Every call of ensureStarted and of stop returns, although a stop waits   *)
(* for an Agent turn that may wait for a tool that waits for the stop.      *)
CallsReturn ==
  \A p \in Callers \union Stoppers : waits[p] # "none" ~> waits[p] = "none"
=============================================================================
