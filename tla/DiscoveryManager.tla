--------------------------- MODULE DiscoveryManager ---------------------------
(***************************************************************************)
(* AccountDiscoveryManager: which discovery loop runs for each Plugin      *)
(* Account.  activate() replaces the loop of an account by one that uses   *)
(* the runtime it is given, in the order of the calls; start() activates   *)
(* the runtimes of the registry one by one; stop() aborts every loop it    *)
(* finds.  What a loop does is MailDiscovery; here it runs, is aborted,    *)
(* and ends.                                                               *)
(***************************************************************************)
EXTENDS Naturals, Sequences, FiniteSets

CONSTANTS
  Accounts,   \* Plugin Accounts
  Enabled,    \* those with discovery.enabled
  Runtimes,   \* runtime objects the registry may hand over for an account
  Loops,      \* loops; as many as a behaviour of the model may start
  None,
  MaxCalls,   \* bound of the model: calls of activate from outside
  MaxStops,   \* bound of the model: calls of stop
  MaxFaults   \* bound of the model: activations that fail

ASSUME ManagerAssumption ==
  /\ Enabled \subseteq Accounts
  /\ None \notin Loops \union Runtimes
  /\ MaxCalls \in Nat /\ MaxStops \in Nat /\ MaxFaults \in Nat

VARIABLES
  started,   \* #stateDir is defined
  stopping,  \* #stopPromise is defined
  ending,    \* the loops stop() waits for
  toStart,   \* start(): the runtimes still to be activated
  queue,     \* #activations: the chained calls of each account, oldest first
  waits,     \* the loop that the oldest call of each account awaits
  active,    \* #active: the loop of each account
  loop,      \* every loop: its state, account and runtime
  latest,    \* history: the runtime of the latest call for each account
  calls, stops, faults   \* calls, stops and failures so far, each bounded

manager == <<started, stopping, ending, toStart>>
bounds  == <<calls, stops, faults>>
vars    == <<manager, queue, waits, active, loop, latest, bounds>>

Live(l) == loop[l].state \in {"running", "aborted"}

Unused == [state |-> "unused", account |-> None, runtime |-> None]

----------------------------------------------------------------------------
(* activate: its part before the first await of #activate, and the rest.   *)

Call(a, r, by) ==
  /\ queue' = [queue EXCEPT ![a] = Append(@, [runtime |-> r, by |-> by])]
  /\ latest' = [latest EXCEPT ![a] = r]

\* bound of the model: a loop is left for every call under way
LoopsLeft ==
  Cardinality({l \in Loops : loop[l] = Unused})
    > Cardinality({c \in Accounts \X (1 .. Cardinality(Loops)) :
                     c[2] \in DOMAIN queue[c[1]]})

Activate(a, r) ==
  /\ calls < MaxCalls /\ calls' = calls + 1
  /\ LoopsLeft
  /\ Call(a, r, "caller")
  /\ UNCHANGED <<manager, waits, active, loop, stops, faults>>

Returns(a) == queue' = [queue EXCEPT ![a] = Tail(@)]

Refused == ~started \/ stopping

NoneToStart == [a \in Accounts |-> None]

\* createDispatcher may throw; the loop then never starts, and a start() that
\* made the call fails with it: the controller will stop the manager.
BeginLoop(a, c) ==
  \/ /\ a \in Enabled
     /\ \E l \in Loops :
          /\ loop[l] = Unused
          /\ loop' = [loop EXCEPT ![l] =
               [state |-> "running", account |-> a, runtime |-> c.runtime]]
          /\ active' = [active EXCEPT ![a] = l]
     /\ UNCHANGED <<toStart, faults>>
  \/ /\ a \notin Enabled
     /\ UNCHANGED <<loop, active, toStart, faults>>
  \/ /\ a \in Enabled /\ faults < MaxFaults /\ faults' = faults + 1
     /\ toStart' = IF c.by = "start" THEN NoneToStart ELSE toStart
     /\ UNCHANGED <<loop, active>>

Ready(a) == queue[a] # <<>> /\ waits[a] = None

\* mutant: an account that has a loop keeps it
ActivateKeeps(a) ==
  /\ Ready(a) /\ (Refused \/ active[a] # None)
  /\ Returns(a)
  /\ UNCHANGED <<manager, waits, active, loop, latest, bounds>>

\* Refused, or this runtime is the one in use already.
ActivateNothing(a) ==
  /\ Ready(a)
  /\ \/ Refused
     \/ active[a] # None /\ loop[active[a]].runtime = Head(queue[a]).runtime
  /\ Returns(a)
  /\ UNCHANGED <<manager, waits, active, loop, latest, bounds>>

ActivateFirst(a) ==
  /\ Ready(a) /\ ~Refused /\ active[a] = None
  /\ BeginLoop(a, Head(queue[a]))
  /\ Returns(a)
  /\ UNCHANGED <<started, stopping, ending, waits, latest, calls, stops>>

Aborted(S) == [l \in Loops |->
  IF l \in S /\ loop[l].state = "running"
  THEN [loop[l] EXCEPT !.state = "aborted"] ELSE loop[l]]

\* The loop of the account leaves #active; S are aborted, l is awaited.
Replaces(a, S, l) ==
  /\ Ready(a) /\ ~Refused /\ active[a] # None
  /\ loop[active[a]].runtime # Head(queue[a]).runtime
  /\ loop' = Aborted(S)
  /\ active' = [active EXCEPT ![a] = None]
  /\ waits' = [waits EXCEPT ![a] = l]
  /\ UNCHANGED <<manager, queue, latest, bounds>>

\* mutants: the old loop is aborted but not awaited, or not even aborted
ReplaceUnawaited(a) == Replaces(a, {active[a]}, None)
ReplaceUnaborted(a) == Replaces(a, {}, active[a])

\* #stopAccount
ActivateReplaces(a) == Replaces(a, {active[a]}, active[a])

Resumes(a, refused) ==
  /\ waits[a] # None /\ ~Live(waits[a])
  /\ waits' = [waits EXCEPT ![a] = None]
  /\ IF refused
     THEN UNCHANGED <<active, loop, toStart, faults>>
     ELSE BeginLoop(a, Head(queue[a]))
  /\ Returns(a)
  /\ UNCHANGED <<started, stopping, ending, latest, calls, stops>>

\* mutant: the manager is not looked at again after the await
ResumeUnchecked(a) == Resumes(a, FALSE)

ActivateResumes(a) == Resumes(a, Refused)

----------------------------------------------------------------------------
(* A loop ends: by itself on a fatal error or a rejected credential, or    *)
(* once its poll has noticed the abort.                                    *)

LoopEnds(l) ==
  /\ Live(l)
  /\ loop' = [loop EXCEPT ![l].state = "ended"]
  /\ active' = [a \in Accounts |-> IF active[a] = l THEN None ELSE active[a]]
  /\ UNCHANGED <<manager, queue, waits, latest, bounds>>

----------------------------------------------------------------------------
(* start and stop.                                                         *)

\* The runtime controller calls start once the registry has loaded.
Start ==
  /\ ~started /\ ~stopping
  /\ started' = TRUE
  /\ toStart' \in {f \in [Accounts -> Runtimes \union {None}] :
                     \E a \in Accounts : f[a] # None}
  /\ UNCHANGED <<stopping, ending, queue, waits, active, loop, latest, bounds>>

StartCallsDone ==
  \A a \in Accounts : \A i \in DOMAIN queue[a] : queue[a][i].by # "start"

StartActivates(a) ==
  /\ toStart[a] # None /\ StartCallsDone
  /\ LoopsLeft
  /\ Call(a, toStart[a], "start")
  /\ toStart' = [toStart EXCEPT ![a] = None]
  /\ UNCHANGED <<started, stopping, ending, waits, active, loop, bounds>>

Starting == ~StartCallsDone \/ \E a \in Accounts : toStart[a] # None

\* The controller awaits its start before it stops.
Stop ==
  /\ started /\ ~stopping /\ ~Starting
  /\ stops < MaxStops /\ stops' = stops + 1
  /\ stopping' = TRUE
  /\ ending' = {active[a] : a \in Accounts} \ {None}
  /\ loop' = Aborted(ending')
  /\ active' = [a \in Accounts |-> None]
  /\ UNCHANGED <<started, toStart, queue, waits, latest, calls, faults>>

StopEnds ==
  /\ stopping /\ \A l \in ending : ~Live(l)
  /\ stopping' = FALSE /\ started' = FALSE /\ ending' = {}
  /\ UNCHANGED <<toStart, queue, waits, active, loop, latest, bounds>>

----------------------------------------------------------------------------
Init ==
  /\ started = FALSE /\ stopping = FALSE /\ ending = {}
  /\ toStart = NoneToStart
  /\ queue = [a \in Accounts |-> <<>>]
  /\ waits = [a \in Accounts |-> None]
  /\ active = [a \in Accounts |-> None]
  /\ loop = [l \in Loops |-> Unused]
  /\ latest = [a \in Accounts |-> None]
  /\ calls = 0 /\ stops = 0 /\ faults = 0

Activation(a) == \/ ActivateNothing(a) \/ ActivateFirst(a)
                 \/ ActivateReplaces(a) \/ ActivateResumes(a)

Next ==
  \/ Start \/ Stop \/ StopEnds
  \/ \E a \in Accounts : \/ \E r \in Runtimes : Activate(a, r)
                         \/ Activation(a) \/ StartActivates(a)
  \/ \E l \in Loops : LoopEnds(l)

\* An aborted loop ends: its requests, its delay and the Agent's turn take the
\* abort signal.  A loop that has not been aborted may run for ever.
Spec == /\ Init /\ [][Next]_vars
        /\ WF_vars(StopEnds)
        /\ \A a \in Accounts : WF_vars(Activation(a)) /\ WF_vars(StartActivates(a))
        /\ \A l \in Loops : WF_vars(loop[l].state = "aborted" /\ LoopEnds(l))

----------------------------------------------------------------------------
TypeOK ==
  /\ started \in BOOLEAN /\ stopping \in BOOLEAN
  /\ ending \in SUBSET Loops
  /\ toStart \in [Accounts -> Runtimes \union {None}]
  /\ queue \in [Accounts -> Seq([runtime : Runtimes, by : {"caller", "start"}])]
  /\ waits \in [Accounts -> Loops \union {None}]
  /\ active \in [Accounts -> Loops \union {None}]
  /\ loop \in [Loops -> [state : {"unused", "running", "aborted", "ended"},
                         account : Accounts \union {None},
                         runtime : Runtimes \union {None}]]
  /\ latest \in [Accounts -> Runtimes \union {None}]
  /\ calls \in 0 .. MaxCalls /\ stops \in 0 .. MaxStops
  /\ faults \in 0 .. MaxFaults

(* "Owns one non-overlapping JMAP Email/changes loop per active Plugin      *)
(* Account" (the class comment): two loops of an account never run at once, *)
(* not even while one of them winds up, nor across a stop and a new start.  *)
LoopsDontOverlap ==
  \A k, l \in Loops :
    Live(k) /\ Live(l) /\ loop[k].account = loop[l].account => k = l

(* No loop runs on after the manager has stopped: one that was being        *)
(* replaced at that moment may still wind up, but nothing starts again.     *)
QuietWhenStopped ==
  ~started => \A l \in Loops : loop[l].state # "running"

(* Once no activation is under way, the loop of an account uses the runtime *)
(* of the latest call of activate, whatever calls it raced with.            *)
LatestRuntimeWins ==
  \A a \in Accounts :
    queue[a] = <<>> /\ active[a] # None =>
      loop[active[a]].runtime = latest[a]

(* Every call of activate returns, and stop too.                            *)
CallsReturn ==
  /\ \A a \in Accounts : queue[a] # <<>> ~> queue[a] = <<>>
  /\ stopping ~> ~stopping
=============================================================================
