----------------------- MODULE DiscoveryManager_proofs -----------------------
(***************************************************************************)
(* What AccountDiscoveryManager guarantees for every set of accounts and   *)
(* runtimes and any number of loops, calls, stops and starts: the loops of *)
(* an account never overlap, and none runs while the manager is stopped.   *)
(***************************************************************************)
EXTENDS DiscoveryManager, TLAPS

CallsOf == [runtime : Runtimes, by : {"caller", "start"}]

\* A loop runs only as the active loop of its account; one that winds up is
\* awaited by an activation of its account or by stop().
LiveInv ==
  \A l \in Loops :
    /\ Live(l) => /\ loop[l].account \in Accounts
                  /\ \/ l = active[loop[l].account]
                     \/ l = waits[loop[l].account]
                     \/ l \in ending
    /\ loop[l].state = "running" => l = active[loop[l].account]

\* The active loop of an account is its own; while an activation awaits the
\* old loop the account has no active one.
OwnInv ==
  \A a \in Accounts :
    /\ active[a] # None => /\ loop[active[a]].account = a
                           /\ loop[active[a]].state = "running"
    /\ waits[a] # None => /\ loop[waits[a]].account = a
                          /\ loop[waits[a]].state \in {"aborted", "ended"}
                          /\ active[a] = None /\ queue[a] # <<>>

\* While stop() waits, and while the manager is stopped, no account has an
\* active loop; the loops stop() waits for are nobody else's.
StopInv ==
  /\ (stopping \/ ~started) => \A a \in Accounts : active[a] = None
  /\ ~stopping => ending = {}

IInv == TypeOK /\ LiveInv /\ OwnInv /\ StopInv /\ LoopsDontOverlap

----------------------------------------------------------------------------
(* The parts of steps.                                                     *)

\* Nothing is both a loop and None, or a runtime and None.
LEMMA NoneIsNone == None \notin Loops /\ None \notin Runtimes
BY ManagerAssumption

\* Initially no loop has been started.
LEMMA InitInv == Init => IInv
<1> SUFFICES ASSUME Init PROVE IInv
  OBVIOUS
<1>0. /\ queue \in [Accounts -> Seq([runtime : Runtimes, by : {"caller", "start"}])]
      /\ loop \in [Loops -> [state : {"unused", "running", "aborted", "ended"},
                              account : Accounts \union {None},
                              runtime : Runtimes \union {None}]]
  BY DEF Init, Unused
<1>1. /\ toStart \in [Accounts -> Runtimes \union {None}]
      /\ waits \in [Accounts -> Loops \union {None}]
      /\ active \in [Accounts -> Loops \union {None}]
      /\ latest \in [Accounts -> Runtimes \union {None}]
  BY DEF Init, NoneToStart
<1>3. /\ calls \in 0 .. MaxCalls /\ stops \in 0 .. MaxStops
      /\ faults \in 0 .. MaxFaults
  BY ManagerAssumption DEF Init
<1>4. TypeOK
  BY <1>0, <1>1, <1>3 DEF Init, TypeOK
<1>2. LiveInv /\ OwnInv /\ StopInv /\ LoopsDontOverlap
  BY NoneIsNone
     DEF Init, LiveInv, OwnInv, StopInv, LoopsDontOverlap, Live, Unused
<1> QED
  BY <1>2, <1>4 DEF IInv

\* A call only joins its account's queue.
LEMMA CallStep ==
  ASSUME IInv, NEW a \in Accounts, NEW r \in Runtimes,
         NEW by \in {"caller", "start"}, Call(a, r, by),
         UNCHANGED <<started, stopping, ending, waits, active, loop, stops,
                     faults>>,
         toStart' \in [Accounts -> Runtimes \union {None}],
         calls' \in 0 .. MaxCalls
  PROVE  IInv'
<1> DEFINE c == [runtime |-> r, by |-> by]
<1>1. queue' = [queue EXCEPT ![a] = Append(queue[a], c)]
      /\ latest' = [latest EXCEPT ![a] = r] /\ c \in CallsOf
  BY DEF Call, CallsOf
<1>2. queue \in [Accounts -> Seq(CallsOf)]
  BY DEF IInv, TypeOK, CallsOf
<1> HIDE DEF c
<1>3. queue' \in [Accounts -> Seq(CallsOf)]
      /\ \A b \in Accounts : queue[b] # <<>> => queue'[b] # <<>>
  BY <1>1, <1>2
<1>4. TypeOK'
  BY <1>1, <1>3 DEF IInv, TypeOK, CallsOf
<1>5. LiveInv' /\ StopInv' /\ LoopsDontOverlap'
  BY DEF IInv, LiveInv, StopInv, LoopsDontOverlap, Live
<1>6. OwnInv'
  BY <1>3 DEF IInv, OwnInv
<1> QED
  BY <1>4, <1>5, <1>6 DEF IInv

\* The oldest call of an account leaves its queue.
LEMMA ReturnsStep ==
  ASSUME IInv, NEW a \in Accounts, queue[a] # <<>>, Returns(a)
  PROVE  /\ queue' \in [Accounts -> Seq(CallsOf)]
         /\ Head(queue[a]) \in CallsOf
         /\ \A b \in Accounts \ {a} : queue'[b] = queue[b]
<1>1. queue \in [Accounts -> Seq(CallsOf)] /\ queue[a] \in Seq(CallsOf)
  BY DEF IInv, TypeOK, CallsOf
<1>2. Tail(queue[a]) \in Seq(CallsOf) /\ Head(queue[a]) \in CallsOf
  BY <1>1
<1> QED
  BY <1>1, <1>2 DEF Returns

\* A loop that begins is the only live one of its account when nothing of that
\* account was live before.
LEMMA BeginLoopStep ==
  ASSUME IInv, NEW a \in Accounts, NEW c \in CallsOf, BeginLoop(a, c),
         started, ~stopping, active[a] = None, waits' = [waits EXCEPT ![a] = None],
         \A l \in Loops : Live(l) => loop[l].account # a,
         UNCHANGED <<started, stopping, ending, latest, calls, stops>>,
         queue' \in [Accounts -> Seq(CallsOf)],
         \A b \in Accounts \ {a} : queue'[b] = queue[b]
  PROVE  IInv'
<1> USE NoneIsNone
<1>1. CASE UNCHANGED <<loop, active>> /\ toStart' \in {toStart, NoneToStart}
           /\ faults' \in 0 .. MaxFaults
  <2>1. TypeOK'
    BY <1>1 DEF IInv, TypeOK, CallsOf, NoneToStart
  <2>2. LiveInv' /\ StopInv' /\ LoopsDontOverlap'
    BY <1>1 DEF IInv, TypeOK, LiveInv, StopInv, LoopsDontOverlap, Live
  <2>3. OwnInv'
    BY <1>1 DEF IInv, TypeOK, OwnInv
  <2> QED
    BY <2>1, <2>2, <2>3 DEF IInv
<1>2. ASSUME NEW l \in Loops, loop[l] = Unused,
             loop' = [loop EXCEPT ![l] =
               [state |-> "running", account |-> a, runtime |-> c.runtime]],
             active' = [active EXCEPT ![a] = l],
             UNCHANGED <<toStart, faults>>
      PROVE  IInv'
  <2> USE <1>2
  <2>1. /\ loop'[l].state = "running" /\ loop'[l].account = a
        /\ \A k \in Loops \ {l} : loop'[k] = loop[k]
        /\ active'[a] = l /\ waits'[a] = None
        /\ \A b \in Accounts \ {a} : active'[b] = active[b]
                                     /\ waits'[b] = waits[b]
    BY DEF IInv, TypeOK
  <2>2. ~Live(l)
    BY DEF Live, Unused
  <2>3. TypeOK'
    BY DEF IInv, TypeOK, CallsOf
  <2>4. LiveInv'
    <3> SUFFICES ASSUME NEW k \in Loops PROVE LiveInv!(k)'
      BY DEF LiveInv
    <3>1. CASE k = l
      BY <2>1, <3>1 DEF Live
    <3>2. CASE k # l
      BY <2>1, <3>2 DEF IInv, LiveInv, Live
    <3> QED
      BY <3>1, <3>2
  <2>5. OwnInv'
    <3> SUFFICES ASSUME NEW b \in Accounts PROVE OwnInv!(b)'
      BY DEF OwnInv
    <3>1. CASE b = a
      BY <2>1, <3>1
    <3>2. CASE b # a
      <4>1. active[b] # l /\ waits[b] # l
        <5>1. loop[l].state = "unused" /\ l # None
          BY DEF Unused
        <5>2. active[b] # None => loop[active[b]].state = "running"
          BY DEF IInv, OwnInv
        <5>3. waits[b] # None => loop[waits[b]].state \in {"aborted", "ended"}
          BY DEF IInv, OwnInv
        <5> QED
          BY <5>1, <5>2, <5>3
      <4> QED
        BY <2>1, <3>2, <4>1 DEF IInv, OwnInv, TypeOK
    <3> QED
      BY <3>1, <3>2
  <2>6. StopInv'
    BY DEF IInv, StopInv
  <2>7. LoopsDontOverlap'
    BY <2>1 DEF IInv, LoopsDontOverlap, Live
  <2> QED
    BY <2>3, <2>4, <2>5, <2>6, <2>7 DEF IInv
<1>3. CASE UNCHANGED <<loop, active, toStart, faults>>
  BY <1>1, <1>3 DEF IInv, TypeOK
<1>4. CASE /\ faults < MaxFaults /\ faults' = faults + 1
           /\ toStart' = IF c.by = "start" THEN NoneToStart ELSE toStart
           /\ UNCHANGED <<loop, active>>
  <2>1. faults \in 0 .. MaxFaults /\ MaxFaults \in Nat
    BY ManagerAssumption DEF IInv, TypeOK
  <2>2. faults' \in 0 .. MaxFaults
    BY <1>4, <2>1
  <2> QED
    BY <1>1, <1>4, <2>2
<1> QED
  BY <1>2, <1>3, <1>4 DEF BeginLoop

----------------------------------------------------------------------------
(* The steps.                                                              *)

\* While the manager is neither stopped nor stopping, the live loop of an
\* account is its active one or the one it awaits.
LEMMA LiveOwner ==
  ASSUME IInv, ~stopping, NEW a \in Accounts, NEW l \in Loops, Live(l),
         loop[l].account = a
  PROVE  l = active[a] \/ l = waits[a]
BY DEF IInv, LiveInv, StopInv

\* An activation with nothing to do only returns.
LEMMA NothingStep ==
  ASSUME IInv, NEW a \in Accounts, Ready(a), Returns(a),
         UNCHANGED <<manager, waits, active, loop, latest, bounds>>
  PROVE  IInv'
<1>1. /\ queue' \in [Accounts -> Seq(CallsOf)]
      /\ \A b \in Accounts \ {a} : queue'[b] = queue[b]
  BY ReturnsStep DEF Ready
<1>2. TypeOK'
  BY <1>1 DEF IInv, TypeOK, CallsOf, manager, bounds
<1>3. LiveInv' /\ StopInv' /\ LoopsDontOverlap'
  BY DEF IInv, LiveInv, StopInv, LoopsDontOverlap, Live, manager
<1>4. OwnInv'
  BY <1>1 DEF IInv, OwnInv, Ready, manager
<1> QED
  BY <1>2, <1>3, <1>4 DEF IInv

\* The first loop of an account that has none.
LEMMA FirstStep ==
  ASSUME IInv, NEW a \in Accounts, ActivateFirst(a)
  PROVE  IInv'
<1> USE NoneIsNone
<1>1. /\ queue' \in [Accounts -> Seq(CallsOf)] /\ Head(queue[a]) \in CallsOf
      /\ \A b \in Accounts \ {a} : queue'[b] = queue[b]
  BY ReturnsStep DEF ActivateFirst, Ready
<1>2. started /\ ~stopping /\ active[a] = None /\ waits[a] = None
  BY DEF ActivateFirst, Ready, Refused
<1>3. waits' = [waits EXCEPT ![a] = None]
  BY <1>2 DEF ActivateFirst, IInv, TypeOK
<1>4. \A l \in Loops : Live(l) => loop[l].account # a
  BY <1>2, LiveOwner
<1>5. BeginLoop(a, Head(queue[a]))
      /\ UNCHANGED <<started, stopping, ending, latest, calls, stops>>
  BY DEF ActivateFirst
<1> QED
  BY <1>1, <1>2, <1>3, <1>4, <1>5, BeginLoopStep

\* The awaited loop has ended: the activation goes on, or is refused.
LEMMA ResumesStep ==
  ASSUME IInv, NEW a \in Accounts, ActivateResumes(a)
  PROVE  IInv'
<1> USE NoneIsNone
<1>1. /\ waits[a] # None /\ ~Live(waits[a])
      /\ waits' = [waits EXCEPT ![a] = None] /\ Returns(a)
      /\ UNCHANGED <<started, stopping, ending, latest, calls, stops>>
  BY DEF ActivateResumes, Resumes
<1>2. active[a] = None /\ queue[a] # <<>>
  BY <1>1 DEF IInv, OwnInv
<1>3. /\ queue' \in [Accounts -> Seq(CallsOf)] /\ Head(queue[a]) \in CallsOf
      /\ \A b \in Accounts \ {a} : queue'[b] = queue[b]
  BY <1>1, <1>2, ReturnsStep
<1>4. CASE Refused
  <2>1. UNCHANGED <<active, loop, toStart, faults>>
    BY <1>4 DEF ActivateResumes, Resumes
  <2>2. TypeOK'
    BY <1>1, <1>3, <2>1 DEF IInv, TypeOK, CallsOf
  <2>3. LiveInv'
    BY <1>1, <2>1 DEF IInv, TypeOK, LiveInv, Live
  <2>4. OwnInv'
    BY <1>1, <1>3, <2>1 DEF IInv, TypeOK, OwnInv
  <2>5. StopInv' /\ LoopsDontOverlap'
    BY <1>1, <2>1 DEF IInv, StopInv, LoopsDontOverlap, Live
  <2> QED
    BY <2>2, <2>3, <2>4, <2>5 DEF IInv
<1>5. CASE ~Refused
  <2>1. started /\ ~stopping
    BY <1>5 DEF Refused
  <2>2. \A l \in Loops : Live(l) => loop[l].account # a
    BY <1>1, <1>2, <2>1, LiveOwner
  <2>3. BeginLoop(a, Head(queue[a]))
    BY <1>5 DEF ActivateResumes, Resumes
  <2> QED
    BY <1>1, <1>2, <1>3, <2>1, <2>2, <2>3, BeginLoopStep
<1> QED
  BY <1>4, <1>5

\* Aborting a set of loops leaves their accounts and the other loops alone.
LEMMA AbortedLoops ==
  ASSUME IInv, NEW S, loop' = Aborted(S), NEW l \in Loops
  PROVE  /\ loop'[l].account = loop[l].account
         /\ loop'[l].runtime = loop[l].runtime
         /\ loop'[l].state = IF l \in S /\ loop[l].state = "running"
                             THEN "aborted" ELSE loop[l].state
         /\ Live(l)' <=> Live(l)
         /\ loop'[l] \in [state : {"unused", "running", "aborted", "ended"},
                          account : Accounts \union {None},
                          runtime : Runtimes \union {None}]
<1>1. loop[l] \in [state : {"unused", "running", "aborted", "ended"},
                   account : Accounts \union {None},
                   runtime : Runtimes \union {None}]
  BY DEF IInv, TypeOK
<1>2. loop'[l] = IF l \in S /\ loop[l].state = "running"
                 THEN [loop[l] EXCEPT !.state = "aborted"] ELSE loop[l]
  BY DEF Aborted
<1> QED
  BY <1>1, <1>2 DEF Live

\* The active loop is taken out, aborted and awaited.
LEMMA ReplacesStep ==
  ASSUME IInv, NEW a \in Accounts, ActivateReplaces(a)
  PROVE  IInv'
<1> USE NoneIsNone
<1> DEFINE l == active[a]
<1>1. /\ Ready(a) /\ ~Refused /\ l # None /\ l \in Loops
      /\ loop' = Aborted({l})
      /\ active' = [active EXCEPT ![a] = None]
      /\ waits' = [waits EXCEPT ![a] = l]
      /\ UNCHANGED <<manager, queue, latest, bounds>>
  BY DEF ActivateReplaces, Replaces, IInv, TypeOK
<1>2. /\ active'[a] = None /\ waits'[a] = l
      /\ \A b \in Accounts \ {a} : active'[b] = active[b] /\ waits'[b] = waits[b]
  BY <1>1 DEF IInv, TypeOK
<1>3. loop[l].account = a /\ loop[l].state = "running"
  BY <1>1 DEF IInv, OwnInv
<1> HIDE DEF l
<1>4. TypeOK'
  <2>1. loop' \in [Loops -> [state : {"unused", "running", "aborted", "ended"},
                             account : Accounts \union {None},
                             runtime : Runtimes \union {None}]]
    BY <1>1, AbortedLoops DEF Aborted
  <2> QED
    BY <1>1, <2>1 DEF IInv, TypeOK, manager, bounds
<1>5. LiveInv'
  <2> SUFFICES ASSUME NEW k \in Loops PROVE LiveInv!(k)'
    BY DEF LiveInv
  <2>1. /\ loop'[k].account = loop[k].account /\ (Live(k)' <=> Live(k))
        /\ loop'[k].state = IF k \in {l} /\ loop[k].state = "running"
                            THEN "aborted" ELSE loop[k].state
    BY <1>1, AbortedLoops
  <2>2. CASE k = l
    BY <1>2, <1>3, <2>1, <2>2
  <2>3. CASE k # l
    <3>1. Live(k) => loop[k].account # a
      <4> SUFFICES ASSUME Live(k), loop[k].account = a PROVE FALSE
        OBVIOUS
      <4>1. k = active[a] \/ k = waits[a]
        BY <1>1, LiveOwner DEF Refused
      <4> QED
        BY <1>1, <2>3, <4>1 DEF Ready, l
    <3>2. LiveInv!(k)
      BY DEF IInv, LiveInv
    <3>3. loop[k].state = "running" => Live(k)
      BY DEF Live
    <3> QED
      BY <1>1, <1>2, <2>1, <2>3, <3>1, <3>2, <3>3 DEF manager
  <2> QED
    BY <2>2, <2>3
<1>6. OwnInv'
  <2> SUFFICES ASSUME NEW b \in Accounts PROVE OwnInv!(b)'
    BY DEF OwnInv
  <2>1. CASE b = a
    <3>1. /\ loop'[l].account = a /\ loop'[l].state = "aborted"
      BY <1>1, <1>3, AbortedLoops
    <3>2. queue'[a] # <<>>
      BY <1>1 DEF Ready
    <3> QED
      BY <1>2, <2>1, <3>1, <3>2
  <2>2. CASE b # a
    <3>1. OwnInv!(b) /\ active'[b] = active[b] /\ waits'[b] = waits[b]
          /\ queue'[b] = queue[b]
      BY <1>1, <1>2, <2>2 DEF IInv, OwnInv
    <3>2. active[b] # None => active[b] \in Loops /\ active[b] # l
      BY <1>3, <2>2, <3>1 DEF IInv, TypeOK
    <3>3. waits[b] # None => waits[b] \in Loops /\ waits[b] # l
      BY <1>3, <2>2, <3>1 DEF IInv, TypeOK
    <3>4. \A k \in Loops \ {l} : loop'[k].account = loop[k].account
                                 /\ loop'[k].state = loop[k].state
      BY <1>1, AbortedLoops
    <3> QED
      BY <3>1, <3>2, <3>3, <3>4
  <2> QED
    BY <2>1, <2>2
<1>7. StopInv'
  BY <1>1, <1>2 DEF IInv, StopInv, manager
<1>8. LoopsDontOverlap'
  BY <1>1, AbortedLoops DEF IInv, LoopsDontOverlap
<1> QED
  BY <1>4, <1>5, <1>6, <1>7, <1>8 DEF IInv

\* A loop ends and leaves #active.
LEMMA LoopEndsStep ==
  ASSUME IInv, NEW l \in Loops, LoopEnds(l)
  PROVE  IInv'
<1> USE NoneIsNone
<1>1. /\ Live(l) /\ loop' = [loop EXCEPT ![l].state = "ended"]
      /\ active' = [a \in Accounts |-> IF active[a] = l THEN None ELSE active[a]]
      /\ UNCHANGED <<manager, queue, waits, latest, bounds>>
  BY DEF LoopEnds
<1>2. /\ loop'[l].state = "ended" /\ loop'[l].account = loop[l].account
      /\ \A k \in Loops \ {l} : loop'[k] = loop[k]
      /\ loop' \in [Loops -> [state : {"unused", "running", "aborted", "ended"},
                              account : Accounts \union {None},
                              runtime : Runtimes \union {None}]]
  BY <1>1 DEF IInv, TypeOK
<1>3. /\ active' \in [Accounts -> Loops \union {None}]
      /\ \A a \in Accounts : active'[a] # None =>
           active'[a] = active[a] /\ active[a] # l /\ active[a] \in Loops
      /\ \A a \in Accounts : active[a] # l => active'[a] = active[a]
      /\ \A a \in Accounts : active[a] = None => active'[a] = None
  BY <1>1 DEF IInv, TypeOK
<1>4. TypeOK'
  BY <1>1, <1>2, <1>3 DEF IInv, TypeOK, manager, bounds
<1>5. LiveInv'
  <2> SUFFICES ASSUME NEW k \in Loops PROVE LiveInv!(k)'
    BY DEF LiveInv
  <2>1. CASE k = l
    BY <1>2, <2>1 DEF Live
  <2>2. CASE k # l
    <3>1. loop'[k] = loop[k] /\ LiveInv!(k)
      BY <1>2, <2>2 DEF IInv, LiveInv
    <3> QED
      BY <1>1, <1>3, <2>2, <3>1 DEF Live, manager
  <2> QED
    BY <2>1, <2>2
<1>6. OwnInv'
  <2> SUFFICES ASSUME NEW b \in Accounts PROVE OwnInv!(b)'
    BY DEF OwnInv
  <2>1. OwnInv!(b) /\ waits'[b] = waits[b] /\ queue'[b] = queue[b]
    BY <1>1 DEF IInv, OwnInv
  <2>2. active'[b] # None => /\ loop'[active'[b]].account = b
                             /\ loop'[active'[b]].state = "running"
    BY <1>2, <1>3, <2>1
  <2>3. waits[b] # None => /\ loop'[waits[b]].account = b
                           /\ loop'[waits[b]].state \in {"aborted", "ended"}
    <3>1. waits[b] # None => waits[b] \in Loops
      BY DEF IInv, TypeOK
    <3> QED
      BY <1>2, <2>1, <3>1
  <2> QED
    BY <1>3, <2>1, <2>2, <2>3
<1>7. StopInv'
  BY <1>1, <1>3 DEF IInv, StopInv, manager
<1>8. LoopsDontOverlap'
  BY <1>2 DEF IInv, LoopsDontOverlap, Live
<1> QED
  BY <1>4, <1>5, <1>6, <1>7, <1>8 DEF IInv

\* stop() takes every active loop out and aborts it.
LEMMA StopStep ==
  ASSUME IInv, Stop
  PROVE  IInv'
<1> USE NoneIsNone
<1>1. /\ started /\ ~stopping /\ stopping' = TRUE
      /\ ending' = {active[a] : a \in Accounts} \ {None}
      /\ loop' = Aborted(ending')
      /\ active' = [a \in Accounts |-> None]
      /\ UNCHANGED <<started, toStart, queue, waits, latest, calls, faults>>
      /\ stops < MaxStops /\ stops' = stops + 1
  BY DEF Stop
<1>2. ending' \in SUBSET Loops
  BY <1>1 DEF IInv, TypeOK
<1>3. stops' \in 0 .. MaxStops
  <2>1. stops \in 0 .. MaxStops /\ MaxStops \in Nat
    BY ManagerAssumption DEF IInv, TypeOK
  <2> QED
    BY <1>1, <2>1
<1>4. TypeOK'
  <2>1. loop' \in [Loops -> [state : {"unused", "running", "aborted", "ended"},
                             account : Accounts \union {None},
                             runtime : Runtimes \union {None}]]
    BY <1>1, AbortedLoops DEF Aborted
  <2>2. active' \in [Accounts -> Loops \union {None}]
    BY <1>1
  <2> QED
    BY <1>1, <1>2, <1>3, <2>1, <2>2 DEF IInv, TypeOK
<1>5. LiveInv'
  <2> SUFFICES ASSUME NEW k \in Loops PROVE LiveInv!(k)'
    BY DEF LiveInv
  <2>1. /\ loop'[k].account = loop[k].account /\ (Live(k)' <=> Live(k))
        /\ loop'[k].state = IF k \in ending' /\ loop[k].state = "running"
                            THEN "aborted" ELSE loop[k].state
    BY <1>1, AbortedLoops
  <2>2. LiveInv!(k) /\ ending = {} /\ (loop[k].state = "running" => Live(k))
    BY <1>1 DEF IInv, LiveInv, StopInv, Live
  <2>3. Live(k) => k \in ending' \/ k = waits[loop[k].account]
    BY <1>1, <2>2
  <2>4. loop[k].state = "running" => k \in ending'
    BY <1>1, <2>2
  <2> QED
    BY <1>1, <2>1, <2>2, <2>3, <2>4
<1>6. OwnInv'
  <2> SUFFICES ASSUME NEW b \in Accounts PROVE OwnInv!(b)'
    BY DEF OwnInv
  <2>1. OwnInv!(b) /\ waits'[b] = waits[b] /\ queue'[b] = queue[b]
        /\ active'[b] = None
    BY <1>1 DEF IInv, OwnInv
  <2>2. waits[b] # None => /\ loop'[waits[b]].account = loop[waits[b]].account
                           /\ loop'[waits[b]].state = loop[waits[b]].state
    <3>1. waits[b] # None => waits[b] \in Loops
      BY DEF IInv, TypeOK
    <3> QED
      BY <1>1, <2>1, <3>1, AbortedLoops
  <2> QED
    BY <2>1, <2>2
<1>7. StopInv'
  BY <1>1 DEF StopInv
<1>8. LoopsDontOverlap'
  BY <1>1, AbortedLoops DEF IInv, LoopsDontOverlap
<1> QED
  BY <1>4, <1>5, <1>6, <1>7, <1>8 DEF IInv

\* stop() returns once the loops it found have ended.
LEMMA StopEndsStep ==
  ASSUME IInv, StopEnds
  PROVE  IInv'
<1>1. TypeOK'
  BY DEF StopEnds, IInv, TypeOK, bounds
<1>2. LiveInv'
  BY DEF StopEnds, IInv, LiveInv, Live
<1>3. OwnInv' /\ StopInv' /\ LoopsDontOverlap'
  BY DEF StopEnds, IInv, OwnInv, StopInv, LoopsDontOverlap, Live
<1> QED
  BY <1>1, <1>2, <1>3 DEF IInv

\* start() remembers the runtimes it will activate.
LEMMA StartStep ==
  ASSUME IInv, Start
  PROVE  IInv'
<1>1. TypeOK'
  BY DEF Start, IInv, TypeOK, bounds
<1>2. LiveInv' /\ OwnInv' /\ StopInv' /\ LoopsDontOverlap'
  BY DEF Start, IInv, LiveInv, OwnInv, StopInv, LoopsDontOverlap, Live
<1> QED
  BY <1>1, <1>2 DEF IInv

\* A call of activate, from outside or by start().
LEMMA CallsStep ==
  ASSUME IInv, NEW a \in Accounts,
         StartActivates(a) \/ \E r \in Runtimes : Activate(a, r)
  PROVE  IInv'
<1>1. ASSUME NEW r \in Runtimes, Activate(a, r) PROVE IInv'
  <2>1. calls \in 0 .. MaxCalls /\ MaxCalls \in Nat
    BY ManagerAssumption DEF IInv, TypeOK
  <2>2. calls' \in 0 .. MaxCalls
    BY <1>1, <2>1 DEF Activate
  <2>3. Call(a, r, "caller") /\ "caller" \in {"caller", "start"}
        /\ UNCHANGED <<started, stopping, ending, waits, active, loop, stops,
                       faults>>
        /\ toStart' \in [Accounts -> Runtimes \union {None}]
    BY <1>1 DEF Activate, manager, IInv, TypeOK
  <2> QED
    BY <2>2, <2>3, CallStep
<1>2. CASE StartActivates(a)
  <2>1. toStart[a] \in Runtimes
        /\ toStart' \in [Accounts -> Runtimes \union {None}]
    BY <1>2 DEF StartActivates, IInv, TypeOK
  <2>2. Call(a, toStart[a], "start") /\ "start" \in {"caller", "start"}
        /\ UNCHANGED <<started, stopping, ending, waits, active, loop, stops,
                       faults>>
        /\ calls' \in 0 .. MaxCalls
    BY <1>2 DEF StartActivates, bounds, IInv, TypeOK
  <2> QED
    BY <2>1, <2>2, CallStep
<1> QED
  BY <1>1, <1>2

\* The invariant is inductive.
LEMMA NextInv == IInv /\ [Next]_vars => IInv'
<1> SUFFICES ASSUME IInv, [Next]_vars PROVE IInv'
  OBVIOUS
<1>1. CASE Start
  BY <1>1, StartStep
<1>2. CASE Stop
  BY <1>2, StopStep
<1>3. CASE StopEnds
  BY <1>3, StopEndsStep
<1>4. ASSUME NEW a \in Accounts,
             StartActivates(a) \/ \E r \in Runtimes : Activate(a, r)
      PROVE  IInv'
  BY <1>4, CallsStep
<1>5. ASSUME NEW a \in Accounts, Activation(a) PROVE IInv'
  <2>1. CASE ActivateNothing(a)
    BY <2>1, NothingStep DEF ActivateNothing
  <2> QED
    BY <1>5, <2>1, FirstStep, ReplacesStep, ResumesStep DEF Activation
<1>6. ASSUME NEW l \in Loops, LoopEnds(l) PROVE IInv'
  BY <1>6, LoopEndsStep
<1>7. CASE UNCHANGED vars
  <2>1. UNCHANGED <<started, stopping, ending, toStart, queue, waits, active,
                    loop, latest, calls, stops, faults>>
    BY <1>7 DEF vars, manager, bounds
  <2>2. TypeOK'
    BY <2>1 DEF IInv, TypeOK
  <2>3. LiveInv' /\ OwnInv' /\ StopInv' /\ LoopsDontOverlap'
    BY <2>1 DEF IInv, LiveInv, OwnInv, StopInv, LoopsDontOverlap, Live
  <2> QED
    BY <2>2, <2>3 DEF IInv
<1> QED
  BY <1>1, <1>2, <1>3, <1>4, <1>5, <1>6, <1>7 DEF Next

----------------------------------------------------------------------------
(* The latest runtime.                                                     *)

\* The youngest call under way is the latest call; without one, the active
\* loop uses the runtime of the latest call.
LatestInv ==
  \A a \in Accounts :
    /\ queue[a] # <<>> => queue[a][Len(queue[a])].runtime = latest[a]
    /\ queue[a] = <<>> /\ active[a] # None =>
         loop[active[a]].runtime = latest[a]

\* The call that joins a queue is the latest one.
LEMMA LatestCall ==
  ASSUME IInv, LatestInv, NEW a \in Accounts, NEW r, NEW by, Call(a, r, by),
         UNCHANGED <<active, loop>>
  PROVE  LatestInv'
<1> DEFINE c == [runtime |-> r, by |-> by]
<1>1. /\ queue' = [queue EXCEPT ![a] = Append(queue[a], c)]
      /\ latest' = [latest EXCEPT ![a] = r] /\ c.runtime = r
  BY DEF Call
<1>2. queue \in [Accounts -> Seq(CallsOf)] /\ queue[a] \in Seq(CallsOf)
      /\ DOMAIN latest = Accounts
  BY DEF IInv, TypeOK, CallsOf
<1> HIDE DEF c
<1>3. /\ Append(queue[a], c) # <<>>
      /\ Append(queue[a], c)[Len(Append(queue[a], c))] = c
  BY <1>2
<1> QED
  BY <1>1, <1>2, <1>3 DEF LatestInv

\* A call leaves its queue. If it was the latest, what it leaves active uses
\* its runtime.
LEMMA LatestReturns ==
  ASSUME IInv, LatestInv, NEW a \in Accounts, queue[a] # <<>>, Returns(a),
         UNCHANGED latest,
         \A b \in Accounts \ {a} : active[b] # None \/ active'[b] # None =>
           active'[b] = active[b] /\ loop'[active[b]] = loop[active[b]],
         active'[a] # None => loop'[active'[a]].runtime = Head(queue[a]).runtime
  PROVE  LatestInv'
<1>1. queue \in [Accounts -> Seq(CallsOf)] /\ queue[a] \in Seq(CallsOf)
  BY DEF IInv, TypeOK, CallsOf
<1>2. queue' = [queue EXCEPT ![a] = Tail(queue[a])]
  BY DEF Returns
<1> SUFFICES ASSUME NEW b \in Accounts PROVE LatestInv!(b)'
  BY DEF LatestInv
<1>3. CASE b = a
  <2> DEFINE q == queue[a]
  <2>1. q \in Seq(CallsOf) /\ q # <<>> /\ queue'[a] = Tail(q)
    BY <1>1, <1>2
  <2>2. q[Len(q)].runtime = latest[a] /\ latest'[a] = latest[a]
    BY DEF LatestInv
  <2> HIDE DEF q
  <2>3. Len(q) \in Nat \ {0} /\ Len(Tail(q)) = Len(q) - 1
    BY <2>1
  <2>4. CASE Len(q) = 1
    <3>1. Tail(q) = <<>> /\ Head(q) = q[Len(q)]
      BY <2>1, <2>3, <2>4
    <3> QED
      BY <1>3, <2>1, <2>2, <3>1 DEF q
  <2>5. CASE Len(q) > 1
    <3>1. Tail(q) # <<>> /\ Tail(q)[Len(Tail(q))] = q[Len(q)]
      BY <2>1, <2>3, <2>5
    <3> QED
      BY <1>3, <2>1, <2>2, <3>1
  <2> QED
    BY <2>3, <2>4, <2>5
<1>4. CASE b # a
  <2>1. queue'[b] = queue[b]
    BY <1>1, <1>2, <1>4
  <2> QED
    BY <1>4, <2>1 DEF LatestInv
<1> QED
  BY <1>3, <1>4

\* The loop that a call begins uses its runtime; others keep theirs.
LEMMA LatestBegins ==
  ASSUME IInv, LatestInv, NEW a \in Accounts, queue[a] # <<>>, Returns(a),
         UNCHANGED latest, active[a] = None, BeginLoop(a, Head(queue[a]))
  PROVE  LatestInv'
<1> USE NoneIsNone
<1>1. CASE UNCHANGED <<loop, active>>
  BY <1>1, LatestReturns
<1>2. ASSUME NEW l \in Loops, loop[l] = Unused,
             loop' = [loop EXCEPT ![l] = [state |-> "running", account |-> a,
                                          runtime |-> Head(queue[a]).runtime]],
             active' = [active EXCEPT ![a] = l]
      PROVE  LatestInv'
  <2>1. /\ active'[a] = l /\ loop'[l].runtime = Head(queue[a]).runtime
        /\ \A k \in Loops \ {l} : loop'[k] = loop[k]
        /\ \A b \in Accounts \ {a} : active'[b] = active[b]
    BY <1>2 DEF IInv, TypeOK
  <2>2. \A b \in Accounts : active[b] # None =>
          active[b] \in Loops /\ active[b] # l
    BY <1>2 DEF IInv, TypeOK, OwnInv, Unused
  <2> QED
    BY <2>1, <2>2, LatestReturns
<1> QED
  BY <1>1, <1>2 DEF BeginLoop

\* Loops that keep their runtime, and fewer active ones, change nothing.
LEMMA LatestKept ==
  ASSUME LatestInv, UNCHANGED <<queue, latest>>,
         \A a \in Accounts : active'[a] # None =>
           /\ active'[a] = active[a]
           /\ loop'[active[a]].runtime = loop[active[a]].runtime
  PROVE  LatestInv'
BY DEF LatestInv

\* Every step keeps the latest runtime.
LEMMA LatestNext ==
  ASSUME IInv, LatestInv, [Next]_vars
  PROVE  LatestInv'
<1> USE NoneIsNone
<1>1. ASSUME NEW a \in Accounts, NEW r \in Runtimes, Activate(a, r)
      PROVE  LatestInv'
  BY <1>1, LatestCall DEF Activate
<1>2. ASSUME NEW a \in Accounts, StartActivates(a) PROVE LatestInv'
  BY <1>2, LatestCall DEF StartActivates
<1>3. ASSUME NEW a \in Accounts, ActivateNothing(a) PROVE LatestInv'
  <2>1. active[a] # None => loop[active[a]].runtime = Head(queue[a]).runtime
    BY <1>3 DEF ActivateNothing, Refused, IInv, StopInv
  <2> QED
    BY <1>3, <2>1, LatestReturns DEF ActivateNothing, Ready
<1>4. ASSUME NEW a \in Accounts, ActivateFirst(a) PROVE LatestInv'
  BY <1>4, LatestBegins DEF ActivateFirst, Ready
<1>5. ASSUME NEW a \in Accounts, ActivateReplaces(a) PROVE LatestInv'
  <2>1. /\ loop' = Aborted({active[a]}) /\ active' = [active EXCEPT ![a] = None]
        /\ UNCHANGED <<queue, latest>>
    BY <1>5 DEF ActivateReplaces, Replaces
  <2>2. \A b \in Accounts : active'[b] # None =>
          active'[b] = active[b] /\ active[b] \in Loops
    BY <2>1 DEF IInv, TypeOK
  <2> QED
    BY <2>1, <2>2, LatestKept, AbortedLoops
<1>6. ASSUME NEW a \in Accounts, ActivateResumes(a) PROVE LatestInv'
  <2>1. active[a] = None /\ queue[a] # <<>> /\ Returns(a) /\ UNCHANGED latest
    BY <1>6 DEF ActivateResumes, Resumes, IInv, OwnInv
  <2>2. UNCHANGED <<active, loop>> \/ BeginLoop(a, Head(queue[a]))
    BY <1>6 DEF ActivateResumes, Resumes
  <2> QED
    BY <2>1, <2>2, LatestBegins, LatestReturns
<1>7. ASSUME NEW l \in Loops, LoopEnds(l) PROVE LatestInv'
  <2>1. /\ loop' = [loop EXCEPT ![l].state = "ended"]
        /\ active' = [a \in Accounts |-> IF active[a] = l THEN None ELSE active[a]]
        /\ UNCHANGED <<queue, latest>>
    BY <1>7 DEF LoopEnds
  <2>2. \A a \in Accounts : active'[a] # None =>
          active'[a] = active[a] /\ active[a] \in Loops
    BY <2>1 DEF IInv, TypeOK
  <2>3. \A k \in Loops : loop'[k].runtime = loop[k].runtime
    BY <2>1 DEF IInv, TypeOK
  <2> QED
    BY <2>1, <2>2, <2>3, LatestKept
<1>8. CASE Stop
  BY <1>8, LatestKept DEF Stop
<1>9. CASE Start \/ StopEnds \/ UNCHANGED vars
  BY <1>9, LatestKept DEF Start, StopEnds, vars
<1> QED
  BY <1>1, <1>2, <1>3, <1>4, <1>5, <1>6, <1>7, <1>8, <1>9 DEF Next, Activation

\* Initially there is neither a call nor a loop.
LEMMA LatestInit == Init => LatestInv
BY DEF Init, LatestInv

----------------------------------------------------------------------------
(* The theorems.                                                           *)

\* The inductive invariant holds in every state of the manager.
THEOREM Invariant == Spec => []IInv
BY InitInv, NextInv, PTL DEF Spec

\* The state of AccountDiscoveryManager is well typed.
THEOREM TypeCorrect == Spec => []TypeOK
<1>1. IInv => TypeOK
  BY DEF IInv
<1> QED
  BY <1>1, Invariant, PTL

\* One non-overlapping loop per account (the class comment), for any number
\* of accounts, activations, starts and stops.
THEOREM LoopsNeverOverlap == Spec => []LoopsDontOverlap
<1>1. IInv => LoopsDontOverlap
  BY DEF IInv
<1> QED
  BY <1>1, Invariant, PTL

\* No loop runs while the manager is stopped: an activation in flight never
\* brings one back.
THEOREM StoppedIsQuiet == Spec => []QuietWhenStopped
<1>1. IInv => QuietWhenStopped
  BY NoneIsNone DEF IInv, StopInv, LiveInv, QuietWhenStopped, Live
<1> QED
  BY <1>1, Invariant, PTL

\* Once no activation is under way, the loop of an account uses the runtime
\* of the latest call, for any number of calls, starts and stops that raced.
THEOREM LatestIsUsed == Spec => []LatestRuntimeWins
<1>1. IInv /\ LatestInv /\ [Next]_vars => LatestInv'
  BY LatestNext
<1>2. LatestInv => LatestRuntimeWins
  BY DEF LatestInv, LatestRuntimeWins
<1> QED
  BY <1>1, <1>2, LatestInit, Invariant, PTL DEF Spec
=============================================================================
