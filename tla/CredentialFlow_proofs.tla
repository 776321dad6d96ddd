------------------------ MODULE CredentialFlow_proofs ------------------------
(***************************************************************************)
(* What holds of the whole flow of credentials, for every set of accounts, *)
(* credentials and callers: it is a behaviour of the registry, so that the *)
(* registry's invariants hold of it; the discovery loops are isolated like *)
(* the runtimes; and what the watcher has observed is in use.              *)
(***************************************************************************)
EXTENDS CredentialFlow, AccountRegistry_proofs, FiniteSetTheorems,
        SequenceTheorems

\* The runtimes handed to the discovery manager are their accounts' own.
ServedInv == served \in RuntimeMaps /\ Isolated(served)

\* The check is one, and what it has observed are credentials.
WatchInv ==
  /\ service \in {"down", "up", "stopping"}
  /\ watch \in Checks /\ observed \in RuntimeMaps

----------------------------------------------------------------------------
(* The registry in the flow.                                               *)

\* Every step of the flow is one of the registry or leaves it alone.
LEMMA FlowStepIsRegistryStep ==
  ASSUME WatchInv, [FlowNext]_fvars
  PROVE  [Next]_vars
<1>1. CASE \E p \in Callers, a \in Accounts :
             \/ ToolReads(p, a) \/ BusNotifies(p, a)
             \/ \E c \in Credentials : Authorizes(p, a, c)
  BY <1>1 DEF ToolReads, BusNotifies, Authorizes, Next
<1>2. CASE \E a \in Accounts : Elsewhere(a)
  BY <1>2 DEF Elsewhere, Next
<1>3. CASE \E p \in Callers : FlowProgress(p)
  <2>1. PICK p \in Callers : FlowProgress(p)
    BY <1>3
  <2>2. Progress(p)
    BY <2>1 DEF FlowProgress, FlowActivate, FlowActivateStored,
                FlowLoadSucceeds, FlowLoadFails, Progress
  <2> QED
    BY <2>2 DEF Next
<1>4. CASE Watch
  <2>1. CASE BeginCheck \/ \E a \in Accounts : GetFingerprint(a)
    BY <2>1 DEF BeginCheck, GetFingerprint
  <2>2. CASE MatchFingerprint
    <3>1. CASE stored[watch.account] = watch.fingerprint
      <4>1. ReadStored(Watcher, watch.account)
        BY <2>2, <3>1 DEF MatchFingerprint
      <4>2. Watcher \in Callers /\ watch.account \in Accounts
        BY FlowAssumption, RegistryAssumption DEF WatchInv, Checks
      <4> QED
        BY <4>1, <4>2 DEF Next
    <3>2. CASE stored[watch.account] # watch.fingerprint
      BY <2>2, <3>2 DEF MatchFingerprint
    <3> QED
      BY <3>1, <3>2
  <2> QED
    BY <1>4, <2>1, <2>2 DEF Watch
<1>5. CASE ServiceStarts \/ ServiceStops
  BY <1>5 DEF ServiceStarts, ServiceStops
<1>6. CASE ControllerStarts \/ ControllerStarted \/ ControllerStops
  BY <1>6 DEF ControllerStarts, ControllerStarted, ControllerStops, Next
<1>7. CASE UNCHANGED fvars
  BY <1>7 DEF fvars
<1> QED
  BY <1>1, <1>2, <1>3, <1>4, <1>5, <1>6, <1>7 DEF FlowNext

\* History only grows.
LEMMA EverStoredGrows ==
  ASSUME IInv, [Next]_vars
  PROVE  \A a \in Accounts : everStored[a] \subseteq everStored'[a]
<1>1. CASE UNCHANGED everStored
  BY <1>1
<1>2. CASE \E a \in Accounts, c \in Credentials : Store(a, c)
  BY <1>2 DEF Store, IInv, TypeOK
<1> QED
  BY <1>1, <1>2
     DEF Next, ReadStored, Notified, Read, Authorize, Remove, StoreElsewhere,
         Progress,
         Activate, ActivateStored, LoadSucceeds, LoadFails, Start, StartLoads,
         StartEnds, Stop, vars, files

----------------------------------------------------------------------------
(* The check of the watcher.                                               *)

\* No check is under way: that is a check, too.
LEMMA NoCheckIsCheck == NoCheck \in Checks
<1> DEFINE a0 == CHOOSE a \in Accounts : TRUE
<1>1. a0 \in Accounts
  BY RegistryAssumption
<1>2. NoCheck = [pc |-> "idle", todo |-> {}, account |-> a0,
                 fingerprint |-> None]
  BY DEF NoCheck
<1> HIDE DEF a0
<1> QED
  BY <1>1, <1>2 DEF Checks

\* A check that goes on is one, and so is one that ends.
LEMMA GoOnStep ==
  ASSUME NEW S \in SUBSET Accounts, GoOn(S)
  PROVE  watch' \in Checks
<1>1. watch' = NoCheck \/ watch' = [NoCheck EXCEPT !.pc = "scan", !.todo = S]
  BY DEF GoOn
<1> QED
  BY <1>1, NoCheckIsCheck DEF Checks

\* The end of a call changes the check only if it is the watcher's.
LEMMA ObserveTypes ==
  ASSUME WatchInv, NEW a \in Accounts, NEW known, Observe(a, known)
  PROVE  watch' \in Checks /\ observed' \in RuntimeMaps
<1>1. CASE WatcherReturns
  <2>1. GoOn(watch.todo \ {a}) /\ watch.todo \ {a} \in SUBSET Accounts
    BY <1>1 DEF Observe, WatchInv, Checks
  <2>2. observed' = observed
        \/ observed' = [observed EXCEPT ![a] = watch.fingerprint]
    BY <1>1 DEF Observe
  <2>3. watch.fingerprint \in Credentials \union {None}
    BY DEF WatchInv, Checks
  <2> QED
    BY <2>1, <2>2, <2>3, GoOnStep DEF WatchInv, RuntimeMaps
<1>2. CASE ~WatcherReturns
  BY <1>2 DEF Observe, WatchInv
<1> QED
  BY <1>1, <1>2

\* Every step keeps the check and what it has observed what they are.
LEMMA WatchStep ==
  ASSUME IInv, WatchInv, [FlowNext]_fvars
  PROVE  WatchInv'
<1>1. CASE \E p \in Callers, a \in Accounts :
             \/ ToolReads(p, a) \/ BusNotifies(p, a)
             \/ \E c \in Credentials : Authorizes(p, a, c)
  BY <1>1 DEF ToolReads, BusNotifies, Authorizes, WatchInv, flow, watching
<1>2. CASE \E a \in Accounts : Elsewhere(a)
  BY <1>2 DEF Elsewhere, WatchInv, flow, watching
<1>3. CASE \E p \in Callers : FlowProgress(p)
  <2>1. PICK p \in Callers : FlowProgress(p)
    BY <1>3
  <2>2. call[p].account \in Accounts
    BY DEF IInv, TypeOK, Calls
  <2>3. service' = service
        /\ \E known : Observe(call[p].account, known)
    BY <2>1 DEF FlowProgress, FlowActivate, FlowActivateStored,
                FlowLoadSucceeds, FlowLoadFails
  <2> QED
    BY <2>2, <2>3, ObserveTypes DEF WatchInv
<1>4. CASE BeginCheck
  <2>1. catalog \in SUBSET Accounts
    BY DEF IInv, TypeOK
  <2> QED
    BY <1>4, <2>1, GoOnStep DEF BeginCheck, WatchInv
<1>5. CASE \E a \in Accounts : GetFingerprint(a)
  <2>1. PICK a \in Accounts : GetFingerprint(a)
    BY <1>5
  <2>2. CASE service = "up" /\ stored[a] \notin {None, observed[a]}
    <3>1. watch' = [watch EXCEPT !.pc = "match", !.account = a,
                                 !.fingerprint = stored[a]]
          /\ UNCHANGED <<service, observed>>
      BY <2>1, <2>2 DEF GetFingerprint
    <3>2. stored[a] \in Credentials \union {None}
      BY DEF IInv, TypeOK, RuntimeMaps
    <3> QED
      BY <3>1, <3>2 DEF WatchInv, Checks
  <2>3. CASE ~(service = "up" /\ stored[a] \notin {None, observed[a]})
    <3>1. /\ GoOn(watch.todo \ {a})
          /\ observed' = observed \/ observed' = [observed EXCEPT ![a] = None]
          /\ service' = service
      BY <2>1, <2>3 DEF GetFingerprint
    <3>2. watch.todo \ {a} \in SUBSET Accounts
      BY DEF WatchInv, Checks
    <3> QED
      BY <3>1, <3>2, GoOnStep DEF WatchInv, RuntimeMaps
  <2> QED
    BY <2>2, <2>3
<1>6. CASE MatchFingerprint
  <2>1. UNCHANGED <<service, observed>>
    BY <1>6 DEF MatchFingerprint
  <2>2. CASE watch' = [watch EXCEPT !.pc = "call"]
    BY <2>1, <2>2 DEF WatchInv, Checks
  <2>3. CASE GoOn(watch.todo \ {watch.account})
    <3>1. watch.todo \ {watch.account} \in SUBSET Accounts
      BY DEF WatchInv, Checks
    <3> QED
      BY <2>1, <2>3, <3>1, GoOnStep DEF WatchInv
  <2> QED
    BY <1>6, <2>2, <2>3 DEF MatchFingerprint
<1>7. CASE ServiceStarts \/ ServiceStops \/ ControllerStops
  BY <1>7, EmptyMap DEF ServiceStarts, ServiceStops, ControllerStops, WatchInv
<1>8. CASE ControllerStarts \/ ControllerStarted \/ UNCHANGED fvars
  BY <1>8 DEF ControllerStarts, ControllerStarted, WatchInv, fvars, flow,
              watching
<1> QED
  BY <1>1, <1>2, <1>3, <1>4, <1>5, <1>6, <1>7, <1>8 DEF FlowNext, Watch

----------------------------------------------------------------------------
(* The runtimes handed to the discovery manager.                           *)

\* A credential stored for its account may be handed over.
LEMMA HandOverStep ==
  ASSUME ServedInv, NEW a \in Accounts, NEW c \in Credentials \union {None},
         c # None => c \in everStored[a], HandOver(a, c)
  PROVE  served' \in RuntimeMaps /\ Isolated(served')
BY DEF HandOver, ServedInv, Isolated, RuntimeMaps

\* Every step hands over credentials of their own accounts only.
LEMMA ServedStep ==
  ASSUME IInv, WatchInv, ServedInv, [FlowNext]_fvars
  PROVE  ServedInv'
<1> USE EmptyMap
<1>1. \A a \in Accounts : everStored[a] \subseteq everStored'[a]
  BY FlowStepIsRegistryStep, EverStoredGrows
<1>2. served' \in RuntimeMaps /\ Isolated(served')
  <2>1. CASE UNCHANGED served
    BY <2>1 DEF ServedInv
  <2>2. ASSUME NEW p \in Callers, FlowActivateStored(p)
        PROVE  served' \in RuntimeMaps /\ Isolated(served')
    <3> DEFINE a == call[p].account
    <3>1. a \in Accounts
      BY DEF IInv, TypeOK, Calls
    <3>2. CASE Current(p) # None /\ HandOver(a, Current(p))
      <4>1. runtimes # NotStarted /\ Current(p) = runtimes[a]
        BY <3>2 DEF Current
      <4>2. runtimes[a] \in Credentials \union {None}
            /\ (runtimes[a] # None => runtimes[a] \in everStored[a])
        BY <3>1, <4>1 DEF IInv, TypeOK, RuntimesInv, Isolated, RuntimeMaps
      <4> QED
        BY <3>1, <3>2, <4>1, <4>2, HandOverStep
    <3>3. CASE UNCHANGED served
      BY <3>3 DEF ServedInv
    <3> QED
      BY <2>2, <3>2, <3>3 DEF FlowActivateStored
  <2>3. ASSUME NEW p \in Callers, FlowLoadSucceeds(p)
        PROVE  served' \in RuntimeMaps /\ Isolated(served')
    <3> DEFINE a == call[p].account
               c == call[p].credential
    <3>1. /\ a \in Accounts /\ c \in Credentials \union {None}
          /\ c # None => c \in everStored[a]
      BY DEF IInv, TypeOK, Calls, CallsInv
    <3>2. HandOver(a, c) \/ UNCHANGED served
      BY <2>3 DEF FlowLoadSucceeds
    <3> QED
      BY <3>1, <3>2, HandOverStep DEF ServedInv
  <2>4. CASE ControllerStarted
    <3>1. loaded \in RuntimeMaps /\ Isolated(loaded)
      BY DEF IInv, TypeOK, StoredInv
    <3> QED
      BY <2>4, <3>1 DEF ControllerStarted, ServedInv
  <2>5. CASE ControllerStops
    BY <2>5 DEF ControllerStops
  <2> QED
    BY <2>1, <2>2, <2>3, <2>4, <2>5
       DEF FlowNext, FlowProgress, FlowActivate, FlowLoadFails, Watch,
           BeginCheck, GetFingerprint, MatchFingerprint, ToolReads,
           BusNotifies,
           Authorizes, Elsewhere, ServiceStarts, ServiceStops,
           ControllerStarts, flow, fvars
<1> QED
  BY <1>1, <1>2 DEF ServedInv, Isolated

----------------------------------------------------------------------------
(* The line of calls.                                                      *)

\* r stands before s in line.
Before(r, s) ==
  \E i, j \in DOMAIN line : i < j /\ line[i] = r /\ line[j] = s

\* A line that stays, stays in order.
LEMMA LineStays ==
  ASSUME UNCHANGED line
  PROVE  /\ \A r : InLine(r)' <=> InLine(r)
         /\ \A r, s : Before(r, s)' <=> Before(r, s)
BY DEF InLine, Before

\* Who joins the line stands behind all others.
LEMMA JoinsLine ==
  ASSUME line \in Seq(Callers), NEW p \in Callers, line' = Append(line, p)
  PROVE  /\ line' \in Seq(Callers)
         /\ \A r : InLine(r)' <=> InLine(r) \/ r = p
         /\ \A r, s : Before(r, s)' => Before(r, s) \/ (InLine(r) /\ s = p)
<1>1. /\ line' \in Seq(Callers) /\ Len(line') = Len(line) + 1
      /\ \A i \in 1 .. Len(line) : line'[i] = line[i]
      /\ line'[Len(line) + 1] = p
  BY AppendProperties
<1>2. DOMAIN line = 1 .. Len(line) /\ DOMAIN line' = 1 .. Len(line) + 1
      /\ Len(line) \in Nat
  BY <1>1
<1>3. ASSUME NEW r PROVE InLine(r)' <=> InLine(r) \/ r = p
  BY <1>1, <1>2 DEF InLine
<1>4. ASSUME NEW r, NEW s, Before(r, s)'
      PROVE  Before(r, s) \/ (InLine(r) /\ s = p)
  <2>1. PICK i \in 1 .. Len(line) + 1, j \in 1 .. Len(line) + 1 :
          i < j /\ line'[i] = r /\ line'[j] = s
    BY <1>2, <1>4 DEF Before
  <2>2. i \in 1 .. Len(line) /\ line[i] = r
    BY <1>1, <1>2, <2>1
  <2>3. CASE j = Len(line) + 1
    BY <1>1, <1>2, <2>1, <2>2, <2>3 DEF InLine
  <2>4. CASE j # Len(line) + 1
    BY <1>1, <1>2, <2>1, <2>2, <2>4 DEF Before
  <2> QED
    BY <2>3, <2>4
<1> QED
  BY <1>1, <1>3, <1>4

\* Places behind the one that is left move up by one.
LEMMA MovedUp ==
  ASSUME NEW k \in Nat, NEW n \in 1 .. k, NEW i \in n .. k - 1
  PROVE  /\ i - (n - 1) \in 1 .. k - n
         /\ n + (i - (n - 1)) = i + 1
OBVIOUS

\* The calls before the n-th and those behind it, put together.
LEMMA Closed ==
  ASSUME NEW u \in Seq(Callers), NEW n \in 1 .. Len(u),
         NEW v \in Seq(Callers), Len(v) = n - 1,
         \A i \in 1 .. n - 1 : v[i] = u[i],
         NEW w \in Seq(Callers), Len(w) = Len(u) - n,
         \A i \in 1 .. Len(u) - n : w[i] = u[n + i]
  PROVE  /\ v \o w \in Seq(Callers) /\ Len(v \o w) = Len(u) - 1
         /\ \A i \in 1 .. Len(u) - 1 :
              (v \o w)[i] = IF i < n THEN u[i] ELSE u[i + 1]
<1>1. Len(u) \in Nat /\ n \in Int /\ 1 <= n /\ n <= Len(u)
  BY LenProperties
<1>2. /\ v \o w \in Seq(Callers) /\ Len(v \o w) = Len(v) + Len(w)
      /\ \A i \in 1 .. Len(v) + Len(w) :
           (v \o w)[i] = IF i <= Len(v) THEN v[i] ELSE w[i - Len(v)]
  BY ConcatProperties
<1>3. Len(v) + Len(w) = Len(u) - 1
  BY <1>1
<1>4. ASSUME NEW i \in 1 .. Len(u) - 1
      PROVE  (v \o w)[i] = IF i < n THEN u[i] ELSE u[i + 1]
  <2>1. (v \o w)[i] = IF i <= n - 1 THEN v[i] ELSE w[i - (n - 1)]
    BY <1>2, <1>3
  <2>2. CASE i < n
    BY <1>1, <2>1, <2>2
  <2>3. CASE i >= n
    <3>1. i - (n - 1) \in 1 .. Len(u) - n /\ n + (i - (n - 1)) = i + 1
      BY <1>1, <2>3, MovedUp
    <3>2. w[i - (n - 1)] = u[n + (i - (n - 1))]
      BY <3>1
    <3> QED
      BY <1>1, <2>1, <2>3, <3>1, <3>2
  <2> QED
    BY <1>1, <2>2, <2>3
<1> QED
  BY <1>2, <1>3, <1>4

\* A line without its n-th call.
LEMMA LeftOut ==
  ASSUME NEW u \in Seq(Callers), NEW n \in 1 .. Len(u), NEW rest,
         rest = SubSeq(u, 1, n - 1) \o SubSeq(u, n + 1, Len(u))
  PROVE  /\ rest \in Seq(Callers) /\ Len(rest) = Len(u) - 1
         /\ \A i \in 1 .. Len(u) - 1 :
              rest[i] = IF i < n THEN u[i] ELSE u[i + 1]
<1> DEFINE v == SubSeq(u, 1, n - 1)
           w == SubSeq(u, n + 1, Len(u))
<1>1. Len(u) \in Nat /\ n \in Int /\ 1 <= n /\ n <= Len(u)
  BY LenProperties
<1>2. \A i \in 1 .. Len(u) : u[i] \in Callers
  BY ElementOfSeq
<1>3. /\ v \in Seq(Callers) /\ Len(v) = n - 1
      /\ \A i \in 1 .. n - 1 : v[i] = u[i]
  <2>1. \A i \in 1 .. n - 1 : u[i] \in Callers
    BY <1>1, <1>2
  <2> QED
    BY <1>1, <2>1, SubSeqProperties
<1>4. /\ w \in Seq(Callers) /\ Len(w) = Len(u) - n
      /\ \A i \in 1 .. Len(u) - n : w[i] = u[n + i]
  <2>1. \A i \in n + 1 .. Len(u) : u[i] \in Callers
    BY <1>1, <1>2
  <2> QED
    BY <1>1, <2>1, SubSeqProperties
<1>5. rest = v \o w
  OBVIOUS
<1> HIDE DEF v, w
<1>6. /\ v \o w \in Seq(Callers) /\ Len(v \o w) = Len(u) - 1
      /\ \A i \in 1 .. Len(u) - 1 :
           (v \o w)[i] = IF i < n THEN u[i] ELSE u[i + 1]
  BY <1>3, <1>4, Closed
<1> QED
  BY <1>5, <1>6, Zenon

\* Who leaves the line changes the order of nobody.
LEMMA LeavesLine ==
  ASSUME line \in Seq(Callers), \A r \in Callers : ~Before(r, r),
         NEW p \in Callers,
         NEW n \in 1 .. Len(line), line[n] = p,
         NEW rest \in Seq(Callers), Len(rest) = Len(line) - 1,
         \A i \in 1 .. Len(line) - 1 :
           rest[i] = IF i < n THEN line[i] ELSE line[i + 1]
  PROVE  /\ \A r : (\E i \in DOMAIN rest : rest[i] = r) <=> InLine(r) /\ r # p
         /\ \A i, j \in DOMAIN rest : i < j => Before(rest[i], rest[j])
<1> DEFINE k(i) == IF i < n THEN i ELSE i + 1
<1>1. /\ Len(line) \in Nat /\ DOMAIN line = 1 .. Len(line)
      /\ n \in Int /\ 1 <= n /\ n <= Len(line)
  BY LenProperties
<1>4. Len(rest) = Len(line) - 1
  OBVIOUS
<1>5. ASSUME NEW i \in 1 .. Len(rest)
      PROVE  rest[i] = line[k(i)] /\ k(i) \in DOMAIN line
  BY <1>1
<1>6. DOMAIN rest = 1 .. Len(rest) /\ Len(rest) \in Nat
  BY <1>4, LenProperties
<1>7. \A i, j \in DOMAIN rest : i < j => Before(rest[i], rest[j])
  <2> SUFFICES ASSUME NEW i \in 1 .. Len(rest), NEW j \in 1 .. Len(rest), i < j
               PROVE  Before(rest[i], rest[j])
    BY <1>6
  <2>1. k(i) < k(j)
    BY <1>1
  <2> QED
    BY <1>5, <2>1 DEF Before
<1>8. ASSUME NEW i \in DOMAIN line, i # n
      PROVE  line[i] # p /\ \E j \in DOMAIN rest : rest[j] = line[i]
  <2>0. i < n \/ i > n
    BY <1>1, <1>8
  <2>1. line[i] # p
    BY <1>1, <2>0 DEF Before
  <2>2. CASE i < n
    <3>1. i \in 1 .. Len(rest) /\ k(i) = i
      BY <1>1, <1>4, <1>6, <2>2
    <3> QED
      BY <1>5, <1>6, <2>1, <3>1
  <2>3. CASE i > n
    <3>1. i - 1 \in 1 .. Len(rest) /\ k(i - 1) = i
      BY <1>1, <1>4, <1>6, <2>3
    <3> QED
      BY <1>5, <1>6, <2>1, <3>1
  <2> QED
    BY <2>0, <2>2, <2>3
<1>9. ASSUME NEW i \in DOMAIN rest PROVE InLine(rest[i]) /\ rest[i] # p
  <2>1. k(i) # n
    BY <1>1, <1>4, <1>6
  <2> QED
    BY <1>5, <1>6, <1>8, <2>1 DEF InLine
<1>10. ASSUME NEW r
       PROVE  (\E i \in DOMAIN rest : rest[i] = r) <=> InLine(r) /\ r # p
  <2>1. ASSUME NEW i \in DOMAIN rest, rest[i] = r PROVE InLine(r) /\ r # p
    BY <1>9, <2>1
  <2>2. ASSUME InLine(r), r # p PROVE \E i \in DOMAIN rest : rest[i] = r
    <3>1. PICK i \in DOMAIN line : line[i] = r
      BY <2>2 DEF InLine
    <3> QED
      BY <1>8, <2>2, <3>1
  <2> QED
    BY <2>1, <2>2
<1> QED
  BY <1>7, <1>10

\* A call whose turn it was stands last if it waits, and is gone if not.
LEMMA RequeueStep ==
  ASSUME line \in Seq(Callers), \A r \in Callers : ~Before(r, r),
         NEW p \in Callers, Requeue(p)
  PROVE  /\ line' \in Seq(Callers)
         /\ \A r : InLine(r)' <=>
              IF r = p THEN call'[p].pc = "waiting" ELSE InLine(r)
         /\ \A r, s : Before(r, s)' =>
              r # p /\ (Before(r, s) \/ (InLine(r) /\ s = p))
<1> DEFINE n == CHOOSE i \in DOMAIN line : line[i] = p
           rest == IF InLine(p)
                   THEN SubSeq(line, 1, n - 1)
                        \o SubSeq(line, n + 1, Len(line))
                   ELSE line
<1>1. line' = IF call'[p].pc = "waiting" THEN Append(rest, p) ELSE rest
  BY DEF Requeue
<1>2. /\ rest \in Seq(Callers)
      /\ \A r : (\E i \in DOMAIN rest : rest[i] = r) <=> InLine(r) /\ r # p
      /\ \A i, j \in DOMAIN rest : i < j => Before(rest[i], rest[j])
  <2>1. CASE InLine(p)
    <3>1. n \in DOMAIN line /\ line[n] = p
      BY <2>1 DEF InLine
    <3> HIDE DEF n
    <3>2. rest = SubSeq(line, 1, n - 1) \o SubSeq(line, n + 1, Len(line))
      BY <2>1
    <3> HIDE DEF rest
    <3>3. n \in 1 .. Len(line)
      BY <3>1, LenProperties
    <3>4. /\ rest \in Seq(Callers) /\ Len(rest) = Len(line) - 1
          /\ \A i \in 1 .. Len(line) - 1 :
               rest[i] = IF i < n THEN line[i] ELSE line[i + 1]
      BY <3>2, <3>3, LeftOut
    <3> QED
      BY <3>1, <3>3, <3>4, LeavesLine
  <2>2. CASE ~InLine(p)
    <3>1. rest = line
      BY <2>2
    <3> HIDE DEF rest
    <3> QED
      BY <2>2, <3>1 DEF InLine, Before
  <2> QED
    BY <2>1, <2>2
<1> HIDE DEF rest
<1>3. CASE call'[p].pc # "waiting"
  <2>1. line' = rest
    BY <1>1, <1>3
  <2>2. \A r : InLine(r)' <=> InLine(r) /\ r # p
    BY <1>2, <2>1 DEF InLine
  <2>3. ASSUME NEW r, NEW s, Before(r, s)' PROVE r # p /\ Before(r, s)
    <3>1. PICK i \in DOMAIN rest, j \in DOMAIN rest :
            i < j /\ rest[i] = r /\ rest[j] = s
      BY <2>1, <2>3 DEF Before
    <3> QED
      BY <1>2, <3>1
  <2> QED
    BY <1>2, <1>3, <2>1, <2>2, <2>3
<1>4. CASE call'[p].pc = "waiting"
  <2>1. /\ line' \in Seq(Callers) /\ Len(line') = Len(rest) + 1
        /\ \A i \in 1 .. Len(rest) : line'[i] = rest[i]
        /\ line'[Len(rest) + 1] = p
    BY <1>1, <1>2, <1>4, AppendProperties
  <2>2. DOMAIN rest = 1 .. Len(rest) /\ DOMAIN line' = 1 .. Len(rest) + 1
        /\ Len(rest) \in Nat
    BY <1>2, <2>1
  <2>3. ASSUME NEW r
        PROVE  InLine(r)' <=>
                 IF r = p THEN call'[p].pc = "waiting" ELSE InLine(r)
    <3>1. InLine(r)' <=> (\E i \in DOMAIN rest : rest[i] = r) \/ r = p
      BY <2>1, <2>2 DEF InLine
    <3> QED
      BY <1>2, <1>4, <3>1
  <2>4. ASSUME NEW r, NEW s, Before(r, s)'
        PROVE  r # p /\ (Before(r, s) \/ (InLine(r) /\ s = p))
    <3>1. PICK i \in 1 .. Len(rest) + 1, j \in 1 .. Len(rest) + 1 :
            i < j /\ line'[i] = r /\ line'[j] = s
      BY <2>2, <2>4 DEF Before
    <3>2. i \in DOMAIN rest /\ rest[i] = r
      BY <2>1, <2>2, <3>1
    <3>3. r # p /\ InLine(r)
      BY <1>2, <3>2
    <3>4. CASE j = Len(rest) + 1
      BY <2>1, <3>1, <3>3, <3>4
    <3>5. CASE j # Len(rest) + 1
      BY <1>2, <2>1, <2>2, <3>1, <3>2, <3>3, <3>5
    <3> QED
      BY <3>4, <3>5
  <2> QED
    BY <2>1, <2>3, <2>4
<1> QED
  BY <1>3, <1>4

----------------------------------------------------------------------------
(* What the steps of the flow do to the calls.                             *)

\* A new call reads the file of its account and stands last in line.
NewRead(p, a) ==
  /\ Quiet /\ stored[a] # None
  /\ Begin(p, a, "read", stored[a])
  /\ line' = Append(line, p)
  /\ UNCHANGED <<files, service, served, outcomes>>

\* Nothing becomes of the calls, of the files or of the service.
Aside == UNCHANGED <<files, maps, activations, call, starts, line, service,
                     served, outcomes>>

\* A call whose turn it is returns, waits for the load of its account or shares
\* it, or begins one.
TurnEffect(p) ==
  LET a == call[p].account
      q == activations[a]
  IN  /\ \A r \in Callers \ {p} : call'[r] = call[r]
      /\ \/ call'[p].pc = "idle" /\ UNCHANGED activations
         \/ /\ q # None /\ UNCHANGED activations
            /\ call'[p].pc = IF call[q].credential = call[p].credential
                             THEN "joined" ELSE "waiting"
            /\ call'[p].account = a /\ call'[p].on = q
            /\ call'[p].credential = call[p].credential
         \/ /\ q = None /\ activations' = [activations EXCEPT ![a] = p]
            /\ runtimes # NotStarted
            /\ call'[p].pc = "loading" /\ call'[p].account = a
            /\ call'[p].credential = call[p].credential

\* A load that ends lets the calls that shared it return, and wakes the calls
\* that waited for it.
SettleEffect(p) ==
  /\ \A a \in Accounts :
       activations'[a] = IF activations[a] = p THEN None ELSE activations[a]
  /\ \A r \in Callers :
       IF r = p \/ (call[r].pc = "joined" /\ call[r].on = p)
       THEN call'[r].pc = "idle"
       ELSE IF call[r].pc = "waiting" /\ call[r].on = p
       THEN /\ call'[r].pc = "activate"
            /\ call'[r].account = call[r].account
            /\ call'[r].credential = call[r].credential
       ELSE call'[r] = call[r]

Moves(p) == FlowActivate(p) \/ FlowActivateStored(p)

Loads(p) == FlowLoadSucceeds(p) \/ FlowLoadFails(p)

\* A call whose turn it is leaves the files and the maps alone.
LEMMA MoveStep ==
  ASSUME TypeOK, NEW p \in Callers, Moves(p)
  PROVE  /\ TurnEffect(p) /\ Turn(p) /\ Requeue(p)
         /\ call[p].pc \in {"read", "activate"}
         /\ UNCHANGED <<files, catalog, maps, starts, service, refused,
                        faults>>
<1>1. /\ Turn(p) /\ Requeue(p) /\ call[p].pc \in {"read", "activate"}
      /\ UNCHANGED <<files, catalog, maps, starts, service, refused, faults>>
  BY DEF Moves, FlowActivate, FlowActivateStored, Activate, ActivateStored,
         outcomes
<1>2. CASE Enter(p)
  BY <1>1, <1>2, EnterFields DEF TurnEffect
<1>3. CASE call' = [call EXCEPT ![p] = NoCall] /\ UNCHANGED activations
  <2>1. NoCall.pc = "idle"
    BY DEF NoCall
  <2>2. call'[p].pc = "idle" /\ \A r \in Callers \ {p} : call'[r] = call[r]
    BY <1>3, <2>1 DEF TypeOK
  <2> QED
    BY <1>1, <1>3, <2>2 DEF TurnEffect
<1>4. \/ Enter(p)
      \/ call' = [call EXCEPT ![p] = NoCall] /\ UNCHANGED activations
  BY DEF Moves, FlowActivate, FlowActivateStored, Activate, ActivateStored
<1> QED
  BY <1>1, <1>2, <1>3, <1>4

\* A load ends when it is quiet, and leaves files and line alone.
LEMMA LoadEnds ==
  ASSUME TypeOK, NEW p \in Callers, Loads(p)
  PROVE  /\ SettleEffect(p) /\ Quiet /\ call[p].pc = "loading"
         /\ UNCHANGED <<files, catalog, starts, service, line>>
<1>1. Settle(p)
  BY DEF Loads, FlowLoadSucceeds, FlowLoadFails, LoadSucceeds, LoadFails
<1>2. SettleEffect(p)
  BY <1>1, SettleFields DEF SettleEffect
<1> QED
  BY <1>2 DEF Loads, FlowLoadSucceeds, FlowLoadFails, LoadSucceeds, LoadFails

\* The steps of the flow, sorted by what they do to the calls.
LEMMA FlowKinds ==
  ASSUME WatchInv, [FlowNext]_fvars
  PROVE  \/ \E p \in Callers, a \in Accounts : NewRead(p, a)
         \/ \E p \in Callers, a \in Accounts, c \in Credentials :
              Authorizes(p, a, c)
         \/ \E a \in Accounts : Elsewhere(a)
         \/ \E p \in Callers : Moves(p)
         \/ \E p \in Callers : Loads(p)
         \/ ControllerStarts \/ ControllerStarted \/ ControllerStops
         \/ ServiceStarts \/ ServiceStops
         \/ Aside
<1> USE DEF Aside, flow, outcomes, watching
<1>1. ASSUME NEW p \in Callers, NEW a \in Accounts,
             ToolReads(p, a) \/ BusNotifies(p, a)
      PROVE  NewRead(p, a) \/ Aside
  <2>1. CASE ToolReads(p, a)
    BY <2>1 DEF ToolReads, ReadStored, Read, NewRead
  <2>2. CASE BusNotifies(p, a) /\ stored[a] # None
    BY <2>2 DEF BusNotifies, Notified, Read, NewRead
  <2>3. CASE BusNotifies(p, a) /\ stored[a] = None
    BY <2>3 DEF BusNotifies, Notified
  <2> QED
    BY <1>1, <2>1, <2>2, <2>3
<1>2. CASE Watch
  <2>1. CASE BeginCheck \/ \E a \in Accounts : GetFingerprint(a)
    BY <2>1 DEF BeginCheck, GetFingerprint, vars
  <2>2. CASE MatchFingerprint /\ stored[watch.account] = watch.fingerprint
    <3>1. NewRead(Watcher, watch.account)
      BY <2>2 DEF MatchFingerprint, ReadStored, Read, NewRead
    <3>2. Watcher \in Callers /\ watch.account \in Accounts
      BY FlowAssumption, RegistryAssumption DEF WatchInv, Checks
    <3> QED
      BY <3>1, <3>2
  <2>3. CASE MatchFingerprint /\ stored[watch.account] # watch.fingerprint
    BY <2>3 DEF MatchFingerprint, vars
  <2> QED
    BY <1>2, <2>1, <2>2, <2>3 DEF Watch
<1>3. CASE UNCHANGED fvars
  BY <1>3 DEF fvars, vars
<1> QED
  BY <1>1, <1>2, <1>3 DEF FlowNext, FlowProgress, Moves, Loads

\* Of the controller and the service nothing becomes of the calls.
LEMMA ControllerFields ==
  ASSUME \/ ControllerStarts \/ ControllerStarted \/ ControllerStops
         \/ ServiceStarts \/ ServiceStops
  PROVE  /\ UNCHANGED <<files, catalog, call, line, refused, overtaken>>
         /\ activations' \in {activations, Nothing}
BY DEF ControllerStarts, ControllerStarted, ControllerStops, ServiceStarts,
       ServiceStops, Start, StartLoads, StartEnds, Stop, flow, outcomes, vars

\* An authorization stores its credential and is not in line.
LEMMA AuthorizeFields ==
  ASSUME TypeOK, NEW p \in Callers, NEW a \in Accounts, NEW c \in Credentials,
         Authorizes(p, a, c)
  PROVE  /\ \A q \in Callers \ {p} : call'[q] = call[q]
         /\ call[p].pc = "idle" /\ call'[p].pc = "activate"
         /\ call'[p].account = a /\ call'[p].credential = c
         /\ Quiet /\ p # Watcher /\ Fresh(c) /\ Store(a, c)
         /\ UNCHANGED <<catalog, maps, activations, starts, flow>>
<1>1. Begin(p, a, "activate", c)
  BY DEF Authorizes, Authorize
<1>2. UNCHANGED <<maps, activations, starts>>
  BY <1>1 DEF Begin
<1> QED
  BY <1>1, <1>2, BeginFields DEF Authorizes, Authorize

\* A call that has read a file goes on with what is stored in it.
LEMMA NewReadFields ==
  ASSUME TypeOK, NEW p \in Callers, NEW a \in Accounts, NewRead(p, a)
  PROVE  /\ \A q \in Callers \ {p} : call'[q] = call[q]
         /\ call[p].pc = "idle" /\ call'[p].pc = "read"
         /\ call'[p].account = a /\ call'[p].credential = stored[a]
         /\ stored[a] \in Credentials
         /\ UNCHANGED <<files, maps, activations, starts, service, served,
                        outcomes>>
<1>1. stored[a] \in Credentials
  BY DEF NewRead, TypeOK, RuntimeMaps
<1>2. UNCHANGED <<maps, activations, starts>>
  BY DEF NewRead, Begin
<1> QED
  BY <1>1, <1>2, BeginFields DEF NewRead

----------------------------------------------------------------------------
(* Who stands in line.                                                     *)

\* Each call stands in line at most once; it does while it has read a file or
\* waits for a load, and until its continuation has run.
LineInv ==
  /\ line \in Seq(Callers)
  /\ \A r \in Callers : ~Before(r, r)
  /\ \A r \in Callers : call[r].pc \in {"read", "waiting"} => InLine(r)
  /\ \A r \in Callers :
       InLine(r) => call[r].pc \in {"read", "waiting", "activate"}

\* A call that is under way has a credential to load.
HeldInv == \A r \in Callers : call[r].pc # "idle" => call[r].credential # None

\* When it is quiet, nobody in line has been woken.
LEMMA QuietLine ==
  ASSUME Quiet PROVE \A r : InLine(r) => ~Woken(r)
BY DEF Quiet, InLine

\* Whose turn it is stands before all others that have been woken, or nobody
\* has and it is not in line.
LEMMA TurnFacts ==
  ASSUME LineInv, NEW p \in Callers, Turn(p)
  PROVE  /\ InLine(p) => \A r : InLine(r) /\ Woken(r) => r = p \/ Before(p, r)
         /\ ~InLine(p) => Quiet /\ call[p].pc = "activate"
<1>1. CASE Quiet /\ call[p].pc = "activate"
  BY <1>1, QuietLine DEF Woken
<1>2. CASE \E i \in DOMAIN line :
             line[i] = p /\ Woken(p) /\ \A j \in 1 .. i - 1 : ~Woken(line[j])
  <2>1. PICK i \in DOMAIN line :
          line[i] = p /\ \A j \in 1 .. i - 1 : ~Woken(line[j])
    BY <1>2
  <2>2. DOMAIN line = 1 .. Len(line) /\ Len(line) \in Nat
    BY LenProperties DEF LineInv
  <2>3. ASSUME NEW j \in DOMAIN line, Woken(line[j])
        PROVE  line[j] = p \/ Before(p, line[j])
    <3>1. ~(j < i)
      BY <2>1, <2>2, <2>3
    <3>2. j = i \/ i < j
      BY <2>2, <3>1
    <3> QED
      BY <2>1, <3>2 DEF Before
  <2>4. InLine(p)
    BY <2>1 DEF InLine
  <2> QED
    BY <2>3, <2>4 DEF InLine
<1> QED
  BY <1>1, <1>2 DEF Turn

\* Every step keeps the line in order.
LEMMA LineStep ==
  ASSUME TypeOK, WatchInv, LineInv, [FlowNext]_fvars
  PROVE  LineInv'
<1>1. ASSUME NEW p \in Callers, NEW a \in Accounts, NewRead(p, a)
      PROVE  LineInv'
  <2>1. /\ \A q \in Callers \ {p} : call'[q] = call[q]
        /\ call[p].pc = "idle" /\ call'[p].pc = "read"
    BY <1>1, NewReadFields
  <2>2. ~InLine(p)
    BY <2>1 DEF LineInv
  <2>3. line' = Append(line, p) /\ line \in Seq(Callers)
    BY <1>1 DEF NewRead, LineInv
  <2>4. /\ line' \in Seq(Callers)
        /\ \A r : InLine(r)' <=> InLine(r) \/ r = p
        /\ \A r, s : Before(r, s)' => Before(r, s) \/ (InLine(r) /\ s = p)
    BY <2>3, JoinsLine
  <2> QED
    BY <2>1, <2>2, <2>4 DEF LineInv
<1>2. ASSUME NEW p \in Callers, NEW a \in Accounts, NEW c \in Credentials,
             Authorizes(p, a, c)
      PROVE  LineInv'
  <2>1. /\ \A q \in Callers \ {p} : call'[q] = call[q]
        /\ call[p].pc = "idle" /\ call'[p].pc = "activate"
        /\ UNCHANGED line
    BY <1>2, AuthorizeFields DEF flow
  <2> QED
    BY <2>1, LineStays DEF LineInv
<1>3. ASSUME NEW p \in Callers, Moves(p) PROVE LineInv'
  <2>1. TurnEffect(p) /\ Requeue(p)
    BY <1>3, MoveStep
  <2>2. /\ line' \in Seq(Callers)
        /\ \A r : InLine(r)' <=>
             IF r = p THEN call'[p].pc = "waiting" ELSE InLine(r)
        /\ \A r, s : Before(r, s)' =>
             r # p /\ (Before(r, s) \/ (InLine(r) /\ s = p))
    BY <2>1, RequeueStep DEF LineInv
  <2>3. /\ \A r \in Callers \ {p} : call'[r] = call[r]
        /\ call'[p].pc \in {"idle", "joined", "waiting", "loading"}
    BY <2>1 DEF TurnEffect
  <2> QED
    BY <2>2, <2>3 DEF LineInv
<1>4. ASSUME NEW p \in Callers, Loads(p) PROVE LineInv'
  <2>1. SettleEffect(p) /\ call[p].pc = "loading" /\ UNCHANGED line
    BY <1>4, LoadEnds
  <2>2. ASSUME NEW r \in Callers, InLine(r)
        PROVE  r # p /\ call[r].pc \in {"read", "waiting", "activate"}
    BY <2>1, <2>2 DEF LineInv
  <2>3. ASSUME NEW r \in Callers
        PROVE  /\ InLine(r) => call'[r].pc \in {"read", "waiting", "activate"}
               /\ call'[r].pc \in {"read", "waiting"} => InLine(r)
    BY <2>1, <2>2 DEF SettleEffect, LineInv
  <2> QED
    BY <2>1, <2>3, LineStays DEF LineInv
<1>5. CASE UNCHANGED <<call, line>>
  BY <1>5, LineStays DEF LineInv
<1>6. CASE \E a \in Accounts : Elsewhere(a)
  BY <1>5, <1>6 DEF Elsewhere, StoreElsewhere, Remove, flow
<1> QED
  BY <1>1, <1>2, <1>3, <1>4, <1>5, <1>6, FlowKinds, ControllerFields DEF Aside

\* Every step keeps the credentials of the calls.
LEMMA HeldStep ==
  ASSUME TypeOK, WatchInv, HeldInv, [FlowNext]_fvars
  PROVE  HeldInv'
<1>1. ASSUME NEW p \in Callers, NEW a \in Accounts, NewRead(p, a)
      PROVE  HeldInv'
  BY <1>1, NewReadFields, RegistryAssumption DEF HeldInv
<1>2. ASSUME NEW p \in Callers, NEW a \in Accounts, NEW c \in Credentials,
             Authorizes(p, a, c)
      PROVE  HeldInv'
  BY <1>2, AuthorizeFields, RegistryAssumption DEF HeldInv
<1>3. ASSUME NEW p \in Callers, Moves(p) PROVE HeldInv'
  <2>1. TurnEffect(p) /\ call[p].pc \in {"read", "activate"}
    BY <1>3, MoveStep
  <2> QED
    BY <2>1 DEF HeldInv, TurnEffect
<1>4. ASSUME NEW p \in Callers, Loads(p) PROVE HeldInv'
  <2>1. SettleEffect(p)
    BY <1>4, LoadEnds
  <2> QED
    BY <2>1 DEF HeldInv, SettleEffect
<1>5. CASE UNCHANGED call
  BY <1>5 DEF HeldInv
<1>6. CASE \E a \in Accounts : Elsewhere(a)
  BY <1>5, <1>6 DEF Elsewhere, StoreElsewhere, Remove
<1> QED
  BY <1>1, <1>2, <1>3, <1>4, <1>5, <1>6, FlowKinds, ControllerFields DEF Aside

----------------------------------------------------------------------------
(* What the flow has met with.                                             *)

HistInv ==
  /\ refused \in SUBSET Credentials /\ overtaken \in SUBSET Accounts
  /\ faults \in 0 .. MaxFaults

\* It is never forgotten.
LEMMA HistStep ==
  ASSUME TypeOK, WatchInv, HeldInv, HistInv, [FlowNext]_fvars
  PROVE  /\ HistInv'
         /\ refused \subseteq refused' /\ overtaken \subseteq overtaken'
<1>0. MaxFaults \in Nat
  BY FlowAssumption
<1>1. ASSUME NEW p \in Callers, Moves(p)
      PROVE  /\ HistInv'
             /\ refused \subseteq refused' /\ overtaken \subseteq overtaken'
  <2>1. UNCHANGED <<refused, faults>> /\ call[p].account \in Accounts
    BY <1>1, MoveStep DEF TypeOK, Calls
  <2>2. overtaken' \in {overtaken, overtaken \union {call[p].account}}
    BY <1>1 DEF Moves, FlowActivate, FlowActivateStored
  <2> QED
    BY <2>1, <2>2 DEF HistInv
<1>2. ASSUME NEW p \in Callers, Loads(p)
      PROVE  /\ HistInv'
             /\ refused \subseteq refused' /\ overtaken \subseteq overtaken'
  <2>1. /\ call[p].account \in Accounts
        /\ call[p].credential \in Credentials \union {None}
        /\ call[p].pc = "loading"
    BY <1>2, LoadEnds DEF TypeOK, Calls
  <2>2. call[p].credential \in Credentials
    BY <2>1 DEF HeldInv
  <2>3. /\ refused' \in {refused, refused \union {call[p].credential}}
        /\ faults' = faults \/ (faults < MaxFaults /\ faults' = faults + 1)
        /\ overtaken' \in {overtaken, Accounts,
                           overtaken \union {call[p].account}}
    BY <1>2 DEF Loads, FlowLoadSucceeds, FlowLoadFails, Fault
  <2> QED
    BY <1>0, <2>1, <2>2, <2>3 DEF HistInv
<1>3. CASE ControllerStarted
  BY <1>0, <1>3 DEF ControllerStarted, Fault, HistInv
<1>4. CASE UNCHANGED outcomes
  BY <1>4 DEF outcomes, HistInv
<1>5. CASE \/ \E p \in Callers, a \in Accounts : NewRead(p, a)
           \/ \E p \in Callers, a \in Accounts, c \in Credentials :
                Authorizes(p, a, c)
           \/ \E a \in Accounts : Elsewhere(a)
           \/ ControllerStarts \/ ControllerStops
           \/ ServiceStarts \/ ServiceStops \/ Aside
  BY <1>4, <1>5
     DEF NewRead, Authorizes, Elsewhere, ControllerStarts, ControllerStops,
                    ServiceStarts, ServiceStops, Aside, flow
<1> QED
  BY <1>1, <1>2, <1>3, <1>5, FlowKinds

----------------------------------------------------------------------------
(* What is observed is in use.                                             *)

\* The call would load what is stored.
Newest(p) == LET a == call[p].account IN
             stored[a] # None /\ call[p].credential = stored[a]

\* The call will load nothing unless it is overtaken: it has ended or shares a
\* load, its authorization goes on when another credential is stored, or a stop
\* has cut off the load it is or waits for.
Harmless(p) ==
  LET a == call[p].account IN
  \/ call[p].pc \in {"idle", "joined"}
  \/ call[p].pc = "activate" /\ ~InLine(p)
  \/ call[p].pc = "loading" /\ activations[a] # p
  \/ call[p].pc = "waiting" /\ activations[a] # call[p].on

\* What is stored for the account is loaded, or its load is in flight.
Reached(a) ==
  \/ fingerprints[a] = stored[a]
  \/ activations[a] # None /\ call[activations[a]].credential = stored[a]

\* The service runs only while the controller is started, and then both maps
\* exist; before that nothing can be loaded but by a load that was cut off.
PhaseInv ==
  /\ service # "down" => phase = "up"
  /\ phase = "up" => runtimes # NotStarted /\ fingerprints # NotStarted
  /\ phase # "up" /\ overtaken # Accounts =>
       runtimes = NotStarted /\ activations = Nothing

\* The watcher waits for one call, that of the fingerprint it has read.
CheckInv ==
  /\ service = "down" => observed = Nothing /\ watch.pc = "idle"
  /\ watch.pc = "call" <=> call[Watcher].pc # "idle"
  /\ watch.pc = "call" => /\ call[Watcher].account = watch.account
                          /\ call[Watcher].credential = watch.fingerprint
  /\ watch.pc \in {"match", "call"} =>
       watch.fingerprint \in everStored[watch.account]
  /\ Isolated(observed)

FingerInv == fingerprints # NotStarted => Isolated(fingerprints)

\* The call waits for the load that is registered for its account; or it has
\* been woken and stands in line.
Waits(p) == call[p].pc = "waiting" /\ activations[call[p].account] = call[p].on

Ready(p) == InLine(p) /\ Woken(p)

\* s has read its file after r: those who wait have had their turn since they
\* were woken, the others have not.
Ahead(r, s) ==
  \/ Before(r, s) /\ Waits(r) /\ Waits(s)
  \/ Before(r, s) /\ Ready(r) /\ Ready(s)
  \/ Waits(r) /\ Ready(s)

\* Calls of an account come to load it in the order of what they have read.
OrderInv ==
  \A r, s \in Callers :
    /\ Ahead(r, s) /\ call[r].account = call[s].account
    /\ call[r].account \notin overtaken /\ Newest(r)
    => Newest(s)

\* Once a load of what is stored has begun, no call can load anything older.
CleanInv ==
  phase = "up" =>
    \A a \in Accounts \ overtaken :
      stored[a] # None /\ Reached(a) =>
        \A p \in Callers : call[p].account = a => Newest(p) \/ Harmless(p)

\* A discovery loop has the credential of the account's fingerprint.
HandedInv ==
  phase = "up" =>
    \A a \in Accounts \ overtaken : served[a] = fingerprints[a]

ObservedInv ==
  service = "up" =>
    \A a \in Accounts \ overtaken :
      stored[a] # None /\ observed[a] = stored[a] =>
        stored[a] \in refused \/ fingerprints[a] = stored[a]

\* A check that goes on waits for no call.
LEMMA GoOnPc ==
  ASSUME NEW S \in SUBSET Accounts, GoOn(S)
  PROVE  watch'.pc \in {"idle", "scan"}
<1>1. NoCheck \in Checks /\ NoCheck.pc = "idle"
  BY NoCheckIsCheck DEF NoCheck
<1>2. watch' = NoCheck \/ watch' = [NoCheck EXCEPT !.pc = "scan", !.todo = S]
  BY DEF GoOn
<1> QED
  BY <1>1, <1>2 DEF Checks

\* The call of the watcher stays what it is until it returns, and returns with
\* the load of its own account.
LEMMA WatcherCall ==
  ASSUME TypeOK, LinkInv, NEW p \in Callers, Moves(p) \/ Loads(p)
  PROVE  /\ call'[Watcher].pc # "idle" =>
              /\ call[Watcher].pc # "idle"
              /\ call'[Watcher].account = call[Watcher].account
              /\ call'[Watcher].credential = call[Watcher].credential
         /\ WatcherReturns => call[Watcher].account = call[p].account
<1>1. Watcher \in Callers
  BY FlowAssumption, RegistryAssumption
<1>2. CASE Moves(p)
  <2>1. TurnEffect(p) /\ call[p].pc # "idle"
    BY <1>2, MoveStep
  <2> QED
    BY <1>1, <2>1 DEF TurnEffect, WatcherReturns
<1>3. CASE Loads(p)
  <2>1. SettleEffect(p) /\ call[p].pc = "loading"
    BY <1>3, LoadEnds
  <2>2. call[Watcher].pc = "joined" /\ call[Watcher].on = p =>
          call[Watcher].account = call[p].account
    BY <1>1 DEF LinkInv, AwaitsItsLoad
  <2> QED
    BY <1>1, <2>1, <2>2 DEF SettleEffect, WatcherReturns
<1> QED
  BY <1>2, <1>3

\* Every step keeps the check and the call it waits for together.
LEMMA CheckStep ==
  ASSUME IInv, LinkInv, WatchInv, CheckInv, [FlowNext]_fvars
  PROVE  CheckInv'
<1>0. /\ TypeOK /\ Watcher \in Callers
      /\ \A a \in Accounts : everStored[a] \subseteq everStored'[a]
  BY FlowStepIsRegistryStep, EverStoredGrows, FlowAssumption,
     RegistryAssumption DEF IInv
<1>1. CASE UNCHANGED watching /\ call'[Watcher] = call[Watcher]
  BY <1>0, <1>1 DEF CheckInv, watching, Isolated, WatchInv, Checks
<1>2. ASSUME NEW p \in Callers, NEW a \in Accounts,
             \/ ToolReads(p, a) \/ BusNotifies(p, a)
             \/ \E c \in Credentials : Authorizes(p, a, c)
      PROVE  CheckInv'
  <2>1. UNCHANGED watching /\ p # Watcher
    BY <1>2 DEF ToolReads, BusNotifies, Authorizes, flow
  <2>2. \A r \in Callers \ {p} : call'[r] = call[r]
    BY <1>0, <1>2
       DEF ToolReads, BusNotifies, Authorizes, ReadStored, Notified, Authorize,
           Read, Begin, TypeOK
  <2> QED
    BY <1>0, <1>1, <2>1, <2>2
<1>3. ASSUME NEW p \in Callers, Moves(p) \/ Loads(p)
      PROVE  CheckInv'
  <2> DEFINE a == call[p].account
  <2>1. a \in Accounts
    BY <1>0 DEF TypeOK, Calls
  <2>2. PICK known : service' = service /\ Observe(a, known)
    BY <1>3 DEF Moves, Loads, FlowActivate, FlowActivateStored,
                FlowLoadSucceeds, FlowLoadFails
  <2>3. CASE WatcherReturns
    <3>1. watch.pc = "call" /\ call[Watcher].account = a
          /\ call'[Watcher].pc = "idle"
      BY <1>0, <1>3, <2>3, WatcherCall DEF CheckInv, WatcherReturns
    <3>2. /\ watch'.pc \in {"idle", "scan"}
          /\ observed' \in {observed,
                           [observed EXCEPT ![a] = watch.fingerprint]}
      <4>1. GoOn(watch.todo \ {a}) /\ watch.todo \ {a} \in SUBSET Accounts
        BY <2>2, <2>3 DEF Observe, WatchInv, Checks
      <4> QED
        BY <2>2, <2>3, <4>1, GoOnPc DEF Observe
    <3>3. watch.fingerprint \in everStored[a] /\ service # "down"
      BY <3>1 DEF CheckInv
    <3>4. Isolated(observed)'
      BY <1>0, <2>1, <3>2, <3>3 DEF CheckInv, Isolated, WatchInv, RuntimeMaps
    <3> QED
      BY <2>2, <3>1, <3>2, <3>3, <3>4 DEF CheckInv
  <2>4. CASE ~WatcherReturns
    <3>1. UNCHANGED watching
      BY <2>2, <2>4 DEF Observe, watching
    <3>2. call'[Watcher].pc # "idle" <=> call[Watcher].pc # "idle"
      BY <1>0, <1>3, <2>4, WatcherCall DEF WatcherReturns
    <3>3. call'[Watcher].pc # "idle" =>
            /\ call'[Watcher].account = call[Watcher].account
            /\ call'[Watcher].credential = call[Watcher].credential
      BY <1>0, <1>3, WatcherCall
    <3>4. watch.account \in Accounts
      BY DEF WatchInv, Checks
    <3> QED
      BY <1>0, <3>1, <3>2, <3>3, <3>4 DEF CheckInv, watching, Isolated
  <2> QED
    BY <2>3, <2>4
<1>4. CASE BeginCheck
  <2>1. /\ catalog \in SUBSET Accounts /\ GoOn(catalog) /\ service = "up"
        /\ watch.pc = "idle"
        /\ UNCHANGED <<call, service, observed>>
    BY <1>0, <1>4 DEF BeginCheck, TypeOK, vars
  <2>2. watch'.pc \in {"idle", "scan"}
    BY <2>1, GoOnPc
  <2> QED
    BY <1>0, <2>1, <2>2 DEF CheckInv, Isolated
<1>5. ASSUME NEW a \in Accounts, GetFingerprint(a)
      PROVE  CheckInv'
  <2>1. watch.pc = "scan" /\ UNCHANGED <<call, service>>
    BY <1>5 DEF GetFingerprint, vars
  <2>2. service # "down" /\ call[Watcher].pc = "idle"
    BY <2>1 DEF CheckInv
  <2>3. CASE service = "up" /\ stored[a] \notin {None, observed[a]}
    <3>1. /\ watch' = [watch EXCEPT !.pc = "match", !.account = a,
                                    !.fingerprint = stored[a]]
          /\ UNCHANGED observed
      BY <1>5, <2>3 DEF GetFingerprint
    <3>2. watch'.pc = "match" /\ watch'.account = a
          /\ watch'.fingerprint = stored[a]
      BY <3>1 DEF WatchInv, Checks
    <3>3. stored[a] \in everStored[a]
      BY <2>3 DEF IInv, StoredInv, Isolated
    <3> QED
      BY <1>0, <2>1, <2>2, <3>1, <3>2, <3>3 DEF CheckInv, Isolated
  <2>4. CASE ~(service = "up" /\ stored[a] \notin {None, observed[a]})
    <3>1. /\ GoOn(watch.todo \ {a}) /\ watch.todo \ {a} \in SUBSET Accounts
          /\ observed' \in {observed, [observed EXCEPT ![a] = None]}
      BY <1>5, <2>4 DEF GetFingerprint, WatchInv, Checks
    <3>2. watch'.pc \in {"idle", "scan"}
      BY <3>1, GoOnPc
    <3>3. Isolated(observed)'
      BY <1>0, <3>1 DEF CheckInv, Isolated, WatchInv, RuntimeMaps
    <3> QED
      BY <2>1, <2>2, <3>2, <3>3 DEF CheckInv
  <2> QED
    BY <2>3, <2>4
<1>6. CASE MatchFingerprint
  <2> DEFINE a == watch.account
  <2>1. /\ watch.pc = "match" /\ a \in Accounts
        /\ UNCHANGED <<service, observed>>
    BY <1>6 DEF MatchFingerprint, WatchInv, Checks
  <2>2. service # "down" /\ call[Watcher].pc = "idle"
        /\ watch.fingerprint \in everStored[a]
    BY <2>1 DEF CheckInv
  <2>3. CASE stored[a] = watch.fingerprint
    <3>1. /\ NewRead(Watcher, a)
          /\ watch' = [watch EXCEPT !.pc = "call"]
      BY <1>6, <2>3
         DEF MatchFingerprint, ReadStored, Read, NewRead, outcomes
    <3>2. call'[Watcher].pc = "read" /\ call'[Watcher].account = a
          /\ call'[Watcher].credential = watch.fingerprint
      BY <1>0, <2>1, <2>3, <3>1, NewReadFields
    <3>3. watch'.pc = "call" /\ watch'.account = a
          /\ watch'.fingerprint = watch.fingerprint
      BY <3>1 DEF WatchInv, Checks
    <3> QED
      BY <1>0, <2>1, <2>2, <3>2, <3>3 DEF CheckInv, Isolated
  <2>4. CASE stored[a] # watch.fingerprint
    <3>1. GoOn(watch.todo \ {a}) /\ watch.todo \ {a} \in SUBSET Accounts
          /\ UNCHANGED call
      BY <1>6, <2>4 DEF MatchFingerprint, WatchInv, Checks, vars
    <3>2. watch'.pc \in {"idle", "scan"}
      BY <3>1, GoOnPc
    <3> QED
      BY <1>0, <2>1, <2>2, <3>1, <3>2 DEF CheckInv, Isolated
  <2> QED
    BY <2>3, <2>4
<1>7. CASE ServiceStarts \/ ServiceStops
  BY <1>0, <1>7 DEF ServiceStarts, ServiceStops, vars, CheckInv, Isolated,
                    WatchInv, Checks
<1>8. CASE ControllerStops
  BY <1>0, <1>8, EmptyMap
     DEF ControllerStops, Stop, CheckInv, Isolated, WatchInv,
                    Checks, Nothing
<1>9. CASE \/ \E a \in Accounts : Elsewhere(a)
           \/ ControllerStarts \/ ControllerStarted \/ UNCHANGED fvars
  BY <1>1, <1>9 DEF Elsewhere, StoreElsewhere, Remove, ControllerStarts,
                    ControllerStarted, Start, StartLoads, StartEnds, flow,
                    fvars, vars
<1> QED
  BY <1>2, <1>3, <1>4, <1>5, <1>6, <1>7, <1>8, <1>9
     DEF FlowNext, Watch, FlowProgress, Moves, Loads

----------------------------------------------------------------------------
\* Every step keeps service, controller and maps together.
LEMMA PhaseStep ==
  ASSUME TypeOK, WatchInv, HeldInv, HistInv, PhaseInv, [FlowNext]_fvars
  PROVE  PhaseInv'
<1>0. HistInv' /\ overtaken \subseteq overtaken'
  BY HistStep
<1>1. overtaken' # Accounts => overtaken # Accounts
  BY <1>0 DEF HistInv
<1>2. CASE UNCHANGED <<maps, activations, starts, service>>
  BY <1>1, <1>2 DEF PhaseInv, maps, starts
<1>3. ASSUME NEW p \in Callers, Moves(p) PROVE PhaseInv'
  <2>1. TurnEffect(p) /\ UNCHANGED <<maps, starts, service>>
    BY <1>3, MoveStep
  <2>2. runtimes = NotStarted => UNCHANGED activations
    BY <2>1 DEF TurnEffect
  <2> QED
    BY <1>1, <2>1, <2>2 DEF PhaseInv, maps, starts
<1>4. ASSUME NEW p \in Callers, Loads(p) PROVE PhaseInv'
  <2> DEFINE a == call[p].account
  <2>1. /\ SettleEffect(p) /\ UNCHANGED <<starts, service>>
        /\ a \in Accounts
    BY <1>4, LoadEnds DEF TypeOK, Calls
  <2>2. CASE phase = "up"
    <3>1. runtimes' # NotStarted /\ fingerprints' # NotStarted
      <4>1. CASE UNCHANGED maps
        BY <2>2, <4>1 DEF PhaseInv, maps
      <4>2. CASE /\ runtimes' = Result(p)
                 /\ fingerprints' =
                      IF fingerprints = NotStarted THEN NotStarted
                      ELSE [fingerprints EXCEPT ![a] = call[p].credential]
        <5>1. /\ call[p].current \in RuntimeMaps
              /\ call[p].credential \in Credentials \union {None}
          BY DEF TypeOK, Calls
        <5>2. Result(p) \in RuntimeMaps
          BY <2>1, <5>1 DEF Result, RuntimeMaps
        <5>3. fingerprints # NotStarted /\ fingerprints \in RuntimeMaps
          BY <2>2 DEF PhaseInv, TypeOK
        <5>4. fingerprints' \in RuntimeMaps
          BY <2>1, <4>2, <5>1, <5>3 DEF RuntimeMaps
        <5> QED
          BY <4>2, <5>2, <5>4, EmptyMap
      <4> QED
        BY <1>4, <4>1, <4>2 DEF Loads, FlowLoadSucceeds, FlowLoadFails,
                                LoadSucceeds, LoadFails, Install
    <3> QED
      BY <2>1, <2>2, <3>1 DEF PhaseInv, starts
  <2>3. CASE phase # "up"
    <3>1. CASE overtaken = Accounts
      BY <1>1, <2>1, <2>3, <3>1 DEF PhaseInv, starts
    <3>2. CASE overtaken # Accounts
      <4>1. runtimes = NotStarted /\ activations = Nothing
        BY <2>3, <3>2 DEF PhaseInv
      <4>2. CutOff(p)
        BY <2>1, <4>1, EmptyMap DEF CutOff, Nothing
      <4>3. activations' \in [Accounts -> Callers \union {None}]
        BY <1>4, SettleStep, SettleFields
           DEF Loads, FlowLoadSucceeds, FlowLoadFails, LoadSucceeds,
               LoadFails, Settle, TypeOK
      <4>4. activations' = Nothing
        BY <2>1, <4>1, <4>3 DEF SettleEffect, Nothing
      <4>5. FlowLoadSucceeds(p) => overtaken' = Accounts
        BY <4>2 DEF FlowLoadSucceeds
      <4>6. FlowLoadFails(p) => UNCHANGED maps
        BY DEF FlowLoadFails, LoadFails
      <4> QED
        BY <1>4, <2>1, <2>3, <4>1, <4>4, <4>5, <4>6
           DEF PhaseInv, starts, maps, Loads
    <3> QED
      BY <3>1, <3>2
  <2> QED
    BY <2>2, <2>3
<1>5. CASE ControllerStarts
  <2>1. UNCHANGED <<service, overtaken>>
    BY <1>5 DEF ControllerStarts, flow, watching, outcomes
  <2>2. CASE Start
    BY <1>1, <2>1, <2>2 DEF Start, PhaseInv, maps
  <2>3. CASE \E a \in Accounts : StartLoads(a)
    BY <1>1, <2>1, <2>3 DEF StartLoads, PhaseInv, maps
  <2> QED
    BY <1>5, <2>2, <2>3 DEF ControllerStarts
<1>6. CASE ControllerStarted
  <2>1. loaded # NotStarted
    BY EmptyMap DEF TypeOK
  <2>2. UNCHANGED <<service, overtaken>> /\ StartEnds
    BY <1>6 DEF ControllerStarted, watching
  <2> QED
    BY <1>1, <2>1, <2>2 DEF StartEnds, PhaseInv
<1>7. CASE ControllerStops
  BY <1>7 DEF ControllerStops, Stop, PhaseInv
<1>8. CASE ServiceStarts \/ ServiceStops
  BY <1>1, <1>8
     DEF ServiceStarts, ServiceStops, PhaseInv, vars, maps, starts, outcomes
<1>9. CASE \/ \E p \in Callers, a \in Accounts : NewRead(p, a)
           \/ \E p \in Callers, a \in Accounts, c \in Credentials :
                Authorizes(p, a, c)
           \/ \E a \in Accounts : Elsewhere(a)
           \/ Aside
  <2>1. ASSUME NEW p \in Callers, NEW a \in Accounts, NewRead(p, a)
        PROVE  UNCHANGED <<maps, activations, starts, service>>
    BY <2>1, NewReadFields
  <2>2. ASSUME NEW p \in Callers, NEW a \in Accounts, NEW c \in Credentials,
               Authorizes(p, a, c)
        PROVE  UNCHANGED <<maps, activations, starts, service>>
    BY <2>2, AuthorizeFields DEF flow, watching
  <2> QED
    BY <1>2, <1>9, <2>1, <2>2
       DEF Elsewhere, StoreElsewhere, Remove, Aside, flow, watching
<1> QED
  BY <1>3, <1>4, <1>5, <1>6, <1>7, <1>8, <1>9, FlowKinds

\* What is stored for an account changes to nothing or to a credential that no
\* account has had.
LEMMA NewlyStored ==
  ASSUME TypeOK,
         \/ \E p \in Callers, a \in Accounts, c \in Credentials :
              Authorizes(p, a, c)
         \/ \E a \in Accounts : Elsewhere(a)
  PROVE  \A b \in Accounts :
           \/ stored'[b] \in {stored[b], None}
           \/ \A x \in Accounts : stored'[b] \notin everStored[x]
<1>1. ASSUME NEW a \in Accounts, NEW c, Fresh(c), Store(a, c)
      PROVE  \A b \in Accounts :
               \/ stored'[b] \in {stored[b], None}
               \/ \A x \in Accounts : stored'[b] \notin everStored[x]
  BY <1>1 DEF Store, Fresh, TypeOK, RuntimeMaps
<1>2. ASSUME NEW a \in Accounts, Remove(a)
      PROVE  \A b \in Accounts : stored'[b] \in {stored[b], None}
  BY <1>2 DEF Remove, TypeOK, RuntimeMaps
<1> QED
  BY <1>1, <1>2 DEF Authorizes, Authorize, Elsewhere, StoreElsewhere

\* What has been stored for an account and is stored for it after a store was
\* stored for it before.
LEMMA StillStored ==
  ASSUME TypeOK, NEW a \in Accounts, stored'[a] # None,
         stored'[a] \in everStored[a],
         \/ \E p \in Callers, b \in Accounts, c \in Credentials :
              Authorizes(p, b, c)
         \/ \E b \in Accounts : Elsewhere(b)
  PROVE  stored'[a] = stored[a]
BY NewlyStored

\* The registry's steps on its fingerprints: one account's is replaced, when
\* its load has ended, by what it has loaded.
LEMMA LoadFingers ==
  ASSUME TypeOK, fingerprints # NotStarted, NEW p \in Callers, Loads(p)
  PROVE  \/ UNCHANGED fingerprints
         \/ fingerprints' =
              [fingerprints EXCEPT ![call[p].account] = call[p].credential]
BY DEF Loads, FlowLoadSucceeds, FlowLoadFails, LoadSucceeds, LoadFails,
       Install,
       maps

\* Every step keeps the fingerprints those of their own accounts.
LEMMA FingerStep ==
  ASSUME IInv, HeldInv, WatchInv, FingerInv, [FlowNext]_fvars
  PROVE  FingerInv'
<1>0. /\ TypeOK
      /\ \A a \in Accounts : everStored[a] \subseteq everStored'[a]
  BY FlowStepIsRegistryStep, EverStoredGrows DEF IInv
<1>1. CASE UNCHANGED fingerprints
  BY <1>0, <1>1 DEF FingerInv, Isolated
<1>2. ASSUME NEW p \in Callers, Loads(p) PROVE FingerInv'
  <2>1. CASE fingerprints = NotStarted
    <3>1. fingerprints' = NotStarted
      BY <1>2, <2>1 DEF Loads, FlowLoadSucceeds, FlowLoadFails, LoadSucceeds,
                        LoadFails, Install, maps
    <3> QED
      BY <3>1 DEF FingerInv
  <2>2. CASE fingerprints # NotStarted
    <3>1. /\ call[p].account \in Accounts /\ call[p].credential # None
          /\ call[p].credential \in everStored[call[p].account]
      BY <1>0, <1>2, LoadEnds DEF TypeOK, Calls, HeldInv, IInv, CallsInv
    <3>2. fingerprints \in RuntimeMaps
      BY <1>0, <2>2 DEF TypeOK
    <3> QED
      BY <1>0, <1>1, <1>2, <2>2, <3>1, <3>2, LoadFingers
         DEF FingerInv, Isolated, RuntimeMaps
  <2> QED
    BY <2>1, <2>2
<1>3. CASE ControllerStarts \/ ControllerStarted \/ ControllerStops
  BY <1>0, <1>3
     DEF ControllerStarts, ControllerStarted, ControllerStops, Start,
                    StartLoads, StartEnds, Stop, FingerInv, IInv, StoredInv,
                    Isolated, maps
<1>4. ASSUME NEW p \in Callers, Moves(p) PROVE UNCHANGED fingerprints
  BY <1>0, <1>4, MoveStep DEF maps
<1>5. ASSUME NEW p \in Callers, NEW a \in Accounts, NewRead(p, a)
      PROVE  UNCHANGED fingerprints
  BY <1>0, <1>5, NewReadFields DEF maps
<1>6. ASSUME NEW p \in Callers, NEW a \in Accounts, NEW c \in Credentials,
             Authorizes(p, a, c)
      PROVE  UNCHANGED fingerprints
  BY <1>0, <1>6, AuthorizeFields DEF maps
<1>7. CASE \/ \E a \in Accounts : Elsewhere(a)
           \/ ServiceStarts \/ ServiceStops \/ Aside
  BY <1>1, <1>7
     DEF Elsewhere, StoreElsewhere, Remove, ServiceStarts, ServiceStops, Aside,
                    vars, maps
<1> QED
  BY <1>1, <1>2, <1>3, <1>4, <1>5, <1>6, <1>7, FlowKinds

----------------------------------------------------------------------------
(* The order of the calls of an account.                                   *)

\* A call whose turn it is would load what is stored, or its account has been
\* overtaken, if it was not in line.
LEMMA TurnOutOfLine ==
  ASSUME TypeOK, LineInv, NEW p \in Callers, Moves(p), ~InLine(p),
         call[p].account \notin overtaken'
  PROVE  Quiet /\ call[p].credential = stored[call[p].account]
<1>1. Quiet /\ call[p].pc = "activate"
  BY MoveStep, TurnFacts
<1>2. FlowActivate(p)
  BY <1>1 DEF Moves, FlowActivateStored, ActivateStored
<1> QED
  BY <1>1, <1>2 DEF FlowActivate

\* A call whose turn it is takes nobody else's place.
LEMMA OrderMove ==
  ASSUME TypeOK, LinkInv, LineInv, OrderInv, overtaken \subseteq overtaken',
         NEW p \in Callers, Moves(p)
  PROVE  OrderInv'
<1>1. /\ TurnEffect(p) /\ Turn(p) /\ Requeue(p)
      /\ call[p].pc \in {"read", "activate"} /\ Woken(p)
      /\ UNCHANGED stored
  BY MoveStep DEF files, Woken
<1>2. /\ \A r : InLine(r)' <=>
           IF r = p THEN call'[p].pc = "waiting" ELSE InLine(r)
      /\ \A r, s : Before(r, s)' =>
           r # p /\ (Before(r, s) \/ (InLine(r) /\ s = p))
  BY <1>1, RequeueStep DEF LineInv
<1>3. /\ \A r \in Callers \ {p} : call'[r] = call[r]
      /\ call'[p].pc \in {"idle", "joined", "waiting", "loading"}
  BY <1>1 DEF TurnEffect
<1>4. ASSUME NEW r \in Callers \ {p}
      PROVE  /\ Ready(r)' <=> Ready(r)
             /\ Newest(r)' <=> Newest(r)
  BY <1>1, <1>2, <1>3, <1>4 DEF Ready, Woken, Newest
<1>5. ASSUME NEW r \in Callers \ {p}, Waits(r)'
      PROVE  Waits(r)
  <2>1. call[r].pc = "waiting" /\ call[r].on # p
    BY <1>1, <1>3, <1>5 DEF Waits, LinkInv, AwaitsItsLoad
  <2>2. call[r].account \in Accounts
    BY DEF TypeOK, Calls
  <2>3. activations'[call[r].account] \in {activations[call[r].account], p}
    BY <1>1, <2>2 DEF TurnEffect, TypeOK
  <2> QED
    BY <1>3, <1>5, <2>1, <2>3 DEF Waits
<1>6. ~Ready(p)' /\ (InLine(p) => Ready(p))
  BY <1>1, <1>3 DEF Ready, Woken
<1>7. Waits(p)' => /\ call'[p].account = call[p].account
                   /\ call'[p].credential = call[p].credential
  BY <1>1 DEF Waits, TurnEffect
<1> SUFFICES ASSUME NEW r \in Callers, NEW s \in Callers, Ahead(r, s)',
                    call'[r].account = call'[s].account,
                    call'[r].account \notin overtaken', Newest(r)'
             PROVE  Newest(s)'
  BY DEF OrderInv
<1>8. CASE r # p /\ s # p
  <2>1. Ahead(r, s)
    BY <1>2, <1>4, <1>5, <1>8 DEF Ahead
  <2> QED
    BY <1>3, <1>4, <1>8, <2>1 DEF OrderInv
<1>9. CASE s = p
  <2>1. Waits(p)' /\ Waits(r) /\ r # p
    BY <1>2, <1>5, <1>6, <1>9 DEF Ahead
  <2>2. Newest(r) /\ call[r].account = call[p].account
        /\ call[p].account \notin overtaken'
    BY <1>3, <1>4, <1>7, <1>9, <2>1
  <2>3. Newest(p)
    <3>1. CASE InLine(p)
      BY <1>6, <2>1, <2>2, <3>1 DEF OrderInv, Ahead
    <3>2. CASE ~InLine(p)
      BY <2>2, <3>2, TurnOutOfLine DEF Newest
    <3> QED
      BY <3>1, <3>2
  <2> QED
    BY <1>1, <1>7, <1>9, <2>1, <2>3 DEF Newest
<1>10. CASE r = p /\ s # p
  <2>1. Waits(p)' /\ Ready(s)
    BY <1>2, <1>4, <1>6, <1>10 DEF Ahead
  <2>2. InLine(p) /\ Before(p, s)
    BY <1>1, <1>10, <2>1, TurnFacts, QuietLine DEF Ready
  <2>3. Ahead(p, s) /\ Newest(p) /\ call[p].account = call[s].account
        /\ call[p].account \notin overtaken
    BY <1>1, <1>3, <1>6, <1>7, <1>10, <2>1, <2>2 DEF Ahead, Newest
  <2> QED
    BY <1>4, <1>10, <2>3 DEF OrderInv
<1> QED
  BY <1>8, <1>9, <1>10

\* The calls that a load wakes keep their order, before any that still wait.
LEMMA OrderLoad ==
  ASSUME TypeOK, LinkInv, LineInv, OrderInv, overtaken \subseteq overtaken',
         NEW p \in Callers, Loads(p)
  PROVE  OrderInv'
<1> DEFINE a == call[p].account
<1>1. /\ SettleEffect(p) /\ Quiet /\ call[p].pc = "loading"
      /\ UNCHANGED <<line, stored>> /\ a \in Accounts
  BY LoadEnds DEF files, TypeOK, Calls
<1>2. /\ \A r : InLine(r)' <=> InLine(r)
      /\ \A r, s : Before(r, s)' <=> Before(r, s)
  BY <1>1, LineStays
<1>3. CutOff(p) => a \in overtaken'
  BY <1>1 DEF Loads, FlowLoadSucceeds, FlowLoadFails
<1>4. ASSUME NEW r \in Callers, InLine(r), call'[r].account \notin overtaken'
      PROVE  /\ call'[r].account = call[r].account
             /\ Newest(r)' <=> Newest(r)
             /\ Ready(r)' => Waits(r) /\ call[r].account = a
             /\ Waits(r)' => Waits(r) /\ call[r].account # a
  <2>1. call[r].pc \in {"waiting", "activate", "read"} /\ r # p /\ ~Woken(r)
    BY <1>1, <1>4, QuietLine DEF LineInv
  <2>2. call[r].pc = "waiting" /\ call[r].account \in Accounts
    BY <2>1 DEF Woken, TypeOK, Calls
  <2>3. CASE call[r].on = p
    <3>1. /\ call'[r].pc = "activate" /\ call'[r].account = call[r].account
          /\ call'[r].credential = call[r].credential
      BY <1>1, <2>1, <2>2, <2>3 DEF SettleEffect
    <3>2. call[r].account = a
      BY <2>2, <2>3 DEF LinkInv, AwaitsItsLoad
    <3>3. activations[a] = p
      BY <1>3, <1>4, <3>1, <3>2 DEF CutOff
    <3> QED
      BY <1>1, <2>2, <2>3, <3>1, <3>2, <3>3 DEF Newest, Waits
  <2>4. CASE call[r].on # p
    <3>1. call'[r] = call[r]
      BY <1>1, <2>1, <2>2, <2>4 DEF SettleEffect
    <3>2. call[r].on \in Callers
      BY <2>2 DEF LinkInv, AwaitsItsLoad
    <3>3. Waits(r)' => Waits(r)
      BY <1>1, <2>2, <3>1, <3>2, RegistryAssumption DEF Waits, SettleEffect
    <3>4. ASSUME Waits(r)' PROVE call[r].account # a
      <4>1. CASE activations[a] = p
        BY <1>1, <2>4, <3>3, <3>4, <4>1 DEF Waits
      <4>2. CASE activations[a] # p
        BY <1>3, <1>4, <3>1, <4>2 DEF CutOff
      <4> QED
        BY <4>1, <4>2
    <3> QED
      BY <1>1, <2>2, <3>1, <3>3, <3>4 DEF Newest, Ready, Woken
  <2> QED
    BY <2>3, <2>4
<1> SUFFICES ASSUME NEW r \in Callers, NEW s \in Callers, Ahead(r, s)',
                    call'[r].account = call'[s].account,
                    call'[r].account \notin overtaken', Newest(r)'
             PROVE  Newest(s)'
  BY DEF OrderInv
<1>5. ASSUME NEW x \in Callers, Waits(x)' \/ Ready(x)' PROVE InLine(x)
  <2>1. CASE Ready(x)'
    BY <1>2, <2>1 DEF Ready
  <2>2. CASE Waits(x)'
    <3>1. call[x].pc = "waiting"
      BY <1>1, <2>2 DEF SettleEffect, Waits
    <3> QED
      BY <3>1 DEF LineInv
  <2> QED
    BY <1>5, <2>1, <2>2
<1>6. InLine(r) /\ InLine(s)
  BY <1>5 DEF Ahead
<1>7. /\ Newest(r) /\ (Newest(s) <=> Newest(s)')
      /\ call[r].account = call[s].account
      /\ call[r].account \notin overtaken
  BY <1>4, <1>6
<1>8. Ahead(r, s)
  BY <1>2, <1>4, <1>6, <1>7 DEF Ahead
<1> QED
  BY <1>7, <1>8 DEF OrderInv

\* Every step keeps the calls of an account in order.
LEMMA OrderStep ==
  ASSUME IInv, LinkInv, WatchInv, LineInv, HeldInv, HistInv, OrderInv,
         [FlowNext]_fvars
  PROVE  OrderInv'
<1>0. TypeOK /\ overtaken \subseteq overtaken'
  BY HistStep DEF IInv
<1>1. ASSUME NEW p \in Callers, NEW a \in Accounts, NewRead(p, a)
      PROVE  OrderInv'
  <2>1. /\ \A q \in Callers \ {p} : call'[q] = call[q]
        /\ call[p].pc = "idle" /\ call'[p].pc = "read"
        /\ call'[p].account = a /\ call'[p].credential = stored[a]
        /\ stored[a] # None
        /\ UNCHANGED <<stored, activations, overtaken>>
    BY <1>0, <1>1, NewReadFields DEF files, outcomes, NewRead
  <2>2. ~InLine(p)
    BY <2>1 DEF LineInv
  <2>3. /\ \A r : InLine(r)' <=> InLine(r) \/ r = p
        /\ \A r, s : Before(r, s)' => Before(r, s) \/ (InLine(r) /\ s = p)
    BY <1>1, JoinsLine DEF NewRead, LineInv
  <2>4. Newest(p)' /\ ~Waits(p)'
    BY <2>1 DEF Newest, Waits
  <2>5. ASSUME NEW r \in Callers \ {p}
        PROVE  /\ Newest(r)' <=> Newest(r)
               /\ Ready(r)' <=> Ready(r)
               /\ Waits(r)' <=> Waits(r)
    BY <2>1, <2>3, <2>5 DEF Newest, Ready, Woken, Waits
  <2> SUFFICES ASSUME NEW r \in Callers, NEW s \in Callers, Ahead(r, s)',
                      call'[r].account = call'[s].account,
                      call'[r].account \notin overtaken', Newest(r)', s # p
               PROVE  Newest(s)'
    BY <2>4 DEF OrderInv
  <2>6. r # p
    <3>1. CASE Before(r, s)'
      BY <2>2, <2>3, <3>1 DEF InLine, Before
    <3>2. CASE Waits(r)'
      BY <2>4, <3>2
    <3> QED
      BY <3>1, <3>2 DEF Ahead
  <2>7. Ahead(r, s)
    BY <2>3, <2>5, <2>6 DEF Ahead
  <2> QED
    BY <2>1, <2>5, <2>6, <2>7 DEF OrderInv
<1>2. ASSUME \/ \E p \in Callers, a \in Accounts, c \in Credentials :
                  Authorizes(p, a, c)
             \/ \E a \in Accounts : Elsewhere(a)
      PROVE  OrderInv'
  <2>1. /\ \A r \in Callers : InLine(r) => call'[r] = call[r]
        /\ \A r \in Callers : Waits(r)' => InLine(r)
        /\ UNCHANGED <<line, activations, overtaken>>
    <3>1. ASSUME NEW p \in Callers, NEW a \in Accounts, NEW c \in Credentials,
                 Authorizes(p, a, c)
          PROVE  /\ \A r \in Callers : InLine(r) => call'[r] = call[r]
                 /\ \A r \in Callers : Waits(r)' => InLine(r)
                 /\ UNCHANGED <<line, activations, overtaken>>
      <4>1. /\ \A q \in Callers \ {p} : call'[q] = call[q]
            /\ call[p].pc = "idle" /\ call'[p].pc = "activate"
            /\ UNCHANGED <<line, activations, overtaken>>
        BY <1>0, <3>1, AuthorizeFields DEF flow, outcomes
      <4> QED
        BY <4>1 DEF LineInv, Waits
    <3>2. ASSUME NEW a \in Accounts, Elsewhere(a)
          PROVE  UNCHANGED <<call, line, activations, overtaken>>
      BY <3>2 DEF Elsewhere, StoreElsewhere, Remove, flow, outcomes
    <3> QED
      BY <1>2, <3>1, <3>2 DEF LineInv, Waits
  <2>2. /\ \A r : InLine(r)' <=> InLine(r)
        /\ \A r, s : Before(r, s)' <=> Before(r, s)
    BY <2>1, LineStays
  <2> SUFFICES ASSUME NEW r \in Callers, NEW s \in Callers, Ahead(r, s)',
                      call'[r].account = call'[s].account,
                      call'[r].account \notin overtaken', Newest(r)'
               PROVE  Newest(s)'
    BY DEF OrderInv
  <2>3. InLine(r) /\ InLine(s)
    BY <2>1, <2>2 DEF Ahead, Ready
  <2>4. call'[r] = call[r] /\ call'[s] = call[s]
    BY <2>1, <2>3
  <2>5. call[r].account \in Accounts /\ call[r].credential # None
        /\ call[r].credential \in everStored[call[r].account]
    BY <1>0, <2>3 DEF TypeOK, Calls, HeldInv, LineInv, IInv, CallsInv
  <2>6. stored'[call[r].account] = stored[call[r].account]
    BY <1>0, <1>2, <2>4, <2>5, StillStored DEF Newest
  <2>7. Ahead(r, s) /\ Newest(r)
    BY <2>1, <2>2, <2>4, <2>6 DEF Ahead, Ready, Waits, Woken, Newest
  <2> QED
    BY <2>1, <2>4, <2>6, <2>7 DEF OrderInv, Newest
<1>3. ASSUME NEW p \in Callers, Moves(p) PROVE OrderInv'
  BY <1>0, <1>3, OrderMove
<1>4. ASSUME NEW p \in Callers, Loads(p) PROVE OrderInv'
  BY <1>0, <1>4, OrderLoad
<1>5. CASE /\ UNCHANGED <<call, line, stored, overtaken>>
           /\ activations' \in {activations, Nothing}
  <2>1. /\ \A r : InLine(r)' <=> InLine(r)
        /\ \A r, s : Before(r, s)' <=> Before(r, s)
    BY <1>5, LineStays
  <2>2. \A r \in Callers : Waits(r)' => Waits(r)
    <3>1. ASSUME NEW r \in Callers, Waits(r)' PROVE Waits(r)
      <4>1. /\ call[r].on \in Callers /\ call[r].account \in Accounts
            /\ call[r].pc = "waiting"
        BY <1>0, <1>5, <3>1 DEF Waits, LinkInv, AwaitsItsLoad, TypeOK, Calls
      <4>2. activations' # Nothing
        BY <1>5, <3>1, <4>1, RegistryAssumption DEF Waits, Nothing
      <4> QED
        BY <1>5, <3>1, <4>2 DEF Waits
    <3> QED
      BY <3>1
  <2>3. \A r \in Callers :
          (Ready(r)' <=> Ready(r)) /\ (Newest(r)' <=> Newest(r))
    BY <1>5, <2>1 DEF Ready, Woken, Newest
  <2>4. \A r, s \in Callers : Ahead(r, s)' => Ahead(r, s)
    BY <2>1, <2>2, <2>3 DEF Ahead
  <2> QED
    BY <1>5, <2>3, <2>4 DEF OrderInv
<1>6. CASE \/ ControllerStarts \/ ControllerStarted \/ ControllerStops
           \/ ServiceStarts \/ ServiceStops \/ Aside
  BY <1>5, <1>6, ControllerFields DEF Aside, files, outcomes
<1> QED
  BY <1>1, <1>2, <1>3, <1>4, <1>6, FlowKinds

----------------------------------------------------------------------------
(* What calls can still load.                                              *)

\* A step that leaves the fingerprint and the registered load of an account
\* alone, and lets its calls return at most, makes none of them harmful.
LEMMA CleanStays ==
  ASSUME CleanInv, PhaseInv, TypeOK, LinkInv, phase = "up",
         NEW a \in Accounts \ overtaken,
         fingerprints'[a] = fingerprints[a], activations'[a] = activations[a],
         stored'[a] = stored[a], stored[a] # None, Reached(a)',
         \A r \in Callers : InLine(r)' <=> InLine(r),
         \A r \in Callers :
           \/ call'[r] = call[r] \/ call'[r].pc = "idle"
           \/ call'[r].account # a,
         activations[a] # None => call'[activations[a]] = call[activations[a]]
  PROVE  \A p \in Callers : call'[p].account = a => Newest(p)' \/ Harmless(p)'
<1>1. Reached(a)
  BY DEF Reached
<1>2. ASSUME NEW p \in Callers, call'[p].account = a, call'[p] = call[p]
      PROVE  Newest(p)' \/ Harmless(p)'
  <2>1. Newest(p) \/ Harmless(p)
    BY <1>1, <1>2 DEF CleanInv
  <2> QED
    BY <1>2, <2>1 DEF Newest, Harmless
<1>3. ASSUME NEW p \in Callers, call'[p].pc = "idle" PROVE Harmless(p)'
  BY <1>3 DEF Harmless
<1> QED
  BY <1>2, <1>3

\* A call whose turn it is begins no load of something older: the calls before
\* it have read nothing newer.
LEMMA CleanMove ==
  ASSUME IInv, LinkInv, LineInv, HeldInv, OrderInv, PhaseInv, CleanInv,
         overtaken \subseteq overtaken',
         NEW p \in Callers, Moves(p)
  PROVE  CleanInv'
<1> DEFINE b == call[p].account
<1>0. TypeOK /\ b \in Accounts
  BY DEF IInv, TypeOK, Calls
<1>1. /\ TurnEffect(p) /\ Turn(p) /\ Requeue(p)
      /\ call[p].pc \in {"read", "activate"} /\ Woken(p)
      /\ UNCHANGED <<stored, fingerprints, phase>>
  BY <1>0, MoveStep DEF files, maps, starts, Woken
<1>2. \A r \in Callers \ {p} : InLine(r)' <=> InLine(r)
  BY <1>1, RequeueStep DEF LineInv
<1>3. \A r \in Callers \ {p} : call'[r] = call[r]
  BY <1>1 DEF TurnEffect
<1> SUFFICES ASSUME phase = "up", NEW a \in Accounts \ overtaken',
                    stored[a] # None, Reached(a)',
                    NEW r \in Callers, call'[r].account = a
             PROVE  Newest(r)' \/ Harmless(r)'
  BY <1>1 DEF CleanInv
<1>4. /\ a \notin overtaken
      /\ Reached(a) => \A x \in Callers :
                         call[x].account = a => Newest(x) \/ Harmless(x)
  BY DEF CleanInv
<1>5. a = b /\ ~InLine(p) => Quiet /\ Newest(p)
  BY <1>0, TurnOutOfLine DEF Newest
<1>6. CASE UNCHANGED activations
  <2>1. Reached(a)
    <3>1. activations[a] # None => activations[a] \in Callers \ {p}
      BY <1>0, <1>1 DEF LinkInv, ActivationsInv, TypeOK
    <3> QED
      BY <1>1, <1>3, <1>6, <3>1 DEF Reached
  <2>2. CASE r # p
    <3>1. Newest(r) \/ Harmless(r)
      BY <1>3, <1>4, <2>1, <2>2
    <3> QED
      BY <1>1, <1>2, <1>3, <1>6, <2>2, <3>1 DEF Newest, Harmless
  <2>3. CASE r = p
    <3>1. CASE call'[p].pc \in {"idle", "joined"}
      BY <2>3, <3>1 DEF Harmless
    <3>2. CASE call'[p].pc = "waiting"
      <4>1. call'[p].account = b /\ call'[p].credential = call[p].credential
        BY <1>1, <3>2 DEF TurnEffect
      <4>2. InLine(p) => Newest(p)
        BY <1>1, <1>4, <2>1, <2>3, <4>1 DEF Harmless, Woken
      <4> QED
        BY <1>1, <1>5, <2>3, <4>1, <4>2 DEF Newest
    <3>3. call'[p].pc \in {"idle", "joined", "waiting"}
      BY <1>0, <1>1, <1>6, RegistryAssumption DEF TurnEffect, TypeOK
    <3> QED
      BY <3>1, <3>2, <3>3
  <2> QED
    BY <2>2, <2>3
<1>7. CASE /\ activations[b] = None
           /\ activations' = [activations EXCEPT ![b] = p]
           /\ call'[p].pc = "loading" /\ call'[p].account = b
           /\ call'[p].credential = call[p].credential
  <2>1. /\ activations'[b] = p
        /\ \A x \in Accounts \ {b} : activations'[x] = activations[x]
    BY <1>0, <1>7 DEF TypeOK
  <2>2. CASE a # b
    <3>1. r # p /\ call[r].account = a
      BY <1>3, <1>7, <2>2
    <3>2. activations[a] # None => activations[a] \in Callers \ {p}
      BY <1>0, <1>1 DEF LinkInv, ActivationsInv, TypeOK
    <3>3. Reached(a)
      BY <1>1, <1>3, <2>1, <2>2, <3>2 DEF Reached
    <3>4. Newest(r) \/ Harmless(r)
      BY <1>4, <3>1, <3>3
    <3> QED
      BY <1>1, <1>2, <1>3, <2>1, <2>2, <3>1, <3>4 DEF Newest, Harmless
  <2>3. CASE a = b
    <3>1. Newest(p)
      <4>1. CASE ~InLine(p)
        BY <1>5, <2>3, <4>1
      <4>2. CASE InLine(p) /\ fingerprints[a] = stored[a]
        BY <1>1, <1>4, <2>3, <4>2 DEF Reached, Harmless, Woken
      <4>3. CASE call[p].credential = stored[a]
        BY <2>3, <4>3 DEF Newest
      <4> QED
        BY <1>1, <1>7, <2>1, <2>3, <4>1, <4>2, <4>3 DEF Reached
    <3>2. CASE r = p
      BY <1>1, <1>7, <2>3, <3>1, <3>2 DEF Newest
    <3>3. CASE r # p
      <4>1. call'[r] = call[r] /\ (Newest(r)' <=> Newest(r))
        BY <1>1, <1>3, <3>3 DEF Newest
      <4>2. CASE call[r].pc \in {"idle", "joined"}
        BY <4>1, <4>2 DEF Harmless
      <4>3. CASE call[r].pc = "loading"
        BY <2>1, <2>3, <3>3, <4>1, <4>3 DEF Harmless
      <4>4. CASE call[r].pc = "waiting"
        <5>1. call[r].on # p
          BY <1>1, <4>4 DEF LinkInv, AwaitsItsLoad
        <5> QED
          BY <2>1, <2>3, <4>1, <4>4, <5>1 DEF Harmless
      <4>5. CASE Woken(r) /\ InLine(r)
        <5>1. InLine(p) /\ Before(p, r)
          BY <1>1, <1>5, <2>3, <3>3, <4>5, TurnFacts, QuietLine
        <5>2. Ahead(p, r)
          BY <1>1, <4>5, <5>1 DEF Ahead, Ready
        <5> QED
          BY <1>4, <2>3, <3>1, <4>1, <5>2 DEF OrderInv
      <4>6. CASE Woken(r) /\ ~InLine(r)
        <5>1. call[r].pc = "activate"
          BY <4>6 DEF Woken, LineInv
        <5> QED
          BY <1>2, <3>3, <4>1, <4>6, <5>1 DEF Harmless
      <4>7. call[r].pc \in {"idle", "joined", "loading", "waiting"} \/ Woken(r)
        BY <1>0 DEF TypeOK, Calls, Woken
      <4> QED
        BY <4>2, <4>3, <4>4, <4>5, <4>6, <4>7
    <3> QED
      BY <3>2, <3>3
  <2> QED
    BY <2>2, <2>3
<1> QED
  BY <1>1, <1>6, <1>7 DEF TurnEffect

\* The calls that a load of what is stored wakes would load the same.
LEMMA CleanLoad ==
  ASSUME IInv, LinkInv, LineInv, PhaseInv, CleanInv,
         overtaken \subseteq overtaken',
         NEW p \in Callers, Loads(p)
  PROVE  CleanInv'
<1> DEFINE b == call[p].account
<1>0. TypeOK /\ b \in Accounts
  BY DEF IInv, TypeOK, Calls
<1>1. /\ SettleEffect(p) /\ call[p].pc = "loading"
      /\ UNCHANGED <<line, stored, phase>>
  BY <1>0, LoadEnds DEF files, starts
<1>2. \A r : InLine(r)' <=> InLine(r)
  BY <1>1, LineStays
<1> SUFFICES ASSUME phase = "up", NEW a \in Accounts \ overtaken',
                    stored[a] # None, Reached(a)'
             PROVE  \A r \in Callers :
                      call'[r].account = a => Newest(r)' \/ Harmless(r)'
  BY <1>1 DEF CleanInv
<1>3. a \notin overtaken /\ FlowLoadSucceeds(p) => ~CutOff(p)
  BY DEF FlowLoadSucceeds
<1>4. fingerprints # NotStarted
  BY DEF PhaseInv
<1>5. \/ fingerprints' = fingerprints
      \/ fingerprints' = [fingerprints EXCEPT ![b] = call[p].credential]
  BY <1>0, <1>4, LoadFingers
<1>6. fingerprints \in RuntimeMaps
  BY <1>0, <1>4 DEF TypeOK
<1>7. CASE a # b
  <2>1. fingerprints'[a] = fingerprints[a]
    BY <1>5, <1>6, <1>7 DEF RuntimeMaps
  <2>2. activations[a] # p
    BY <1>0, <1>7, RegistryAssumption DEF LinkInv, ActivationsInv
  <2>3. activations'[a] = activations[a]
    BY <1>1, <2>2 DEF SettleEffect
  <2>4. activations[a] # None => call'[activations[a]] = call[activations[a]]
    <3>1. CASE activations[a] # None
      <4>1. activations[a] \in Callers /\ call[activations[a]].pc = "loading"
        BY <1>0, <3>1 DEF LinkInv, ActivationsInv, TypeOK
      <4> QED
        BY <1>1, <2>2, <4>1 DEF SettleEffect
    <3> QED
      BY <3>1
  <2>5. ASSUME NEW r \in Callers
        PROVE  \/ call'[r] = call[r] \/ call'[r].pc = "idle"
               \/ call'[r].account # a
    <3>1. call[r].pc = "waiting" /\ call[r].on = p => call[r].account = b
      BY DEF LinkInv, AwaitsItsLoad
    <3> QED
      BY <1>1, <1>7, <3>1 DEF SettleEffect
  <2> QED
    BY <1>0, <1>1, <1>2, <1>3, <2>1, <2>3, <2>4, <2>5, CleanStays
<1>8. CASE a = b
  <2>1. ~CutOff(p)
    BY <1>0, <1>8 DEF Loads, FlowLoadSucceeds, FlowLoadFails
  <2>2. activations[a] = p /\ activations'[a] = None
    BY <1>1, <1>8, <2>1 DEF CutOff, SettleEffect
  <2>3. Reached(a)
    <3>1. fingerprints'[a] = stored[a]
      BY <1>1, <2>2 DEF Reached
    <3>2. fingerprints'[a] \in {fingerprints[a], call[p].credential}
      BY <1>5, <1>6, <1>8 DEF RuntimeMaps
    <3> QED
      BY <2>2, <3>1, <3>2, RegistryAssumption DEF Reached
  <2> SUFFICES ASSUME NEW r \in Callers, call'[r].account = a
               PROVE  Newest(r)' \/ Harmless(r)'
    OBVIOUS
  <2>4. CASE r = p \/ (call[r].pc = "joined" /\ call[r].on = p)
    BY <1>1, <2>4 DEF SettleEffect, Harmless
  <2>5. CASE r # p /\ call[r].pc = "waiting" /\ call[r].on = p
    <3>1. call'[r].account = call[r].account
          /\ call'[r].credential = call[r].credential
      BY <1>1, <2>5 DEF SettleEffect
    <3>2. Newest(r) \/ Harmless(r)
      BY <1>3, <2>3, <3>1 DEF CleanInv
    <3>3. Newest(r)
      BY <2>2, <2>5, <3>1, <3>2 DEF Harmless
    <3> QED
      BY <1>1, <3>1, <3>3 DEF Newest
  <2>6. CASE call'[r] = call[r]
    <3>1. Newest(r) \/ Harmless(r)
      BY <1>3, <2>3, <2>6 DEF CleanInv
    <3>2. call[r].pc = "waiting" => call[r].on # None
      BY RegistryAssumption DEF LinkInv, AwaitsItsLoad
    <3> QED
      BY <1>1, <1>2, <2>2, <2>6, <3>1, <3>2, RegistryAssumption
         DEF Newest, Harmless
  <2> QED
    BY <1>1, <2>4, <2>5, <2>6 DEF SettleEffect
<1> QED
  BY <1>7, <1>8

\* What is stored anew is neither loaded nor in flight.
LEMMA CleanStored ==
  ASSUME IInv, LinkInv, LineInv, HeldInv, PhaseInv, FingerInv, CleanInv,
         \/ \E p \in Callers, a \in Accounts, c \in Credentials :
              Authorizes(p, a, c)
         \/ \E a \in Accounts : Elsewhere(a)
  PROVE  CleanInv'
<1>0. TypeOK
  BY DEF IInv
<1>1. /\ \A r \in Callers :
           \/ call'[r] = call[r]
           \/ ~InLine(r) /\ call[r].pc = "idle" /\ call'[r].pc = "activate"
      /\ UNCHANGED <<maps, activations, starts, line, overtaken>>
  <2>1. ASSUME NEW p \in Callers, NEW a \in Accounts, NEW c \in Credentials,
               Authorizes(p, a, c)
        PROVE  /\ \A r \in Callers :
                    \/ call'[r] = call[r]
                    \/ ~InLine(r) /\ call[r].pc = "idle"
                       /\ call'[r].pc = "activate"
               /\ UNCHANGED <<maps, activations, starts, line, overtaken>>
    <3>1. /\ \A q \in Callers \ {p} : call'[q] = call[q]
          /\ call[p].pc = "idle" /\ call'[p].pc = "activate"
          /\ UNCHANGED <<maps, activations, starts, flow>>
      BY <1>0, <2>1, AuthorizeFields
    <3>2. ~InLine(p)
      BY <3>1 DEF LineInv
    <3> QED
      BY <3>1, <3>2 DEF flow, outcomes
  <2>2. ASSUME NEW a \in Accounts, Elsewhere(a)
        PROVE  UNCHANGED <<call, maps, activations, starts, line, overtaken>>
    BY <2>2 DEF Elsewhere, StoreElsewhere, Remove, flow, outcomes
  <2> QED
    BY <2>1, <2>2
<1>2. \A r : InLine(r)' <=> InLine(r)
  BY <1>1, LineStays
<1> SUFFICES ASSUME phase = "up", NEW a \in Accounts \ overtaken,
                    stored'[a] # None, Reached(a)',
                    NEW r \in Callers, call'[r].account = a
             PROVE  Newest(r)' \/ Harmless(r)'
  BY <1>1 DEF CleanInv, starts
<1>3. /\ fingerprints # NotStarted /\ UNCHANGED <<fingerprints, activations>>
      /\ activations[a] # None =>
           /\ activations[a] \in Callers /\ call[activations[a]].pc = "loading"
           /\ call[activations[a]].account = a
           /\ call'[activations[a]] = call[activations[a]]
  BY <1>0, <1>1 DEF PhaseInv, LinkInv, ActivationsInv, TypeOK, maps
<1>4. stored'[a] \in everStored[a]
  <2>1. CASE fingerprints[a] = stored'[a]
    BY <1>3, <2>1 DEF FingerInv, Isolated
  <2>2. CASE /\ activations[a] # None
             /\ call[activations[a]].credential = stored'[a]
    BY <1>3, <2>2 DEF IInv, CallsInv, HeldInv
  <2> QED
    BY <1>3, <2>1, <2>2 DEF Reached
<1>5. stored'[a] = stored[a]
  BY <1>0, <1>4, StillStored
<1>6. Reached(a)
  BY <1>3, <1>5 DEF Reached
<1>7. CASE call'[r] = call[r]
  <2>1. Newest(r) \/ Harmless(r)
    BY <1>5, <1>6, <1>7 DEF CleanInv
  <2> QED
    BY <1>2, <1>3, <1>5, <1>7, <2>1 DEF Newest, Harmless
<1>8. CASE ~InLine(r) /\ call'[r].pc = "activate"
  BY <1>2, <1>8 DEF Harmless
<1> QED
  BY <1>1, <1>7, <1>8

\* Every step keeps older credentials from being loaded.
LEMMA CleanStep ==
  ASSUME IInv, LinkInv, WatchInv, LineInv, HeldInv, HistInv, PhaseInv,
         FingerInv, OrderInv, CleanInv, [FlowNext]_fvars
  PROVE  CleanInv'
<1>0. TypeOK /\ overtaken \subseteq overtaken'
  BY HistStep DEF IInv
<1>1. ASSUME NEW p \in Callers, NEW b \in Accounts, NewRead(p, b)
      PROVE  CleanInv'
  <2>1. /\ \A q \in Callers \ {p} : call'[q] = call[q]
        /\ call[p].pc = "idle" /\ call'[p].pc = "read"
        /\ call'[p].account = b /\ call'[p].credential = stored[b]
        /\ stored[b] # None
        /\ UNCHANGED <<stored, fingerprints, activations, phase, overtaken>>
    BY <1>0, <1>1, NewReadFields DEF files, maps, starts, outcomes, NewRead
  <2>2. \A r \in Callers \ {p} : InLine(r)' <=> InLine(r)
    BY <1>1, JoinsLine DEF NewRead, LineInv
  <2> SUFFICES ASSUME phase = "up", NEW a \in Accounts \ overtaken,
                      stored[a] # None, Reached(a)',
                      NEW r \in Callers, call'[r].account = a, r # p
               PROVE  Newest(r)' \/ Harmless(r)'
    BY <2>1 DEF CleanInv, Newest
  <2>3. activations[a] # None => activations[a] \in Callers \ {p}
    BY <1>0, <2>1 DEF LinkInv, ActivationsInv, TypeOK
  <2>4. Reached(a)
    BY <2>1, <2>3 DEF Reached
  <2>5. Newest(r) \/ Harmless(r)
    BY <2>1, <2>4 DEF CleanInv
  <2> QED
    BY <2>1, <2>2, <2>5 DEF Newest, Harmless
<1>2. CASE ControllerStarted /\ phase' = "up"
  <2>1. /\ Quiet /\ phase # "up"
        /\ UNCHANGED <<call, line, overtaken>>
    BY <1>2 DEF ControllerStarted, StartEnds
  <2> SUFFICES ASSUME NEW a \in Accounts \ overtaken,
                      NEW r \in Callers, call'[r].account = a
               PROVE  Harmless(r)'
    BY <2>1 DEF CleanInv
  <2>2. activations = Nothing
    BY <2>1 DEF PhaseInv
  <2>3. activations' = Nothing
    BY <1>2, <2>2, ControllerFields
  <2>4. activations'[a] = None
    BY <2>3 DEF Nothing
  <2>5. call[r].pc = "activate" => ~InLine(r)
    BY <2>1, QuietLine DEF Woken
  <2>6. call[r].pc # "read"
    BY <2>1, QuietLine DEF Woken, LineInv
  <2>7. call[r].pc = "waiting" => call[r].on # None
    BY RegistryAssumption DEF LinkInv, AwaitsItsLoad
  <2>8. call[r].pc \in {"idle", "joined", "activate", "loading", "waiting"}
    BY <1>0, <2>6 DEF TypeOK, Calls
  <2>9. ~InLine(r) => ~InLine(r)'
    BY <2>1, LineStays
  <2> QED
    BY <2>1, <2>4, <2>5, <2>7, <2>8, <2>9, RegistryAssumption DEF Harmless
<1>3. CASE phase' # "up"
  BY <1>3 DEF CleanInv
<1>4. CASE UNCHANGED <<stored, fingerprints, activations, phase, call, line,
                       overtaken>>
  <2>1. \A r : InLine(r)' <=> InLine(r)
    BY <1>4, LineStays
  <2>2. \A r \in Callers :
          (Newest(r)' <=> Newest(r)) /\ (Harmless(r)' <=> Harmless(r))
    BY <1>4, <2>1 DEF Newest, Harmless
  <2> QED
    BY <1>4, <2>2 DEF CleanInv, Reached
<1>5. CASE ControllerStarts \/ ControllerStops
  BY <1>3, <1>4, <1>5
     DEF ControllerStarts, ControllerStops, Start, StartLoads, Stop
<1>6. CASE ServiceStarts \/ ServiceStops \/ Aside
  <2>1. UNCHANGED <<call, line, overtaken, stored, activations, maps, starts>>
    BY <1>6 DEF ServiceStarts, ServiceStops, Aside, vars, files, outcomes
  <2> QED
    BY <1>4, <2>1 DEF maps, starts
<1>7. ASSUME NEW p \in Callers, Moves(p) PROVE CleanInv'
  BY <1>0, <1>7, CleanMove
<1>8. ASSUME NEW p \in Callers, Loads(p) PROVE CleanInv'
  BY <1>0, <1>8, CleanLoad
<1> QED
  BY <1>1, <1>2, <1>3, <1>5, <1>6, <1>7, <1>8, FlowKinds, CleanStored

----------------------------------------------------------------------------
(* What is handed over and what is observed.                               *)

\* Every step that replaces a fingerprint hands the credential over.
LEMMA HandedStep ==
  ASSUME IInv, WatchInv, ServedInv, PhaseInv, HandedInv,
         overtaken \subseteq overtaken', [FlowNext]_fvars
  PROVE  HandedInv'
<1>0. TypeOK
  BY DEF IInv
<1>1. ASSUME NEW p \in Callers, Moves(p) PROVE HandedInv'
  <2> DEFINE b == call[p].account
  <2>1. UNCHANGED <<fingerprints, phase>> /\ b \in Accounts
    BY <1>0, <1>1, MoveStep DEF maps, starts, TypeOK, Calls
  <2>2. CASE UNCHANGED served
    BY <2>1, <2>2 DEF HandedInv
  <2>3. CASE FlowActivateStored(p) /\ Current(p) # None
    <3>1. /\ HandOver(b, Current(p))
          /\ b \notin overtaken' => Current(p) = call[p].credential
          /\ fingerprints[b] = call[p].credential
      BY <2>1, <2>3 DEF FlowActivateStored, Current
    <3> QED
      BY <2>1, <3>1 DEF HandOver, HandedInv, ServedInv, RuntimeMaps
  <2> QED
    BY <1>1, <2>2, <2>3 DEF Moves, FlowActivate, FlowActivateStored
<1>2. ASSUME NEW p \in Callers, Loads(p) PROVE HandedInv'
  <2> DEFINE b == call[p].account
             c == call[p].credential
  <2>1. UNCHANGED phase /\ b \in Accounts
    BY <1>0, <1>2, LoadEnds DEF starts, TypeOK, Calls
  <2> SUFFICES ASSUME phase = "up" PROVE HandedInv'
    BY <2>1 DEF HandedInv
  <2>2. fingerprints # NotStarted /\ fingerprints \in RuntimeMaps
    BY <1>0 DEF PhaseInv, TypeOK
  <2>3. CASE FlowLoadSucceeds(p) /\ MailboxFree(p)
    <3>1. /\ served' = [served EXCEPT ![b] = c]
          /\ fingerprints' = [fingerprints EXCEPT ![b] = c]
      BY <2>2, <2>3 DEF FlowLoadSucceeds, HandOver, LoadSucceeds, Install
    <3> QED
      BY <2>1, <2>2, <3>1 DEF HandedInv, ServedInv, RuntimeMaps
  <2>4. CASE UNCHANGED <<served, fingerprints>>
    BY <2>1, <2>4 DEF HandedInv
  <2>5. CASE FlowLoadSucceeds(p) /\ ~MailboxFree(p)
    BY <2>4, <2>5 DEF FlowLoadSucceeds, LoadSucceeds, Install, maps
  <2>6. CASE FlowLoadFails(p)
    BY <2>4, <2>6 DEF FlowLoadFails, LoadFails, maps
  <2> QED
    BY <1>2, <2>3, <2>5, <2>6 DEF Loads
<1>3. CASE ControllerStarted
  BY <1>3 DEF ControllerStarted, StartEnds, HandedInv
<1>4. CASE phase' # "up"
  BY <1>4 DEF HandedInv
<1>5. CASE UNCHANGED <<served, fingerprints, phase>>
  BY <1>5 DEF HandedInv
<1>6. CASE ControllerStarts \/ ControllerStops
  BY <1>4, <1>6 DEF ControllerStarts, ControllerStops, Start, StartLoads, Stop
<1>7. CASE ServiceStarts \/ ServiceStops \/ Aside
  BY <1>5, <1>7 DEF ServiceStarts, ServiceStops, Aside, vars, maps, starts
<1>8. ASSUME NEW p \in Callers, NEW a \in Accounts, NewRead(p, a)
      PROVE  HandedInv'
  BY <1>0, <1>5, <1>8, NewReadFields DEF maps, starts
<1>9. ASSUME NEW p \in Callers, NEW a \in Accounts, NEW c \in Credentials,
             Authorizes(p, a, c)
      PROVE  HandedInv'
  BY <1>0, <1>5, <1>9, AuthorizeFields DEF maps, starts, flow
<1>10. ASSUME NEW a \in Accounts, Elsewhere(a) PROVE HandedInv'
  BY <1>5, <1>10 DEF Elsewhere, StoreElsewhere, Remove, maps, starts, flow
<1> QED
  BY <1>1, <1>2, <1>3, <1>6, <1>7, <1>8, <1>9, <1>10, FlowKinds

\* Only the end of a call observes a credential.
LEMMA ObservedFields ==
  ASSUME IInv, WatchInv, [FlowNext]_fvars,
         ~ \E p \in Callers : Moves(p) \/ Loads(p)
  PROVE  \A a \in Accounts : observed'[a] \in {observed[a], None}
<1>1. CASE UNCHANGED observed
  BY <1>1
<1>2. CASE \E b \in Accounts : GetFingerprint(b)
  BY <1>2 DEF GetFingerprint, WatchInv, RuntimeMaps
<1>3. CASE ControllerStops
  BY <1>3 DEF ControllerStops, Nothing
<1> QED
  BY <1>1, <1>2, <1>3
     DEF FlowNext, FlowProgress, Moves, Loads, Watch, BeginCheck,
         MatchFingerprint, ToolReads, BusNotifies, Authorizes, Elsewhere,
         ServiceStarts, ServiceStops, ControllerStarts, ControllerStarted,
         flow, watching, fvars

\* The watcher observes what its call was about.
LEMMA ObserveFields ==
  ASSUME TypeOK, LinkInv, WatchInv, CheckInv, NEW p \in Callers,
         Moves(p) \/ Loads(p), NEW known, Observe(call[p].account, known),
         NEW a \in Accounts
  PROVE  \/ observed'[a] = observed[a]
         \/ /\ known /\ a = call[p].account
            /\ observed'[a] = call[p].credential
<1>1. Watcher \in Callers
  BY FlowAssumption, RegistryAssumption
<1>2. CASE ~WatcherReturns
  BY <1>2 DEF Observe
<1>3. CASE WatcherReturns
  <2>1. call[Watcher].pc # "idle" /\ call'[Watcher].pc = "idle"
    BY <1>3 DEF WatcherReturns
  <2>2. watch.fingerprint = call[Watcher].credential
    BY <2>1 DEF CheckInv
  <2>3. call[Watcher].credential = call[p].credential
    <3>1. CASE Moves(p)
      <4>1. TurnEffect(p)
        BY <3>1, MoveStep
      <4> QED
        BY <1>1, <2>1, <4>1 DEF TurnEffect
    <3>2. CASE Loads(p)
      <4>1. SettleEffect(p)
        BY <3>2, LoadEnds
      <4>2. \/ Watcher = p
            \/ call[Watcher].pc = "joined" /\ call[Watcher].on = p
        BY <1>1, <2>1, <4>1 DEF SettleEffect
      <4> QED
        BY <1>1, <4>2 DEF LinkInv, AwaitsItsLoad
    <3> QED
      BY <3>1, <3>2
  <2>4. observed' = IF known
                    THEN [observed EXCEPT
                           ![call[p].account] = watch.fingerprint]
                    ELSE observed
    BY <1>3 DEF Observe
  <2> QED
    BY <2>2, <2>3, <2>4 DEF WatchInv, RuntimeMaps
<1> QED
  BY <1>2, <1>3

\* Every step keeps what is observed in use, or refused.
LEMMA ObservedStep ==
  ASSUME IInv, LinkInv, WatchInv, HeldInv, PhaseInv, CheckInv, CleanInv,
         ObservedInv,
         overtaken \subseteq overtaken', refused \subseteq refused',
         [FlowNext]_fvars
  PROVE  ObservedInv'
<1>0. TypeOK
  BY DEF IInv
<1>1. ASSUME NEW p \in Callers, Moves(p) PROVE ObservedInv'
  <2> DEFINE b == call[p].account
  <2>1. UNCHANGED <<stored, fingerprints, service>>
    BY <1>0, <1>1, MoveStep DEF files, maps
  <2>2. Observe(b, FlowActivateStored(p) /\ Current(p) # None)
    BY <1>1 DEF Moves, FlowActivate, FlowActivateStored, Activate,
                ActivateStored, Observe
  <2>3. Current(p) # None => fingerprints[b] = call[p].credential
    BY DEF Current
  <2>4. \A a \in Accounts : \/ observed'[a] = observed[a]
                            \/ observed'[a] = fingerprints[a]
    BY <1>0, <1>1, <2>2, <2>3, ObserveFields
  <2> QED
    BY <2>1, <2>4 DEF ObservedInv
<1>2. ASSUME NEW p \in Callers, Loads(p) PROVE ObservedInv'
  <2> DEFINE b == call[p].account
             c == call[p].credential
  <2>1. /\ UNCHANGED <<stored, service>> /\ b \in Accounts
        /\ call[p].pc = "loading"
    BY <1>0, <1>2, LoadEnds DEF files, TypeOK, Calls
  <2> SUFFICES ASSUME service = "up", NEW a \in Accounts \ overtaken',
                      stored[a] # None, observed'[a] = stored[a]
               PROVE  stored[a] \in refused' \/ fingerprints'[a] = stored[a]
    BY <2>1 DEF ObservedInv
  <2>2. /\ phase = "up" /\ fingerprints # NotStarted
        /\ fingerprints \in RuntimeMaps
    BY <1>0 DEF PhaseInv, TypeOK
  <2>3. \/ fingerprints' = fingerprints
        \/ fingerprints' = [fingerprints EXCEPT ![b] = c]
    BY <1>0, <1>2, <2>2, LoadFingers
  <2>4. CASE observed'[a] = observed[a]
    <3>1. CASE stored[a] \in refused
      BY <3>1
    <3>2. CASE fingerprints[a] = stored[a] /\ a # b
      BY <2>2, <2>3, <3>2 DEF RuntimeMaps
    <3>3. CASE fingerprints[a] = stored[a] /\ a = b
      <4>1. ~CutOff(p)
        BY <1>2, <2>1, <3>3 DEF Loads, FlowLoadSucceeds, FlowLoadFails
      <4>2. Newest(p) \/ Harmless(p)
        BY <2>2, <3>3 DEF CleanInv, Reached
      <4>3. Newest(p)
        BY <2>1, <4>1, <4>2 DEF CutOff, Harmless
      <4> QED
        BY <2>2, <2>3, <3>3, <4>3 DEF Newest, RuntimeMaps
    <3> QED
      BY <2>4, <3>1, <3>2, <3>3 DEF ObservedInv
  <2>5. CASE observed'[a] # observed[a]
    <3>1. CASE FlowLoadSucceeds(p)
      <4>1. Observe(b, MailboxFree(p) /\ fingerprints # NotStarted)
        BY <3>1 DEF FlowLoadSucceeds
      <4>2. MailboxFree(p) /\ a = b /\ observed'[a] = c
        BY <1>0, <1>2, <2>5, <4>1, ObserveFields
      <4>3. fingerprints' = [fingerprints EXCEPT ![b] = c]
        BY <2>2, <3>1, <4>2 DEF FlowLoadSucceeds, LoadSucceeds, Install
      <4> QED
        BY <2>2, <4>2, <4>3 DEF RuntimeMaps
    <3>2. CASE FlowLoadFails(p)
      <4>1. PICK known \in BOOLEAN :
              Observe(b, known) /\ (known => refused' = refused \union {c})
        BY <3>2 DEF FlowLoadFails
      <4>2. known /\ observed'[a] = c
        BY <1>0, <1>2, <2>5, <4>1, ObserveFields
      <4> QED
        BY <4>1, <4>2
    <3> QED
      BY <1>2, <3>1, <3>2 DEF Loads
  <2> QED
    BY <2>4, <2>5
<1>3. CASE /\ ~ \E p \in Callers : Moves(p) \/ Loads(p)
           /\ \A a \in Accounts :
                stored'[a] # None /\ stored'[a] \in everStored[a] =>
                  stored'[a] = stored[a]
           /\ UNCHANGED <<fingerprints, service>>
  <2> SUFFICES ASSUME service = "up", NEW a \in Accounts \ overtaken',
                      stored'[a] # None, observed'[a] = stored'[a]
               PROVE  stored'[a] \in refused' \/ fingerprints[a] = stored'[a]
    BY <1>3 DEF ObservedInv
  <2>1. observed'[a] = observed[a]
    BY <1>3, ObservedFields
  <2>2. observed[a] \in everStored[a]
    BY <2>1 DEF CheckInv, Isolated
  <2>3. stored'[a] = stored[a]
    BY <1>3, <2>1, <2>2
  <2> QED
    BY <2>1, <2>3 DEF ObservedInv
<1>4. CASE service' # "up"
  BY <1>4 DEF ObservedInv
<1>5. CASE ServiceStarts
  <2>1. observed' = Nothing
    BY <1>5 DEF ServiceStarts, CheckInv
  <2> QED
    BY <2>1 DEF ObservedInv, Nothing
<1>6. CASE ControllerStarts \/ ControllerStarted
  <2>1. service = "up" => FALSE
    BY <1>6 DEF ControllerStarts, ControllerStarted, Start, StartLoads,
                StartEnds, PhaseInv
  <2> QED
    BY <1>4, <1>6, <2>1 DEF ControllerStarts, ControllerStarted, flow, watching
<1>7. CASE ServiceStops \/ ControllerStops
  BY <1>4, <1>7 DEF ServiceStops, ControllerStops
<1>8. ASSUME ~ \E p \in Callers : Moves(p) \/ Loads(p),
             \/ \E p \in Callers, a \in Accounts : NewRead(p, a)
             \/ \E p \in Callers, a \in Accounts, c \in Credentials :
                  Authorizes(p, a, c)
             \/ \E a \in Accounts : Elsewhere(a)
             \/ Aside
      PROVE  ObservedInv'
  <2>1. CASE \/ \E p \in Callers, a \in Accounts, c \in Credentials :
                  Authorizes(p, a, c)
             \/ \E a \in Accounts : Elsewhere(a)
    <3>1. UNCHANGED <<fingerprints, service>>
      <4>1. ASSUME NEW p \in Callers, NEW a \in Accounts,
                   NEW c \in Credentials, Authorizes(p, a, c)
            PROVE  UNCHANGED <<fingerprints, service>>
        BY <1>0, <4>1, AuthorizeFields DEF maps, flow, watching
      <4> QED
        BY <2>1, <4>1
           DEF Elsewhere, StoreElsewhere, Remove, maps, flow, watching
    <3> QED
      BY <1>0, <1>3, <1>8, <2>1, <3>1, StillStored
  <2>2. CASE Aside \/ \E p \in Callers, a \in Accounts : NewRead(p, a)
    <3>1. UNCHANGED <<stored, fingerprints, service>>
      BY <1>0, <2>2, NewReadFields DEF Aside, maps, files
    <3> QED
      BY <1>3, <1>8, <3>1
  <2> QED
    BY <1>8, <2>1, <2>2
<1> QED
  BY <1>1, <1>2, <1>5, <1>6, <1>7, <1>8, FlowKinds

----------------------------------------------------------------------------
(* The accounts of a configuration.                                        *)

\* Taking the bindings of an Agent away changes nothing else.
LEMMA UnboundFields ==
  ASSUME NEW config \in Configs, NEW g
  PROVE  LET d == Unbound(config, g) IN
         /\ d.agents = config.agents /\ d.channels = config.channels
         /\ d.bindings = {x \in config.bindings : x.agent # g}
BY DEF Unbound, Configs

\* The mapping of another Agent is not touched by it.
LEMMA UnboundMapping ==
  ASSUME NEW config \in Configs, NEW g \in Agents, NEW h \in Agents, h # g,
         NEW b \in Bots
  PROVE  Mapped(Unbound(config, g), h, b) <=> Mapped(config, h, b)
<1> DEFINE d == Unbound(config, g)
<1>1. /\ d.agents = config.agents /\ d.channels = config.channels
      /\ d.bindings = {x \in config.bindings : x.agent # g}
  BY UnboundFields
<1> HIDE DEF d
<1>2. BotsOf(d, h) = BotsOf(config, h)
  BY <1>1 DEF BotsOf
<1>3. Mapped(d, h, b) <=> Mapped(config, h, b)
  BY <1>1, <1>2 DEF Mapped
<1> QED
  BY <1>3 DEF d

\* An Agent whose bindings are taken away is mapped to no Bot.
LEMMA UnboundNotMapped ==
  ASSUME NEW config \in Configs, NEW g \in Agents, NEW b \in Bots
  PROVE  ~Mapped(Unbound(config, g), g, b)
<1> DEFINE d == Unbound(config, g)
<1>1. d.bindings = {x \in config.bindings : x.agent # g}
  BY UnboundFields
<1> HIDE DEF d
<1>2. BotsOf(d, g) = {}
  BY <1>1 DEF BotsOf
<1>3. ~Mapped(d, g, b)
  BY <1>2 DEF Mapped
<1> QED
  BY <1>3 DEF d

\* An account's Agent is the only one mapped to its Bot, and to no other Bot.
LEMMA AccountAlone ==
  ASSUME NEW config, NEW a \in discoverPluginAccounts(config),
         NEW o \in discoverPluginAccounts(config),
         o.id = a.id \/ o.agent = a.agent
  PROVE  o = a
<1>1. /\ a \in PluginAccounts /\ o \in PluginAccounts /\ a.enabled /\ o.enabled
      /\ Mapped(config, a.agent, a.id) /\ Mapped(config, o.agent, o.id)
      /\ ownersByBot(config, a.id) = {a.agent}
      /\ ownersByBot(config, o.id) = {o.agent}
  BY DEF discoverPluginAccounts
<1>2. CASE o.agent = a.agent
  <2>1. {a.id} = {o.id}
    BY <1>1, <1>2 DEF Mapped
  <2> QED
    BY <1>1, <1>2, <2>1 DEF PluginAccounts
<1>3. CASE o.id = a.id
  BY <1>1, <1>3 DEF PluginAccounts
<1> QED
  BY <1>2, <1>3

\* Under every configuration each account is separate.
LEMMA EachSeparate ==
  ASSUME NEW config \in Configs, NEW b \in Bots
  PROVE  SeparateIn(config, b)
<1> DEFINE accounts == discoverPluginAccounts(config)
<1>1. ASSUME NEW a \in accounts, a.id = b
      PROVE  /\ \A o \in accounts : o.id = b \/ o.agent = a.agent => o = a
             /\ ToolsOffered(accounts, a.agent)
             /\ buildMailToolGuidance(accounts, a.agent) = "configured"
  <2>1. \A o \in accounts : o.id = b \/ o.agent = a.agent => o = a
    BY <1>1, AccountAlone
  <2>2. {o \in accounts : o.enabled /\ o.agent = a.agent} = {a}
    BY <2>1 DEF discoverPluginAccounts
  <2>3. Cardinality({a}) = 1
    BY FS_Singleton
  <2> QED
    BY <2>1, <2>2, <2>3
       DEF ToolsOffered, listByAgentId, buildMailToolGuidance
<1>2. ASSUME NEW g \in Agents, NEW a \in PluginAccounts,
             a.id = b, a.agent # g, ~Mapped(config, g, b)
      PROVE  a \in accounts <=>
               a \in discoverPluginAccounts(Unbound(config, g))
  <2>1. a.agent \in Agents
    BY DEF PluginAccounts
  <2>2. Mapped(Unbound(config, g), a.agent, b) <=> Mapped(config, a.agent, b)
    BY <1>2, <2>1, UnboundMapping
  <2>3. ownersByBot(Unbound(config, g), b) = ownersByBot(config, b)
    BY <1>2, UnboundMapping, UnboundNotMapped DEF ownersByBot
  <2> QED
    BY <1>2, <2>2, <2>3 DEF discoverPluginAccounts
<1> QED
  BY <1>1, <1>2 DEF SeparateIn

----------------------------------------------------------------------------
(* The invariant of the flow.                                              *)

\* What is observed is in use, with all it takes: which calls can still load
\* what, and in which order.
UseInv == /\ PhaseInv /\ CheckInv /\ FingerInv /\ OrderInv /\ CleanInv
          /\ HandedInv /\ ObservedInv

FlowInv == /\ IInv /\ LinkInv /\ ServedInv /\ WatchInv
           /\ LineInv /\ HeldInv /\ HistInv /\ UseInv

\* Nothing is loaded, handed over, observed or under way at first.
LEMMA FlowInitInv == FlowInit => FlowInv
<1> SUFFICES ASSUME FlowInit PROVE FlowInv
  OBVIOUS
<1>1. IInv /\ LinkInv
  BY InitInv, LinkInit DEF FlowInit
<1>2. ServedInv /\ WatchInv
  BY EmptyMap, NoCheckIsCheck DEF FlowInit, ServedInv, WatchInv
<1>3. /\ runtimes = NotStarted /\ fingerprints = NotStarted
      /\ activations = Nothing /\ phase = "down"
      /\ service = "down" /\ watch = NoCheck /\ observed = Nothing
      /\ line = <<>> /\ refused = {} /\ overtaken = {} /\ faults = 0
      /\ \A p \in Callers : call[p].pc = "idle"
  <2>1. NoCall.pc = "idle"
    BY DEF NoCall
  <2> QED
    BY <2>1 DEF FlowInit, Init
<1>4. LineInv /\ HeldInv /\ HistInv
  <2>1. \A r, s : ~InLine(r) /\ ~Before(r, s)
    BY <1>3 DEF InLine, Before
  <2>2. MaxFaults \in Nat
    BY FlowAssumption
  <2> QED
    BY <1>3, <2>1, <2>2 DEF LineInv, HeldInv, HistInv
<1>5. CheckInv
  <2>1. watch.pc = "idle"
    BY <1>3, NoCheckIsCheck DEF NoCheck
  <2>2. Watcher \in Callers
    BY FlowAssumption, RegistryAssumption
  <2> QED
    BY <1>3, <2>1, <2>2, EmptyMap DEF CheckInv
<1>6. OrderInv
  BY <1>3 DEF OrderInv, Ahead, Before, Ready, InLine, Waits
<1>7. PhaseInv /\ FingerInv /\ CleanInv /\ HandedInv /\ ObservedInv
  BY <1>3 DEF PhaseInv, FingerInv, CleanInv, HandedInv, ObservedInv
<1> QED
  BY <1>1, <1>2, <1>4, <1>5, <1>6, <1>7 DEF FlowInv, UseInv

\* Every step of the flow keeps the invariant.
LEMMA FlowNextInv == FlowInv /\ [FlowNext]_fvars => FlowInv'
<1> SUFFICES ASSUME FlowInv, [FlowNext]_fvars PROVE FlowInv'
  OBVIOUS
<1> USE DEF FlowInv, UseInv
<1>1. TypeOK
  BY DEF IInv
<1>2. IInv' /\ LinkInv'
  BY FlowStepIsRegistryStep, NextInv, LinkNext
<1>3. ServedInv' /\ WatchInv'
  BY WatchStep, ServedStep
<1>4. LineInv' /\ HeldInv'
  BY <1>1, LineStep, HeldStep
<1>5. /\ HistInv'
      /\ refused \subseteq refused' /\ overtaken \subseteq overtaken'
  BY <1>1, HistStep
<1>6. PhaseInv' /\ CheckInv' /\ FingerInv'
  BY <1>1, PhaseStep, CheckStep, FingerStep
<1>7. OrderInv' /\ CleanInv'
  BY OrderStep, CleanStep
<1>8. HandedInv' /\ ObservedInv'
  BY <1>5, HandedStep, ObservedStep
<1> QED
  BY <1>2, <1>3, <1>4, <1>5, <1>6, <1>7, <1>8

\* It holds in every reachable state.
THEOREM FlowInvariant == FlowSpec => []FlowInv
BY FlowInitInv, FlowNextInv, PTL DEF FlowSpec

(* Each variable of the flow only takes values of its kind: a check that is *)
(* under way, calls in line, at most MaxFaults failures.                    *)
THEOREM FlowTypeCorrect == FlowSpec => []FlowTypeOK
<1>1. FlowInv => FlowTypeOK
  BY DEF FlowInv, IInv, ServedInv, WatchInv, LineInv, HistInv, FlowTypeOK
<1> QED
  BY FlowInvariant, <1>1, PTL

(* No call of the process shares or waits for a load that is not in flight, *)
(* however stops, starts and the continuations of other calls come between. *)
THEOREM FlowAwaitsLoads == FlowSpec => []AwaitsItsLoad
<1>1. FlowInv => AwaitsItsLoad
  BY DEF FlowInv, LinkInv
<1> QED
  BY FlowInvariant, <1>1, PTL

(* A stored credential that the watcher has observed, and so will not try   *)
(* again, is what the account's runtime and its discovery loop use, unless  *)
(* the server refused it, the maps have come apart, or the account was      *)
(* overtaken.                                                               *)
THEOREM FlowObservedInUse == FlowSpec => []ObservedInUse
<1>1. FlowInv => ObservedInUse
  <2> SUFFICES ASSUME FlowInv, NEW a \in Accounts, Behind(a),
                      observed[a] = stored[a], FingerprintsMatch,
                      a \notin overtaken, stored[a] \notin refused
               PROVE  FALSE
    BY DEF ObservedInUse
  <2>1. /\ service = "up" /\ phase = "up" /\ stored[a] # None
        /\ runtimes # NotStarted /\ fingerprints # NotStarted
    BY DEF Behind, FlowInv, UseInv, PhaseInv
  <2>2. fingerprints[a] = stored[a] /\ served[a] = fingerprints[a]
    BY <2>1 DEF FlowInv, UseInv, ObservedInv, HandedInv
  <2>3. runtimes[a] = fingerprints[a]
    BY <2>1 DEF FingerprintsMatch
  <2> QED
    BY <2>2, <2>3 DEF Behind, InUse
<1> QED
  BY FlowInvariant, <1>1, PTL

(* The runtimes and the discovery loops of an account only use credentials  *)
(* stored for it, whichever path of index.ts, of the watcher or of a tool   *)
(* call they came by.                                                       *)
THEOREM FlowIsolated == FlowSpec => []AccountsIsolated
<1>1. FlowInv => AccountsIsolated
  BY DEF FlowInv, IInv, RuntimesInv, ServedInv, Isolated, RuntimesIsolated,
         AccountsIsolated
<1> QED
  BY FlowInvariant, <1>1, PTL

(* Whatever configuration an account comes from, it is one Agent's only     *)
(* account, and no Agent that is not mapped to its Bot makes a difference.  *)
THEOREM FlowAgentsSeparate == FlowSpec => []AgentsSeparate
<1>1. FlowInv => AgentsSeparate
  <2>1. FlowInv => catalog \subseteq Bots
    BY FlowAssumption DEF FlowInv, IInv, TypeOK
  <2> QED
    BY <2>1, EachSeparate DEF AgentsSeparate, Separate
<1> QED
  BY FlowInvariant, <1>1, PTL

(* No two accounts are served by runtimes of one mail account.              *)
THEOREM FlowMailboxesUnique == FlowSpec => []MailboxesUnique
<1>1. FlowInv => MailboxesUnique
  BY DEF FlowInv, IInv, RuntimesInv, MailboxesUnique
<1> QED
  BY FlowInvariant, <1>1, PTL

(* The event loop with its watcher only does what the registry allows: the  *)
(* registry's safety, proved for calls that go on in any order, is safety   *)
(* of the program.                                                          *)
THEOREM FlowIsRegistry == FlowSpec => Init /\ [][Next]_vars
<1>1. FlowInit => Init
  BY DEF FlowInit
<1>2. FlowInv /\ [FlowNext]_fvars => [Next]_vars
  BY FlowStepIsRegistryStep DEF FlowInv
<1> QED
  BY FlowInvariant, <1>1, <1>2, PTL DEF FlowSpec
=============================================================================
