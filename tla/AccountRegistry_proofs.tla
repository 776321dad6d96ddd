----------------------- MODULE AccountRegistry_proofs -----------------------
(***************************************************************************)
(* What PluginAccountRuntimeRegistry guarantees for every set of accounts, *)
(* credentials and callers, and any number of calls and restarts: each     *)
(* runtime holds a credential of its own account, and no two accounts      *)
(* share a mailbox.                                                        *)
(***************************************************************************)
EXTENDS AccountRegistry, TLAPS

\* Every credential in m was stored for the account it is held for.
Isolated(m) == \A a \in Accounts : m[a] # None => m[a] \in everStored[a]

\* The map in use, each map read before a load and the map start() collects.
RuntimesInv == runtimes # NotStarted => Isolated(runtimes)
                                        /\ assertUnique(runtimes)

CallsInv ==
  \A p \in Callers :
    /\ Isolated(call[p].current) /\ assertUnique(call[p].current)
    /\ call[p].credential # None =>
         call[p].credential \in everStored[call[p].account]

StoredInv == Isolated(stored) /\ Isolated(loaded)

IInv == TypeOK /\ RuntimesInv /\ CallsInv /\ StoredInv

----------------------------------------------------------------------------
(* Maps of runtimes.                                                       *)

\* The empty map is one of runtimes, isolated and unique; the mark of a
\* registry that is not started is no such map.
LEMMA EmptyMap ==
  /\ Nothing \in RuntimeMaps
  /\ Isolated(Nothing)
  /\ assertUnique(Nothing)
  /\ NotStarted \notin RuntimeMaps
  /\ None \notin Credentials /\ None \notin Callers
BY RegistryAssumption
   DEF Nothing, RuntimeMaps, Isolated, assertUnique, Loaded

\* A map stays isolated when more credentials have been stored.
LEMMA IsolatedGrows ==
  ASSUME NEW m, Isolated(m),
         \A a \in Accounts : everStored[a] \subseteq everStored'[a]
  PROVE  \A a \in Accounts : m[a] # None => m[a] \in everStored'[a]
BY DEF Isolated

\* Replacing one account's runtime after the check against the other accounts
\* leaves a map without a shared mailbox.
LEMMA InstallUnique ==
  ASSUME NEW m \in RuntimeMaps, assertUnique(m), NEW a \in Accounts,
         NEW c \in Credentials \union {None},
         NEW n, n = [m EXCEPT ![a] = c],
         \A b \in Loaded(n) \ {a} : MailboxOf[n[b]] # MailboxOf[c]
  PROVE  n \in RuntimeMaps /\ assertUnique(n)
<1>1. n \in RuntimeMaps /\ n[a] = c /\ \A b \in Accounts \ {a} : n[b] = m[b]
  BY DEF RuntimeMaps
<1>2. ASSUME NEW x \in Loaded(n), NEW y \in Loaded(n),
             MailboxOf[n[x]] = MailboxOf[n[y]], x # y
      PROVE  FALSE
  <2>1. CASE x = a
    BY <1>1, <1>2, <2>1
  <2>2. CASE y = a
    BY <1>1, <1>2, <2>2
  <2>3. CASE x # a /\ y # a
    <3>1. x \in Loaded(m) /\ y \in Loaded(m) /\ n[x] = m[x] /\ n[y] = m[y]
      BY <1>1, <1>2, <2>3 DEF Loaded
    <3> QED
      BY <1>2, <3>1 DEF assertUnique
  <2> QED
    BY <2>1, <2>2, <2>3
<1> QED
  BY <1>1, <1>2 DEF assertUnique

----------------------------------------------------------------------------
(* Calls.                                                                  *)

\* A caller between two calls holds no credential and no map.
LEMMA NoCallIsCall ==
  /\ NoCall \in Calls
  /\ NoCall.current = Nothing
  /\ NoCall.credential = None
<1> DEFINE a0 == CHOOSE a \in Accounts : TRUE
<1>1. a0 \in Accounts
  BY RegistryAssumption
<1>2. NoCall = [pc |-> "idle", account |-> a0, credential |-> None,
                on |-> None, current |-> Nothing]
  BY DEF NoCall
<1> HIDE DEF a0
<1> QED
  BY <1>1, <1>2, EmptyMap DEF Calls

\* What holds of every call still holds after an operation has settled.
LEMMA SettleStep ==
  ASSUME TypeOK, CallsInv, NEW p \in Callers, Settle(p)
  PROVE  /\ activations' \in [Accounts -> Callers \union {None}]
         /\ call' \in [Callers -> Calls]
         /\ \A q \in Callers :
              /\ call'[q].current \in {Nothing, call[q].current}
              /\ \/ call'[q].credential = None
                 \/ /\ call'[q].credential = call[q].credential
                    /\ call'[q].account = call[q].account
<1> USE DEF TypeOK
<1>1. activations' \in [Accounts -> Callers \union {None}]
  BY DEF Settle
<1>2. ASSUME NEW q \in Callers
      PROVE  /\ call'[q] \in Calls
             /\ call'[q].current \in {Nothing, call[q].current}
             /\ \/ call'[q].credential = None
                \/ /\ call'[q].credential = call[q].credential
                   /\ call'[q].account = call[q].account
  <2>1. CASE q = p \/ (call[q].pc = "joined" /\ call[q].on = p)
    <3>1. call'[q] = NoCall
      BY <2>1 DEF Settle
    <3> QED
      BY <3>1, NoCallIsCall
  <2>2. CASE ~(q = p \/ (call[q].pc = "joined" /\ call[q].on = p))
             /\ call[q].pc = "waiting" /\ call[q].on = p
    <3>1. call'[q] = [call[q] EXCEPT !.pc = "activate", !.on = None]
      BY <2>2 DEF Settle
    <3>2. call[q] \in Calls
      OBVIOUS
    <3> HIDE DEF TypeOK
    <3> QED
      BY <3>1, <3>2 DEF Calls
  <2>3. CASE ~(q = p \/ (call[q].pc = "joined" /\ call[q].on = p))
             /\ ~(call[q].pc = "waiting" /\ call[q].on = p)
    <3>1. call'[q] = call[q]
      BY <2>3 DEF Settle
    <3> QED
      BY <3>1
  <2> QED
    BY <2>1, <2>2, <2>3
<1>3. call' = [q \in Callers |-> call'[q]]
  BY DEF Settle
<1> QED
  BY <1>1, <1>2, <1>3

\* Entering activate keeps every call's account and credential, and the map a
\* new load is checked against is the one in use.
LEMMA EnterStep ==
  ASSUME TypeOK, NEW p \in Callers, Enter(p)
  PROVE  /\ activations' \in [Accounts -> Callers \union {None}]
         /\ call' \in [Callers -> Calls]
         /\ \A q \in Callers :
              /\ \/ call'[q].current \in {Nothing, call[q].current}
                 \/ runtimes # NotStarted /\ call'[q].current = runtimes
              /\ \/ call'[q].credential = None
                 \/ /\ call'[q].credential = call[q].credential
                    /\ call'[q].account = call[q].account
<1> USE DEF TypeOK
<1> DEFINE a == call[p].account
           o == activations[a]
<1>0. call[p] \in Calls /\ a \in Accounts /\ o \in Callers \union {None}
  BY DEF Calls
<1>1. CASE o # None
  <2>1. PICK pc \in {"joined", "waiting"} :
          call' = [call EXCEPT ![p] = [call[p] EXCEPT !.pc = pc, !.on = o]]
    BY <1>1 DEF Enter, Become
  <2>2. activations' = activations
    BY <1>1 DEF Enter
  <2> QED
    BY <1>0, <1>1, <2>1, <2>2 DEF Calls
<1>2. CASE o = None /\ runtimes = NotStarted
  <2>1. call' = [call EXCEPT ![p] = NoCall] /\ activations' = activations
    BY <1>2 DEF Enter
  <2> QED
    BY <1>0, <2>1, NoCallIsCall
<1>3. CASE o = None /\ runtimes # NotStarted
  <2>1. /\ call' = [call EXCEPT ![p] = [call[p] EXCEPT !.pc = "loading",
                                                       !.current = runtimes]]
        /\ activations' = [activations EXCEPT ![a] = p]
    BY <1>3 DEF Enter
  <2> QED
    BY <1>0, <1>3, <2>1 DEF Calls
<1> QED
  BY <1>1, <1>2, <1>3

----------------------------------------------------------------------------
(* The inductive invariant.                                                *)

\* The initial states: nothing is loaded, what is stored was stored.
LEMMA InitInv == Init => IInv
<1> SUFFICES ASSUME Init PROVE IInv
  OBVIOUS
<1> USE EmptyMap
<1>1. /\ catalog = Discovered
      /\ stored \in RuntimeMaps /\ loaded = Nothing
      /\ everStored = [a \in Accounts |-> {stored[a]} \ {None}]
      /\ runtimes = NotStarted /\ fingerprints = NotStarted
      /\ activations = Nothing
      /\ phase = "down" /\ toLoad = {}
      /\ calls = [p \in Callers |-> 0] /\ stops = 0
      /\ call = [p \in Callers |-> NoCall]
  BY DEF Init
<1>2. everStored \in [Accounts -> SUBSET Credentials]
      /\ \A a \in Accounts : stored[a] # None => stored[a] \in everStored[a]
  BY <1>1 DEF RuntimeMaps
<1>3. call \in [Callers -> Calls]
  BY <1>1, NoCallIsCall
<1>4. TypeOK
  BY <1>1, <1>2, <1>3, RegistryAssumption DEF TypeOK, Nothing
<1>5. RuntimesInv /\ CallsInv /\ StoredInv
  BY <1>1, <1>2, NoCallIsCall DEF RuntimesInv, CallsInv, StoredInv, Isolated
<1> QED
  BY <1>4, <1>5 DEF IInv

\* A step that stores nothing, replaces neither map and does not start or stop
\* the registry keeps the invariant if it changes calls as Settle or Enter do.
LEMMA CallStep ==
  ASSUME IInv, UNCHANGED <<files, phase, toLoad, loaded, stops>>,
         catalog' \in SUBSET Accounts, calls' \in [Callers -> 0 .. MaxCalls],
         activations' \in [Accounts -> Callers \union {None}],
         call' \in [Callers -> Calls],
         \A q \in Callers :
           /\ \/ call'[q].current \in {Nothing, call[q].current}
              \/ runtimes # NotStarted /\ call'[q].current = runtimes
           /\ \/ call'[q].credential = None
              \/ /\ call'[q].credential = call[q].credential
                 /\ call'[q].account = call[q].account
              \/ call'[q].credential \in everStored[call'[q].account],
         runtimes' \in RuntimeMaps \union {NotStarted},
         fingerprints' \in RuntimeMaps \union {NotStarted},
         runtimes' # NotStarted =>
           Isolated(runtimes') /\ assertUnique(runtimes')
  PROVE  IInv'
<1> USE EmptyMap
<1>1. TypeOK'
  BY DEF IInv, TypeOK, files
<1>2. RuntimesInv' /\ StoredInv'
  BY DEF IInv, RuntimesInv, StoredInv, Isolated, assertUnique, Loaded, files
<1>3. everStored' = everStored
  BY DEF files
<1>4. ASSUME NEW q \in Callers
      PROVE  /\ Isolated(call'[q].current) /\ assertUnique(call'[q].current)
             /\ call'[q].credential # None =>
                  call'[q].credential \in everStored[call'[q].account]
  BY <1>4 DEF IInv, CallsInv, RuntimesInv
<1>5. CallsInv'
  BY <1>3, <1>4 DEF CallsInv, Isolated, assertUnique, Loaded
<1> QED
  BY <1>1, <1>2, <1>5 DEF IInv

\* A load's result enters the map only under its own account and after the
\* check, so the map stays isolated and unique.
LEMMA LoadStep ==
  ASSUME IInv, NEW p \in Callers, LoadSucceeds(p) \/ LoadFails(p)
  PROVE  IInv'
<1> USE EmptyMap
<1> DEFINE a == call[p].account
           c == call[p].credential
           k == call[p].current
           m == Result(p)
<1>1. /\ a \in Accounts /\ c \in Credentials \union {None}
      /\ k \in RuntimeMaps /\ Isolated(k) /\ assertUnique(k)
      /\ c # None => c \in everStored[a]
  BY DEF IInv, TypeOK, Calls, CallsInv
<1>2. Settle(p) /\ UNCHANGED <<files, catalog, starts, calls>>
  BY DEF LoadSucceeds, LoadFails
<1>3. CASE Install(p)
  <2>1. CASE MailboxFree(p)
    <3>1. runtimes' = m
          /\ fingerprints' = IF fingerprints = NotStarted THEN NotStarted
                             ELSE [fingerprints EXCEPT ![a] = c]
      BY <1>3, <2>1 DEF Install
    <3>2. m \in RuntimeMaps /\ assertUnique(m)
      <4>1. /\ m = [k EXCEPT ![a] = c]
            /\ \A b \in Loaded(m) \ {a} : MailboxOf[m[b]] # MailboxOf[c]
        BY <2>1 DEF Result, MailboxFree
      <4> HIDE DEF m, k, a, c
      <4> QED
        BY <1>1, <4>1, InstallUnique
    <3>3. Isolated(m)
      BY <1>1 DEF Isolated, RuntimeMaps, Result
    <3>4. fingerprints' \in RuntimeMaps \union {NotStarted}
      BY <1>1, <3>1 DEF IInv, TypeOK, RuntimeMaps
    <3> HIDE DEF m
    <3> QED
      BY <1>2, <3>1, <3>2, <3>3, <3>4, SettleStep, CallStep
         DEF IInv, TypeOK, starts
  <2>2. CASE ~MailboxFree(p)
    <3>1. UNCHANGED maps
      BY <1>3, <2>2 DEF Install
    <3> QED
      BY <1>2, <3>1, SettleStep, CallStep
         DEF IInv, TypeOK, RuntimesInv, starts, maps
  <2> QED
    BY <2>1, <2>2
<1>4. CASE UNCHANGED maps
  BY <1>2, <1>4, SettleStep, CallStep
     DEF IInv, TypeOK, RuntimesInv, starts, maps
<1> QED
  BY <1>3, <1>4 DEF LoadSucceeds, LoadFails

\* Entering or leaving activate and activateStored loads nothing by itself.
LEMMA ActivateStep ==
  ASSUME IInv, NEW p \in Callers, Activate(p) \/ ActivateStored(p)
  PROVE  IInv'
<1> USE EmptyMap
<1>1. UNCHANGED <<files, catalog, maps, starts, calls>>
  BY DEF Activate, ActivateStored
<1>2. CASE Enter(p)
  BY <1>1, <1>2, EnterStep, CallStep
     DEF IInv, TypeOK, RuntimesInv, starts, maps
<1>3. CASE call' = [call EXCEPT ![p] = NoCall] /\ UNCHANGED activations
  <2>1. /\ call' \in [Callers -> Calls]
        /\ \A q \in Callers :
             /\ call'[q].current \in {Nothing, call[q].current}
             /\ \/ call'[q].credential = None
                \/ /\ call'[q].credential = call[q].credential
                   /\ call'[q].account = call[q].account
    BY <1>3, NoCallIsCall DEF IInv, TypeOK
  <2> QED
    BY <1>1, <1>3, <2>1, CallStep
       DEF IInv, TypeOK, RuntimesInv, starts, maps
<1> QED
  BY <1>2, <1>3 DEF Activate, ActivateStored

\* activateStored starts with a credential that is stored, of an account that
\* the catalog holds or is told of.
LEMMA ReadStep ==
  ASSUME IInv, NEW p \in Callers, NEW a \in Accounts, stored[a] # None,
         Read(p, a), catalog' \in SUBSET Accounts
  PROVE  IInv'
<1> USE EmptyMap
<1>1. /\ UNCHANGED <<files, maps, activations, starts>>
      /\ \/ calls' = calls
         \/ calls' = [calls EXCEPT ![p] = @ + 1] /\ calls[p] < MaxCalls
      /\ call' = [call EXCEPT ![p] = [NoCall EXCEPT !.pc = "read",
                     !.account = a, !.credential = stored[a]]]
      /\ stored[a] # None
  BY DEF Read, Begin
<1>2. calls' \in [Callers -> 0 .. MaxCalls]
  BY <1>1, RegistryAssumption DEF IInv, TypeOK
<1>3. stored[a] \in Credentials /\ stored[a] \in everStored[a]
  BY <1>1 DEF IInv, TypeOK, StoredInv, Isolated, RuntimeMaps
<1>4. NoCall \in Calls /\ call \in [Callers -> Calls]
  BY NoCallIsCall DEF IInv, TypeOK
<1>5. call' \in [Callers -> Calls]
  BY <1>1, <1>3, <1>4 DEF Calls
<1>6. \A q \in Callers :
        /\ call'[q].current \in {Nothing, call[q].current}
        /\ \/ /\ call'[q].credential = call[q].credential
              /\ call'[q].account = call[q].account
           \/ call'[q].credential \in everStored[call'[q].account]
  BY <1>1, <1>3, <1>4, NoCallIsCall DEF Calls
<1> QED
  BY <1>1, <1>2, <1>5, <1>6, CallStep
     DEF IInv, TypeOK, RuntimesInv, starts, maps

LEMMA ReadStoredStep ==
  ASSUME IInv, NEW p \in Callers, NEW a \in Accounts,
         ReadStored(p, a) \/ Notified(p, a)
  PROVE  IInv'
<1>1. catalog' \in SUBSET Accounts
  BY DEF ReadStored, Notified, Register, IInv, TypeOK
<1>2. CASE stored[a] # None /\ Read(p, a)
  BY <1>1, <1>2, ReadStep
<1>3. CASE UNCHANGED <<files, maps, activations, call, starts, calls>>
  BY <1>1, <1>3 DEF files, maps, starts, IInv, TypeOK, RuntimesInv, CallsInv,
                    StoredInv, Isolated, assertUnique, Loaded
<1> QED
  BY <1>2, <1>3 DEF ReadStored, Notified

\* storeCredential: the new credential is stored for the account from now on.
LEMMA AuthorizeStep ==
  ASSUME IInv, NEW p \in Callers, NEW a \in Accounts, NEW c \in Credentials,
         Authorize(p, a, c)
  PROVE  IInv'
<1> USE EmptyMap
<1>1. /\ UNCHANGED <<catalog, maps, activations, starts>>
      /\ \/ calls' = calls
         \/ calls' = [calls EXCEPT ![p] = @ + 1] /\ calls[p] < MaxCalls
      /\ call' = [call EXCEPT ![p] = [NoCall EXCEPT !.pc = "activate",
                     !.account = a, !.credential = c]]
      /\ stored' = [stored EXCEPT ![a] = c]
      /\ everStored' = [everStored EXCEPT ![a] = @ \union {c}]
  BY DEF Authorize, Begin, Store
<1>2. \A b \in Accounts : everStored[b] \subseteq everStored'[b]
  BY <1>1 DEF IInv, TypeOK
<1>3. calls' \in [Callers -> 0 .. MaxCalls]
  BY <1>1, RegistryAssumption DEF IInv, TypeOK
<1>4. NoCall \in Calls /\ call \in [Callers -> Calls]
  BY NoCallIsCall DEF IInv, TypeOK
<1>5. call' \in [Callers -> Calls]
  BY <1>1, <1>4 DEF Calls
<1>6. TypeOK'
  BY <1>1, <1>3, <1>5 DEF IInv, TypeOK, maps, starts, RuntimeMaps
<1>7. RuntimesInv'
  BY <1>1, <1>2 DEF IInv, RuntimesInv, Isolated, assertUnique, Loaded, maps
<1>8. StoredInv'
  <2>1. \A b \in Accounts : stored'[b] # None => stored'[b] \in everStored'[b]
    BY <1>1, <1>2 DEF IInv, TypeOK, StoredInv, Isolated, RuntimeMaps
  <2> QED
    BY <1>1, <1>2, <2>1 DEF IInv, StoredInv, Isolated, starts
<1>9. CallsInv'
  <2>1. ASSUME NEW q \in Callers
        PROVE  /\ call'[q].current \in {Nothing, call[q].current}
               /\ call'[q].credential # None =>
                    call'[q].credential \in everStored'[call'[q].account]
    <3>1. CASE q = p
      <4>1. call'[p] = [NoCall EXCEPT !.pc = "activate", !.account = a,
                                      !.credential = c]
        BY <1>1, <1>4
      <4>2. c \in everStored'[a]
        BY <1>1 DEF IInv, TypeOK
      <4> QED
        BY <1>4, <3>1, <4>1, <4>2, NoCallIsCall DEF Calls
    <3>2. CASE q # p
      <4>1. call'[q] = call[q] /\ call[q].account \in Accounts
        BY <1>1, <1>4, <3>2 DEF Calls
      <4> QED
        BY <1>2, <4>1 DEF IInv, CallsInv
    <3> QED
      BY <3>1, <3>2
  <2> QED
    BY <1>2, <2>1 DEF IInv, CallsInv, Isolated, assertUnique, Loaded
<1> QED
  BY <1>6, <1>7, <1>8, <1>9 DEF IInv

\* A credential stored by another process, or a file removed, changes no map.
LEMMA FileStep ==
  ASSUME IInv, NEW a \in Accounts,
         Remove(a) \/ \E c \in Credentials : StoreElsewhere(a, c)
  PROVE  IInv'
<1> USE EmptyMap
<1>1. UNCHANGED <<catalog, maps, activations, call, starts, calls>>
  BY DEF Remove, StoreElsewhere
<1>2. /\ \A b \in Accounts : everStored[b] \subseteq everStored'[b]
      /\ everStored' \in [Accounts -> SUBSET Credentials]
      /\ stored' \in RuntimeMaps
      /\ \A b \in Accounts : stored'[b] # None => stored'[b] \in everStored'[b]
  BY DEF Remove, StoreElsewhere, Store, IInv, TypeOK, StoredInv, Isolated,
         RuntimeMaps
<1>3. TypeOK'
  BY <1>1, <1>2 DEF IInv, TypeOK, maps, starts
<1>4. RuntimesInv' /\ StoredInv' /\ CallsInv'
  BY <1>1, <1>2 DEF IInv, TypeOK, Calls, RuntimesInv, StoredInv, CallsInv,
                    Isolated, assertUnique, Loaded, maps, starts
<1> QED
  BY <1>3, <1>4 DEF IInv

\* start() only collects credentials that are stored, and sets the map after
\* the check; stop() and a failed start() leave none.
LEMMA StartStopStep ==
  ASSUME IInv,
         Start \/ (\E a \in Accounts : StartLoads(a)) \/ StartEnds \/ Stop
  PROVE  IInv'
<1> USE EmptyMap
<1>1. UNCHANGED <<files, catalog, call, calls>>
  BY DEF Start, StartLoads, StartEnds, Stop
<1>2. CallsInv' /\ Isolated(stored)'
  BY <1>1 DEF IInv, CallsInv, StoredInv, Isolated, assertUnique, Loaded, files
<1>3. TypeOK' /\ RuntimesInv' /\ Isolated(loaded)'
  <2>1. CASE Start
    BY <1>1, <2>1 DEF Start, IInv, TypeOK, RuntimesInv, StoredInv, Isolated,
                      assertUnique, Loaded, files, maps, Nothing
  <2>2. CASE \E a \in Accounts : StartLoads(a)
    <3>1. PICK a \in Accounts : StartLoads(a)
      BY <2>2
    <3>2. PICK c \in {None, stored[a]} : loaded' = [loaded EXCEPT ![a] = c]
      BY <3>1 DEF StartLoads
    <3>3. loaded' \in RuntimeMaps
          /\ \A b \in Accounts : loaded'[b] # None =>
               loaded'[b] \in everStored[b]
      BY <3>2 DEF IInv, TypeOK, StoredInv, Isolated, RuntimeMaps
    <3> QED
      BY <1>1, <3>1, <3>3 DEF StartLoads, IInv, TypeOK, RuntimesInv, Isolated,
                              assertUnique, Loaded, files, maps
  <2>3. CASE StartEnds
    <3>1. /\ toLoad' = {} /\ loaded' = Nothing /\ stops' = stops
          /\ \/ /\ assertUnique(loaded) /\ phase' = "up"
                /\ runtimes' = loaded /\ fingerprints' = loaded
                /\ activations' = activations
             \/ /\ phase' = "down" /\ runtimes' = NotStarted
                /\ fingerprints' = NotStarted /\ activations' = Nothing
      BY <2>3 DEF StartEnds
    <3> QED
      BY <1>1, <3>1 DEF IInv, TypeOK, RuntimesInv, StoredInv, Isolated,
                        assertUnique, Loaded, files, Nothing
  <2>4. CASE Stop
    BY <1>1, <2>4, RegistryAssumption
       DEF Stop, IInv, TypeOK, RuntimesInv, StoredInv, Isolated, files, Nothing
  <2> QED
    BY <2>1, <2>2, <2>3, <2>4
<1> QED
  BY <1>2, <1>3 DEF IInv, StoredInv

\* Every step keeps the invariant: one case per action.
LEMMA NextInv == IInv /\ [Next]_vars => IInv'
<1> SUFFICES ASSUME IInv, [Next]_vars PROVE IInv'
  OBVIOUS
<1>1. CASE \E p \in Callers, a \in Accounts :
             \/ ReadStored(p, a) \/ Notified(p, a)
             \/ \E c \in Credentials : Authorize(p, a, c)
  BY <1>1, ReadStoredStep, AuthorizeStep
<1>2. CASE \E p \in Callers : Progress(p)
  BY <1>2, ActivateStep, LoadStep DEF Progress
<1>3. CASE Start \/ (\E a \in Accounts : StartLoads(a)) \/ StartEnds \/ Stop
  BY <1>3, StartStopStep
<1>4. CASE \E a \in Accounts :
             Remove(a) \/ \E c \in Credentials : StoreElsewhere(a, c)
  BY <1>4, FileStep
<1>5. CASE UNCHANGED vars
  BY <1>5 DEF vars, files, maps, starts, IInv, TypeOK, RuntimesInv, CallsInv,
              StoredInv, Isolated, assertUnique, Loaded
<1> QED
  BY <1>1, <1>2, <1>3, <1>4, <1>5 DEF Next

\* The inductive invariant holds in every reachable state.
THEOREM Invariant == Spec => []IInv
BY InitInv, NextInv, PTL DEF Spec

----------------------------------------------------------------------------
(* Who waits for whom.                                                     *)

\* The load registered for an account is one, and is of that account.
ActivationsInv ==
  \A a \in Accounts :
    activations[a] # None => /\ call[activations[a]].pc = "loading"
                             /\ call[activations[a]].account = a

LinkInv == ActivationsInv /\ AwaitsItsLoad

\* What a new call is.
LEMMA BeginFields ==
  ASSUME TypeOK, NEW p \in Callers, NEW a \in Accounts, NEW pc,
         NEW c \in Credentials, Begin(p, a, pc, c)
  PROVE  /\ \A q \in Callers \ {p} : call'[q] = call[q]
         /\ call[p].pc = "idle" /\ call'[p].pc = pc
         /\ call'[p].account = a /\ call'[p].credential = c
<1>1. call' = [call EXCEPT ![p] = [NoCall EXCEPT !.pc = pc, !.account = a,
                                                 !.credential = c]]
      /\ call[p].pc = "idle"
  BY DEF Begin
<1>2. NoCall \in Calls /\ call \in [Callers -> Calls]
  BY NoCallIsCall DEF TypeOK
<1> QED
  BY <1>1, <1>2 DEF Calls

\* What becomes of a call that enters activate: it takes part in the load that
\* is registered, waits for it, ends, or begins a load.
LEMMA EnterFields ==
  ASSUME TypeOK, NEW p \in Callers, Enter(p),
         NEW a, a = call[p].account, NEW q, q = activations[a]
  PROVE  /\ \A r \in Callers \ {p} : call'[r] = call[r]
         /\ \/ /\ q # None /\ UNCHANGED activations
               /\ call'[p].pc = IF call[q].credential = call[p].credential
                                THEN "joined" ELSE "waiting"
               /\ call'[p].account = a /\ call'[p].on = q
               /\ call'[p].credential = call[p].credential
            \/ /\ q = None /\ UNCHANGED activations
               /\ runtimes = NotStarted
               /\ call'[p].pc = "idle"
            \/ /\ q = None /\ activations' = [activations EXCEPT ![a] = p]
               /\ runtimes # NotStarted
               /\ call'[p].pc = "loading" /\ call'[p].account = a
               /\ call'[p].credential = call[p].credential
<1>1. call[p] \in Calls /\ call \in [Callers -> Calls] /\ NoCall.pc = "idle"
  BY DEF TypeOK, NoCall
<1>2. CASE q # None
  BY <1>1, <1>2 DEF Enter, Become, Calls
<1>3. CASE q = None /\ runtimes = NotStarted
  BY <1>1, <1>3 DEF Enter
<1>4. CASE q = None /\ runtimes # NotStarted
  BY <1>1, <1>4 DEF Enter, Calls
<1> QED
  BY <1>2, <1>3, <1>4

\* What becomes of the calls when a load has settled.
LEMMA SettleFields ==
  ASSUME TypeOK, NEW p \in Callers, Settle(p)
  PROVE  /\ \A a \in Accounts :
              activations'[a] = IF activations[a] = p THEN None ELSE activations[a]
         /\ \A r \in Callers :
              IF r = p \/ (call[r].pc = "joined" /\ call[r].on = p)
              THEN call'[r].pc = "idle"
              ELSE IF call[r].pc = "waiting" /\ call[r].on = p
              THEN /\ call'[r].pc = "activate"
                   /\ call'[r].account = call[r].account
                   /\ call'[r].credential = call[r].credential
              ELSE call'[r] = call[r]
<1>1. \A a \in Accounts :
        activations'[a] = IF activations[a] = p THEN None ELSE activations[a]
  BY DEF Settle
<1>2. ASSUME NEW r \in Callers
      PROVE  IF r = p \/ (call[r].pc = "joined" /\ call[r].on = p)
             THEN call'[r].pc = "idle"
             ELSE IF call[r].pc = "waiting" /\ call[r].on = p
             THEN /\ call'[r].pc = "activate"
                  /\ call'[r].account = call[r].account
                  /\ call'[r].credential = call[r].credential
             ELSE call'[r] = call[r]
  <2>1. call[r] \in Calls
    BY DEF TypeOK
  <2>2. NoCall.pc = "idle"
    BY DEF NoCall
  <2> QED
    BY <2>1, <2>2 DEF Settle, Calls
<1> QED
  BY <1>1, <1>2

\* A step that moves no call on and registers no load keeps the links.
LEMMA LinkQuiet ==
  ASSUME LinkInv, call' = call, activations' \in {activations, Nothing}
  PROVE  LinkInv'
BY DEF LinkInv, ActivationsInv, AwaitsItsLoad, Nothing

\* A new call waits for nothing, and nothing waits for a call that is idle.
LEMMA LinkBegin ==
  ASSUME LinkInv, TypeOK, NEW p \in Callers, NEW a \in Accounts,
         NEW pc \in {"read", "activate"}, NEW c \in Credentials,
         Begin(p, a, pc, c)
  PROVE  LinkInv'
<1>1. UNCHANGED activations
  BY DEF Begin
<1>2. /\ \A q \in Callers \ {p} : call'[q] = call[q]
      /\ call[p].pc = "idle" /\ call'[p].pc = pc
  BY BeginFields
<1>3. activations \in [Accounts -> Callers \union {None}]
  BY DEF TypeOK
<1> QED
  BY <1>1, <1>2, <1>3 DEF LinkInv, ActivationsInv, AwaitsItsLoad

\* A call that enters activate waits for a load that is in flight, or begins one.
LEMMA LinkEnter ==
  ASSUME LinkInv, TypeOK, NEW p \in Callers,
         call[p].pc \in {"read", "activate"}, Enter(p)
  PROVE  LinkInv'
<1> DEFINE a == call[p].account
           q == activations[a]
<1>1. a \in Accounts /\ q \in Callers \union {None}
      /\ activations \in [Accounts -> Callers \union {None}]
  BY DEF TypeOK, Calls
<1>2. \A r \in Callers \ {p} : call'[r] = call[r]
  BY EnterFields
<1>3. CASE q # None
  <2>1. /\ UNCHANGED activations /\ call'[p].on = q /\ call'[p].account = a
        /\ call'[p].credential = call[p].credential
        /\ call'[p].pc = IF call[q].credential = call[p].credential
                         THEN "joined" ELSE "waiting"
    BY <1>3, EnterFields
  <2>2. q # p /\ call[q].pc = "loading" /\ call[q].account = a
    BY <1>1, <1>3 DEF LinkInv, ActivationsInv
  <2>3. ActivationsInv'
    BY <1>1, <1>2, <2>1 DEF LinkInv, ActivationsInv
  <2>4. ASSUME NEW r \in Callers \ {p}, call[r].pc \in {"joined", "waiting"}
        PROVE  call[r].on \in Callers \ {p}
    BY <2>4 DEF LinkInv, AwaitsItsLoad
  <2>5. AwaitsItsLoad'
    BY <1>1, <1>2, <1>3, <2>1, <2>2, <2>4 DEF LinkInv, AwaitsItsLoad
  <2> QED
    BY <2>3, <2>5 DEF LinkInv
<1>4. CASE q = None /\ runtimes = NotStarted
  <2>1. UNCHANGED activations /\ call'[p].pc = "idle"
    BY <1>4, EnterFields
  <2> QED
    BY <1>1, <1>2, <2>1 DEF LinkInv, ActivationsInv, AwaitsItsLoad
<1>5. CASE q = None /\ runtimes # NotStarted
  <2>1. /\ activations' = [activations EXCEPT ![a] = p]
        /\ call'[p].pc = "loading" /\ call'[p].account = a
    BY <1>5, EnterFields
  <2> QED
    BY <1>1, <1>2, <2>1 DEF LinkInv, ActivationsInv, AwaitsItsLoad
<1> QED
  BY <1>3, <1>4, <1>5

\* Whoever waits for a load that has settled returns or calls activate again.
LEMMA LinkSettle ==
  ASSUME LinkInv, TypeOK, NEW p \in Callers, call[p].pc = "loading", Settle(p)
  PROVE  LinkInv'
<1>1. activations \in [Accounts -> Callers \union {None}]
  BY DEF TypeOK
<1>2. ASSUME NEW r \in Callers \ {p}, call[r].pc = "loading"
      PROVE  call'[r] = call[r]
  BY <1>2, SettleFields
<1>3. ActivationsInv'
  BY <1>1, <1>2, SettleFields DEF LinkInv, ActivationsInv
<1>4. ASSUME NEW r \in Callers, call'[r].pc \in {"joined", "waiting"}
      PROVE  call'[r] = call[r] /\ call[r].on # p
  BY <1>4, SettleFields
<1>5. AwaitsItsLoad'
  BY <1>2, <1>4 DEF LinkInv, AwaitsItsLoad
<1> QED
  BY <1>3, <1>5 DEF LinkInv

\* At first nobody waits.
LEMMA LinkInit == Init => LinkInv
<1> SUFFICES ASSUME Init PROVE LinkInv
  OBVIOUS
<1>1. activations = Nothing /\ \A p \in Callers : call[p].pc = "idle"
  BY DEF Init, NoCall
<1> QED
  BY <1>1 DEF LinkInv, ActivationsInv, AwaitsItsLoad, Nothing

\* Every step keeps the links.
LEMMA LinkNext == IInv /\ LinkInv /\ [Next]_vars => LinkInv'
<1> SUFFICES ASSUME TypeOK, LinkInv, [Next]_vars PROVE LinkInv'
  BY DEF IInv
<1>1. ASSUME NEW p \in Callers, NEW a \in Accounts,
             ReadStored(p, a) \/ Notified(p, a)
      PROVE  LinkInv'
  <2>1. CASE stored[a] # None /\ Read(p, a)
    <3>1. stored[a] \in Credentials
      BY <2>1 DEF TypeOK, RuntimeMaps
    <3>2. Begin(p, a, "read", stored[a])
      BY <2>1 DEF Read
    <3> QED
      BY <3>1, <3>2, LinkBegin
  <2>2. CASE UNCHANGED <<call, activations>>
    BY <2>2, LinkQuiet
  <2> QED
    BY <1>1, <2>1, <2>2 DEF ReadStored, Notified
<1>2. ASSUME NEW p \in Callers, NEW a \in Accounts, NEW c \in Credentials,
             Authorize(p, a, c)
      PROVE  LinkInv'
  BY <1>2, LinkBegin DEF Authorize
<1>3. ASSUME NEW p \in Callers, Activate(p) \/ ActivateStored(p)
      PROVE  LinkInv'
  <2>1. CASE Enter(p)
    BY <1>3, <2>1, LinkEnter DEF Activate, ActivateStored
  <2>2. CASE call' = [call EXCEPT ![p] = NoCall] /\ UNCHANGED activations
             /\ call[p].pc = "read"
    <3>1. call'[p].pc = "idle" /\ \A r \in Callers \ {p} : call'[r] = call[r]
      BY <2>2 DEF TypeOK, NoCall
    <3>2. activations \in [Accounts -> Callers \union {None}]
      BY DEF TypeOK
    <3> QED
      BY <2>2, <3>1, <3>2 DEF LinkInv, ActivationsInv, AwaitsItsLoad
  <2> QED
    BY <1>3, <2>1, <2>2 DEF Activate, ActivateStored
<1>4. ASSUME NEW p \in Callers, LoadSucceeds(p) \/ LoadFails(p)
      PROVE  LinkInv'
  BY <1>4, LinkSettle DEF LoadSucceeds, LoadFails
<1>5. CASE Start \/ (\E a \in Accounts : StartLoads(a)) \/ StartEnds \/ Stop
  BY <1>5, LinkQuiet DEF Start, StartLoads, StartEnds, Stop
<1>6. CASE \E a \in Accounts :
             Remove(a) \/ \E c \in Credentials : StoreElsewhere(a, c)
  BY <1>6, LinkQuiet DEF Remove, StoreElsewhere
<1>7. CASE UNCHANGED vars
  BY <1>7, LinkQuiet DEF vars
<1> QED
  BY <1>1, <1>2, <1>3, <1>4, <1>5, <1>6, <1>7 DEF Next, Progress

(* A call that shares a load, or waits for one, does so only while the load  *)
(* is in flight, for its own account: no settled or failed load and no stop  *)
(* of the registry leaves a call behind (activate's map of activations).     *)
THEOREM CallsAwaitLoads == Spec => []AwaitsItsLoad
<1>1. LinkInv => AwaitsItsLoad
  BY DEF LinkInv
<1> QED
  BY Invariant, LinkInit, LinkNext, <1>1, PTL DEF Spec

----------------------------------------------------------------------------
(* Type correctness of the registry's state and its callers'.              *)
THEOREM TypeCorrect == Spec => []TypeOK
<1>1. IInv => TypeOK
  BY DEF IInv
<1> QED
  BY Invariant, <1>1, PTL

(* A runtime only holds a credential that was stored for its own account,   *)
(* whatever activations, stored loads and restarts interleave (activate,    *)
(* activateStored, start, stop).                                            *)
THEOREM CredentialsIsolated == Spec => []RuntimesIsolated
<1>1. IInv => RuntimesIsolated
  BY DEF IInv, RuntimesInv, Isolated, RuntimesIsolated
<1> QED
  BY Invariant, <1>1, PTL

(* No two accounts are served by runtimes of one mail account, although     *)
(* #activate checks against the map read before its load: the map it        *)
(* installs is that one, not the one in use when the load ends.             *)
THEOREM NoSharedMailbox == Spec => []MailboxesUnique
<1>1. IInv => MailboxesUnique
  BY DEF IInv, RuntimesInv, MailboxesUnique
<1> QED
  BY Invariant, <1>1, PTL
=============================================================================
