----------------------- MODULE RuntimeController_proofs -----------------------
(***************************************************************************)
(* For any number of tool calls, stops and Agent turns the controller      *)
(* exposes all of the runtime or none of it, and only ever starts it from  *)
(* nothing, but for a registry that an activation has set up again after   *)
(* it was stopped.  Both need to know which parts are up at every await of *)
(* a start and of a stop: PartsInv says so, await by await.                *)
(***************************************************************************)
EXTENDS RuntimeController, TLAPS

Down == /\ registry => stray
        /\ ~manager /\ ~resources /\ service = None /\ turn = "none"

Up == /\ service # None /\ life[service] = "running"
      /\ registry /\ manager /\ resources

PartsInv ==
  /\ start \in {"registry", "refused"} => Down
  /\ start = "refused" => registry
  /\ start = "manager" => /\ registry /\ resources /\ ~manager
                          /\ service = None /\ turn = "none"
  /\ start = "service" => registry /\ resources /\ manager /\ service = None
  /\ start = "undo" => service = None /\ turn # "running"
  /\ start = "none" /\ stop \in {"none", "start"} => Up \/ Down
  /\ stop = "service" => start = "none" /\ Up
  /\ stop = "manager" => start = "none" /\ service = None /\ turn # "running"

IInv == TypeOK /\ PartsInv

LEMMA InitEstablishes == Init => IInv
<1>1. ASSUME Init PROVE TypeOK
  <2>1. 0 \in 0 .. MaxCalls /\ 0 \in 0 .. MaxTurns
    BY ControllerAssumption
  <2>2. calls \in [Callers \union Stoppers -> 0 .. MaxCalls]
    BY <1>1, <2>1 DEF Init
  <2>3. /\ waits \in [Callers \union Stoppers ->
                       {"none", "start", "stop", "stopped"}]
        /\ \A p \in Stoppers : waits[p] \in {"none", "stopped"}
    BY <1>1 DEF Init
  <2> QED
    BY <1>1, <2>1, <2>2, <2>3 DEF Init, TypeOK
<1>2. Init => PartsInv
  BY DEF Init, PartsInv, Down
<1> QED
  BY <1>1, <1>2 DEF IInv

(* Every step keeps the variables well typed.                               *)
LEMMA TypeStep == TypeOK /\ [Next]_vars => TypeOK'
<1> SUFFICES ASSUME TypeOK, [Next]_vars PROVE TypeOK'
  OBVIOUS
<1> USE ControllerAssumption DEF TypeOK
<1>1. ASSUME NEW p \in Callers, EnsureStarted(p) PROVE TypeOK'
  BY <1>1 DEF EnsureStarted, Ensure, Called, Proceed, Begun, parts, loads, agent
<1>2. ASSUME NEW p \in Callers, TurnCallsTool(p) PROVE TypeOK'
  BY <1>2 DEF TurnCallsTool, Ensure, Called, Proceed, Begun, parts, loads
<1>3. ASSUME NEW p \in Stoppers, Stop(p) PROVE TypeOK'
  BY <1>3 DEF Stop, Called, parts, loads, agent
<1>4. CASE RegistryStarts
  BY <1>4 DEF RegistryStarts, Fails, AbortTurn
<1>5. CASE ManagerStarts
  BY <1>5 DEF ManagerStarts, Fails, AbortTurn, loads
<1>6. CASE ServiceCreated
  BY <1>6 DEF ServiceCreated, Fails, AbortTurn, loads, Released
<1>7. CASE StartUndone
  BY <1>7 DEF StartUndone, AllDown, Released, agent
<1>8. CASE StopAwaitsStart
  BY <1>8 DEF StopAwaitsStart, Settled, Begun, parts, loads, agent
<1>9. CASE ServiceStopped
  BY <1>9 DEF ServiceStopped, AbortTurn, loads
<1>10. CASE ManagerStopped
  BY <1>10 DEF ManagerStopped, AllDown, Settled, Begun, agent
<1>11. CASE TurnStarts
  BY <1>11 DEF TurnStarts, promises, parts, loads
<1>12. CASE TurnEnds
  BY <1>12 DEF TurnEnds, promises, parts, loads
<1>13. ASSUME NEW s \in Services, LostTasksEnd(s) PROVE TypeOK'
  BY <1>13 DEF LostTasksEnd, promises, loads, agent
<1>14. ASSUME NEW l \in Loads, LoadBegins(l) PROVE TypeOK'
  BY <1>14 DEF LoadBegins, promises, agent
<1>15. ASSUME NEW l \in Loads, LoadEnds(l) PROVE TypeOK'
  BY <1>15 DEF LoadEnds, promises, agent
<1>16. CASE UNCHANGED vars
  BY <1>16 DEF vars, promises, parts, loads, agent
<1> QED
  BY <1>1, <1>2, <1>3, <1>4, <1>5, <1>6, <1>7, <1>8, <1>9, <1>10, <1>11,
     <1>12, <1>13, <1>14, <1>15, <1>16 DEF Next, Starting, Stopping

(* Every step leaves up, at each await, what that await says is up.         *)
LEMMA PartsStep == IInv /\ [Next]_vars => PartsInv'
<1> SUFFICES ASSUME IInv, [Next]_vars PROVE PartsInv'
  OBVIOUS
<1> USE ControllerAssumption DEF IInv, TypeOK, PartsInv, Up, Down
<1>1. ASSUME NEW p \in Callers, EnsureStarted(p) PROVE PartsInv'
  BY <1>1 DEF EnsureStarted, Ensure, Proceed, Begun, parts, loads, agent
<1>2. ASSUME NEW p \in Callers, TurnCallsTool(p) PROVE PartsInv'
  BY <1>2 DEF TurnCallsTool, Ensure, Proceed, Begun, parts, loads
<1>3. ASSUME NEW p \in Stoppers, Stop(p) PROVE PartsInv'
  BY <1>3 DEF Stop, parts, loads, agent
<1>4. CASE RegistryStarts
  BY <1>4 DEF RegistryStarts, Fails, AbortTurn
<1>5. CASE ManagerStarts
  BY <1>5 DEF ManagerStarts, Fails, AbortTurn, loads
<1>6. CASE ServiceCreated
  BY <1>6 DEF ServiceCreated, Fails, AbortTurn, loads
<1>7. CASE StartUndone
  BY <1>7 DEF StartUndone, AllDown, agent
<1>8. CASE StopAwaitsStart
  BY <1>8 DEF StopAwaitsStart, Settled, Begun, parts, loads, agent
<1>9. CASE ServiceStopped
  BY <1>9 DEF ServiceStopped, AbortTurn, loads
<1>10. CASE ManagerStopped
  BY <1>10 DEF ManagerStopped, AllDown, Settled, Begun, agent
<1>11. CASE TurnStarts
  BY <1>11 DEF TurnStarts, promises, parts, loads
<1>12. CASE TurnEnds
  BY <1>12 DEF TurnEnds, promises, parts, loads
<1>13. ASSUME NEW s \in Services, LostTasksEnd(s) PROVE PartsInv'
  BY <1>13 DEF LostTasksEnd, promises, loads, agent
<1>14. ASSUME NEW l \in Loads, LoadBegins(l) PROVE PartsInv'
  BY <1>14 DEF LoadBegins, promises, agent
<1>15. ASSUME NEW l \in Loads, LoadEnds(l) PROVE PartsInv'
  <2>1. UNCHANGED <<start, stop, service, resources, manager, life, turn>>
    BY <1>15 DEF LoadEnds, promises, agent
  <2>2. /\ registry => registry'
        /\ (registry => stray) => (registry' => stray')
    <3>1. CASE UNCHANGED <<registry, stray>>
      BY <3>1
    <3>2. CASE registry' = TRUE /\ registry /\ stray' = stray
      BY <3>2
    <3>3. CASE registry' = TRUE /\ ~registry /\ stray' = TRUE
      BY <3>3
    <3> QED
      BY <1>15, <3>1, <3>2, <3>3 DEF LoadEnds
  <2>3. start = "refused" => registry'
    BY <2>2
  <2> QED
    BY <2>1, <2>2, <2>3
<1>16. CASE UNCHANGED vars
  BY <1>16 DEF vars, promises, parts, loads, agent
<1> QED
  BY <1>1, <1>2, <1>3, <1>4, <1>5, <1>6, <1>7, <1>8, <1>9, <1>10, <1>11,
     <1>12, <1>13, <1>14, <1>15, <1>16 DEF Next, Starting, Stopping

LEMMA Invariance == Spec => []IInv
<1>1. IInv /\ [Next]_vars => IInv'
  BY TypeStep, PartsStep DEF IInv
<1> QED
  BY InitEstablishes, <1>1, PTL DEF Spec

(* The variables keep their types, for any callers, stops and turns.        *)
THEOREM TypeCorrect == Spec => []TypeOK
<1>1. IInv => TypeOK
  BY DEF IInv
<1> QED
  BY Invariance, <1>1, PTL

(* Once start and stop have settled, the runtime is exposed whole or not at *)
(* all, but for a registry that a load which outlived the stop has set up.  *)
THEOREM ExposedWhole == Spec => []WholeOrNothing
<1>1. IInv => WholeOrNothing
  BY DEF IInv, PartsInv, Up, Down, WholeOrNothing
<1> QED
  BY Invariance, <1>1, PTL

(* A start never meets the manager or the service of the last, and is       *)
(* refused only for a registry that a load which outlived a stop has set up.*)
THEOREM StartsAreClean == Spec => []StartsFromNothing
<1>1. IInv => StartsFromNothing
  BY DEF IInv, PartsInv, Down, StartsFromNothing
<1> QED
  BY Invariance, <1>1, PTL
=============================================================================
