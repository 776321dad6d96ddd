------------------------ MODULE PushDiscovery_proofs ------------------------
(***************************************************************************)
(* What a push discovery loop guarantees for every page limit and any      *)
(* number of changes and failures: its polls never overlap, and while it   *)
(* listens to a stream it misses no change that the stream announces.      *)
(***************************************************************************)
EXTENDS PushDiscovery, TLAPS

\* The reader lives inside a watch; only who polls holds a state.
AwaitInv ==
  /\ reader # "none" <=> loop = "watch"
  /\ \A w \in Pollers : seen[w] # None => Polls(w)

\* A poll that the last announcement caused and that reached its end has seen
\* the latest state.
SeenInv ==
  (/\ reader = "change" /\ events = 0 /\ ~recycled /\ ~aborted /\ ~more
   /\ seen["reader"] # None)
    => seen["reader"] = modseq

IInv == TypeOK /\ AwaitInv /\ SeenInv /\ StreamCaughtUp

----------------------------------------------------------------------------
(* The steps.                                                              *)

\* A poller is the loop or the reader; no number is None.
LEMMA PollersAre ==
  /\ Pollers = {"loop", "reader"}
  /\ \A n \in Nat : n # None
BY PushAssumption DEF Pollers

\* Initially the loop is about to poll.
LEMMA InitInv == Init => IInv
<1> SUFFICES ASSUME Init PROVE IInv
  OBVIOUS
<1>0. /\ 0 \in 0 .. MaxFaults /\ cursor \in 0 .. modseq /\ 0 \in 0 .. modseq
      /\ modseq \in 0 .. MaxState /\ 0 \in Nat
  BY PushAssumption DEF Init
<1>1. TypeOK
  BY <1>0 DEF Init, TypeOK
<1>2. AwaitInv /\ SeenInv /\ StreamCaughtUp
  BY DEF Init, AwaitInv, SeenInv, StreamCaughtUp
<1> QED
  BY <1>1, <1>2 DEF IInv

\* Wherever the loop goes after a watch or a poll, it holds no stream.
LEMMA GotoStep ==
  ASSUME IInv, NEW next \in {"poll", "delay", "ended"}, Goto(next),
         UNCHANGED <<server, more, cursor, watch, aborted>>,
         faults' \in 0 .. MaxFaults
  PROVE  IInv'
<1>1. TypeOK'
  BY DEF IInv, TypeOK, Goto, server, watch
<1>2. AwaitInv' /\ SeenInv' /\ StreamCaughtUp'
  BY PollersAre DEF Goto, AwaitInv, SeenInv, StreamCaughtUp
<1> QED
  BY <1>1, <1>2 DEF IInv

\* A failure stays within the bound of the model.
LEMMA FaultStep ==
  ASSUME IInv, Fault
  PROVE  faults' \in 0 .. MaxFaults
BY PushAssumption DEF IInv, TypeOK, Fault

\* The ways out of a poll or a watch.
LEMMA LeaveStep ==
  ASSUME IInv, NEW permanent \in BOOLEAN,
         Again \/ Caught(permanent) \/ CaughtByWatch(permanent),
         UNCHANGED <<server, more, cursor, watch, aborted>>,
         faults' \in 0 .. MaxFaults
  PROVE  IInv'
<1>1. CASE Again
  BY <1>1, GotoStep DEF Again
<1>2. CASE Caught(permanent)
  BY <1>2, GotoStep DEF Caught
<1>3. CASE CaughtByWatch(permanent)
  BY <1>3, <1>1, <1>2 DEF CaughtByWatch
<1> QED
  BY <1>1, <1>2, <1>3

\* The environment: a change is announced unless nobody listens.
LEMMA EnvironmentStep ==
  ASSUME IInv, ChangeHappens \/ Revoke \/ Abort
  PROVE  IInv'
<1>1. CASE ChangeHappens
  <2>1. TypeOK'
    BY <1>1, PushAssumption DEF ChangeHappens, IInv, TypeOK, watch
  <2>2. AwaitInv'
    BY <1>1 DEF ChangeHappens, IInv, AwaitInv, Polls
  <2>3. CASE events' = events + 1
    <3>1. events' # 0
      BY <2>3 DEF IInv, TypeOK
    <3> QED
      BY <2>1, <2>2, <3>1 DEF IInv, SeenInv, StreamCaughtUp
  <2>4. CASE (reader \in {"none", "connect"} \/ events > 0 \/ Cut)
             /\ UNCHANGED events
    <3>1. /\ reader' = reader /\ events' = events
          /\ \/ reader = "none" \/ reader = "connect" \/ events # 0
             \/ recycled' \/ aborted'
      BY <1>1, <2>4 DEF ChangeHappens, Cut, watch, IInv, TypeOK
    <3> QED
      BY <2>1, <2>2, <3>1 DEF IInv, SeenInv, StreamCaughtUp
  <2> QED
    BY <1>1, <2>1, <2>2, <2>3, <2>4 DEF ChangeHappens, IInv
<1>2. CASE Revoke
  BY <1>2 DEF Revoke, IInv, TypeOK, AwaitInv, SeenInv, StreamCaughtUp, Cut,
              Polls, stream, watch
<1>3. CASE Abort
  BY <1>3 DEF Abort, IInv, TypeOK, AwaitInv, SeenInv, StreamCaughtUp, Cut,
              Polls, stream, watch, server
<1> QED
  BY <1>1, <1>2, <1>3

\* A poll sees the latest state, or notes that it stopped at its page limit,
\* unless it is aborted.
LEMMA ReadChangesStep ==
  ASSUME IInv, NEW w \in Pollers, ReadChanges(w)
  PROVE  IInv'
<1>0. /\ cursor \in 0 .. modseq /\ modseq \in Nat /\ Limit \in cursor .. modseq
      /\ Limit # modseq => Limit = cursor + Reach /\ Limit < modseq
  BY PushAssumption DEF Limit, IInv, TypeOK
<1>1. PICK n \in cursor .. Limit : (aborted \/ n = Limit) /\ Reads(w, n)
  BY DEF ReadChanges
<1>2. /\ Polls(w) /\ seen' = [seen EXCEPT ![w] = n]
      /\ more' = (n = cursor + Reach /\ n < modseq)
      /\ UNCHANGED <<modseq, revoked, events, sub, loop, reader, cursor, recycled,
                     deaf, aborted, faults>>
  BY <1>1 DEF Reads, server, stream, watch
<1>3. TypeOK'
  BY <1>0, <1>1, <1>2 DEF IInv, TypeOK
<1>4. AwaitInv'
  BY <1>1, <1>2 DEF IInv, TypeOK, AwaitInv, Polls
<1>5. SeenInv'
  <2>1. CASE w = "reader"
    <3>1. CASE aborted
      BY <1>2, <3>1 DEF SeenInv
    <3>2. CASE n = modseq
      BY <1>2, <2>1, <3>2 DEF SeenInv, IInv, TypeOK
    <3>3. CASE n = cursor + Reach /\ n < modseq
      <4>1. more'
        BY <1>2, <3>3
      <4> QED
        BY <4>1 DEF SeenInv
    <3> QED
      BY <1>0, <1>1, <3>1, <3>2, <3>3
  <2>2. CASE w = "loop"
    BY <1>2, <2>2 DEF IInv, AwaitInv, SeenInv, Polls
  <2> QED
    BY <2>1, <2>2, PollersAre
<1>6. StreamCaughtUp'
  BY <1>2, PollersAre DEF IInv, AwaitInv, StreamCaughtUp, Polls
<1> QED
  BY <1>3, <1>4, <1>5, <1>6 DEF IInv

\* When a poll of the reader ends and nothing is left, the cursor is there.
LEMMA PollSucceedsStep ==
  ASSUME IInv, NEW w \in Pollers, PollSucceeds(w)
  PROVE  IInv'
<1>1. /\ Polls(w) /\ seen[w] # None /\ cursor' = seen[w]
      /\ seen' = [seen EXCEPT ![w] = None]
      /\ UNCHANGED <<modseq, revoked, events, sub, more, aborted, faults>>
  BY DEF PollSucceeds, Polled, server
<1>2. CASE w = "loop"
  <2>1. loop' = "watch" /\ reader' = "connect" /\ recycled' = FALSE
        /\ deaf' = aborted
    BY <1>2 DEF PollSucceeds, Polled
  <2>2. TypeOK'
    BY <1>1, <2>1 DEF IInv, TypeOK
  <2>3. AwaitInv' /\ SeenInv' /\ StreamCaughtUp'
    BY <1>1, <1>2, <2>1, PollersAre
       DEF IInv, TypeOK, AwaitInv, SeenInv, StreamCaughtUp, Polls
  <2> QED
    BY <2>2, <2>3 DEF IInv
<1>3. CASE w = "reader"
  <2>1. reader' = "read" /\ UNCHANGED <<loop, recycled, deaf>>
    BY <1>3 DEF PollSucceeds, Polled, watch
  <2>2. TypeOK'
    BY <1>1, <2>1 DEF IInv, TypeOK
  <2>3. AwaitInv' /\ SeenInv'
    BY <1>1, <1>3, <2>1, PollersAre
       DEF IInv, TypeOK, AwaitInv, SeenInv, Polls
  <2>4. StreamCaughtUp'
    BY <1>1, <1>3, <2>1 DEF IInv, SeenInv, StreamCaughtUp, Polls, Cut
  <2> QED
    BY <2>2, <2>3, <2>4 DEF IInv
<1> QED
  BY <1>2, <1>3, PollersAre

\* The end of a poll by an error.
LEMMA PollThrowsStep ==
  ASSUME IInv, NEW w \in Pollers, PollFails(w) \/ PollRefused(w)
  PROVE  IInv'
<1>1. CASE PollFails(w)
  BY <1>1, LeaveStep, FaultStep DEF PollFails, PollThrows
<1>2. CASE PollRefused(w)
  BY <1>2, LeaveStep DEF PollRefused, PollThrows, IInv, TypeOK
<1> QED
  BY <1>1, <1>2

\* The stream: opened, it has announced nothing yet.
LEMMA WatchingStep ==
  ASSUME IInv, WatchStep \/ StreamFails \/ Recycle \/ DelayEnds
  PROVE  IInv'
<1>1. CASE ConnectOpens
  BY <1>1 DEF ConnectOpens, IInv, TypeOK, AwaitInv, SeenInv, StreamCaughtUp,
              Polls, server, watch
<1>2. CASE ConnectRefused
  BY <1>2, LeaveStep DEF ConnectRefused, IInv, TypeOK
<1>3. CASE StreamCut
  BY <1>3, LeaveStep DEF StreamCut, IInv, TypeOK
<1>4. CASE TakeEvent
  BY <1>4, PollersAre
     DEF TakeEvent, IInv, TypeOK, AwaitInv, SeenInv, StreamCaughtUp, Polls,
         server, watch
<1>5. CASE StreamFails
  BY <1>5, LeaveStep, FaultStep DEF StreamFails
<1>6. CASE Recycle
  BY <1>6 DEF Recycle, IInv, TypeOK, AwaitInv, SeenInv, StreamCaughtUp, Polls,
              Cut, server, stream
<1>7. CASE DelayEnds
  BY <1>7, LeaveStep DEF DelayEnds, IInv, TypeOK
<1> QED
  BY <1>1, <1>2, <1>3, <1>4, <1>5, <1>6, <1>7 DEF WatchStep

\* Every step keeps the invariant.
LEMMA NextInv == IInv /\ [Next]_vars => IInv'
<1> SUFFICES ASSUME IInv, [Next]_vars PROVE IInv'
  OBVIOUS
<1>1. CASE ChangeHappens \/ Revoke \/ Abort
  BY <1>1, EnvironmentStep
<1>2. CASE PollStep \/ \E w \in Pollers : PollFails(w)
  BY <1>2, ReadChangesStep, PollSucceedsStep, PollThrowsStep DEF PollStep
<1>3. CASE WatchStep \/ StreamFails \/ Recycle \/ DelayEnds
  BY <1>3, WatchingStep
<1>4. CASE UNCHANGED vars
  BY <1>4 DEF vars, server, stream, watch, IInv, TypeOK, AwaitInv, SeenInv,
              StreamCaughtUp, Polls, Cut
<1> QED
  BY <1>1, <1>2, <1>3, <1>4 DEF Next

----------------------------------------------------------------------------
(* The theorems.                                                           *)

\* The inductive invariant holds in every reachable state.
THEOREM Invariant == Spec => []IInv
BY InitInv, NextInv, PTL DEF Spec

(* Type correctness of the push loop (#runPushLoop).                        *)
THEOREM TypeCorrect == Spec => []TypeOK
<1>1. IInv => TypeOK
  BY DEF IInv
<1> QED
  BY <1>1, Invariant, PTL

(* The loop and the reader of the stream never poll at the same time, for   *)
(* any number of recycled connections (watchEmailStateChanges awaits the    *)
(* change it is handling).                                                  *)
THEOREM PollsNeverOverlap == Spec => []PollsDontOverlap
<1>1. IInv => PollsDontOverlap
  BY DEF IInv, AwaitInv, PollsDontOverlap, Polls
<1> QED
  BY <1>1, Invariant, PTL

(* A reader with nothing left to handle has caught up with every change     *)
(* announced on its stream, whatever the order of changes and polls, as     *)
(* long as its loop is not aborted.                                         *)
THEOREM ListenerCaughtUp == Spec => []StreamCaughtUp
<1>1. IInv => StreamCaughtUp
  BY DEF IInv
<1> QED
  BY <1>1, Invariant, PTL
=============================================================================
