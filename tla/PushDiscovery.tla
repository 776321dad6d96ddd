---------------------------- MODULE PushDiscovery ----------------------------
(***************************************************************************)
(* The body of one discovery loop (#runPushLoop): poll, then listen to the *)
(* server's event stream (watchEmailStateChanges) and poll once for every  *)
(* Email state change it announces; when the stream fails, poll again      *)
(* after a delay; when the recycle timer has closed it, poll at once.      *)
(*                                                                         *)
(* What a poll does is MailDiscovery; here it brings the cursor to the     *)
(* state it has seen.  The loop awaits the reader of the stream, and the   *)
(* reader awaits the polls that it makes.                                  *)
(***************************************************************************)
EXTENDS Naturals

CONSTANTS
  Reach,      \* changes one poll handles at most: its pages times their size
  None,
  MaxState,   \* bound of the model: highest Email state of the account
  MaxFaults,  \* bound of the model: requests and connections that fail
  MayRevoke   \* the credential may be revoked

ASSUME PushAssumption ==
  /\ Reach \in Nat \ {0} /\ MaxState \in Nat /\ MaxFaults \in Nat
  /\ None \notin Nat
  /\ MayRevoke \in BOOLEAN

VARIABLES
  modseq,    \* server: the Email state
  revoked,   \* server: the credential is revoked
  events,    \* state changes announced on the stream and not yet handled
  sub,       \* history: the state at which the stream was opened
  loop,      \* what the loop awaits: "poll", "watch", "delay"; or "ended"
  reader,    \* inside a watch: "connect", "read", "change"; or "none"
  seen,      \* the state that the poll in flight has seen, of either
  more,      \* the last poll stopped at its page limit
  cursor,    \* sinceState of the discovery file
  recycled,  \* the timer has aborted the connection
  aborted,   \* the signal of the loop
  deaf,      \* the signal was aborted before the watch began to listen to it
  faults     \* failures so far, capped by MaxFaults

server == <<modseq, revoked>>
stream == <<events, sub>>
watch  == <<recycled, deaf>>
vars   == <<server, stream, loop, reader, seen, more, cursor, watch, aborted,
            faults>>

Pollers == {"loop", "reader"}

Polls(w) == \/ w = "loop" /\ loop = "poll"
            \/ w = "reader" /\ reader = "change"

\* the connection's own AbortController
Cut == recycled \/ (aborted /\ ~deaf)

Fault == faults < MaxFaults /\ faults' = faults + 1

----------------------------------------------------------------------------
(* The server and the owner of the loop.                                   *)

\* The server announces a change on an open stream, alone or together with
\* one that waits there already; a client that has closed it hears nothing.
ChangeHappens ==
  /\ modseq < MaxState /\ modseq' = modseq + 1
  /\ \/ /\ reader \in {"read", "change"}
        /\ events' = events + 1
     \/ /\ reader \in {"none", "connect"} \/ events > 0 \/ Cut
        /\ UNCHANGED events
  /\ UNCHANGED <<revoked, sub, loop, reader, seen, more, cursor, watch,
                 aborted, faults>>

Revoke ==
  /\ MayRevoke /\ ~revoked /\ revoked' = TRUE
  /\ UNCHANGED <<modseq, stream, loop, reader, seen, more, cursor, watch,
                 aborted, faults>>

\* stop() or the replacement of the runtime
Abort ==
  /\ ~aborted /\ aborted' = TRUE
  /\ UNCHANGED <<server, stream, loop, reader, seen, more, cursor, watch,
                 faults>>

----------------------------------------------------------------------------
(* Where the loop goes next.                                               *)

\* The loop leaves the watch, if it was in one, and every poll.
Goto(next) ==
  /\ loop' = next
  /\ reader' = "none"
  /\ seen' = [w \in Pollers |-> None]
  /\ events' = 0
  /\ UNCHANGED sub

\* the head of the loop: while (!signal.aborted)
Again == Goto(IF aborted THEN "ended" ELSE "poll")

\* the catch of the loop; permanent: #logPermanentStop
Caught(permanent) ==
  Goto(IF aborted \/ permanent THEN "ended" ELSE "delay")

\* the catch of watchEmailStateChanges
CaughtByWatch(permanent) ==
  IF aborted \/ recycled THEN Again ELSE Caught(permanent)

----------------------------------------------------------------------------
(* Polls, made by the loop or by the reader.                               *)

\* Email/changes, page by page, up to the state n.
Reads(w, n) ==
  /\ Polls(w) /\ seen[w] = None /\ ~revoked
  /\ seen' = [seen EXCEPT ![w] = n]
  /\ more' = (n = cursor + Reach /\ n < modseq)
  /\ UNCHANGED <<server, stream, loop, reader, cursor, watch, aborted, faults>>

\* mutant: the state is reckoned from the page size
ReadsAhead(w) == Reads(w, cursor + Reach)

\* All there is or all that the page limit allows; under an aborted signal the
\* poll stops after any page, or before the first, and returns as it always does.
Limit == IF cursor + Reach < modseq THEN cursor + Reach ELSE modseq

ReadChanges(w) ==
  \E n \in cursor .. Limit : (aborted \/ n = Limit) /\ Reads(w, n)

\* The cursor is saved.  The loop then opens the stream, without looking at
\* the signal again; the reader goes on reading.
Polled(w, left) ==
  /\ Polls(w) /\ seen[w] # None
  /\ cursor' = seen[w]
  /\ seen' = [seen EXCEPT ![w] = None]
  /\ IF w = "loop"
     THEN /\ loop' = "watch" /\ reader' = "connect"
          /\ recycled' = FALSE /\ deaf' = aborted
     ELSE /\ reader' = "read"
          /\ UNCHANGED <<loop, watch>>
  /\ events' = left
  /\ UNCHANGED <<server, sub, more, aborted, faults>>

\* mutant: changes announced during a poll are taken to be covered by it
PollCovers(w) == Polled(w, 0)

PollSucceeds(w) == Polled(w, events)

PollThrows(w, permanent) ==
  /\ Polls(w)
  /\ IF w = "loop" THEN Caught(permanent) ELSE CaughtByWatch(permanent)
  /\ UNCHANGED <<server, more, cursor, watch, aborted>>

\* a request that fails, or a FatalDiscoveryError
PollFails(w) == Fault /\ \E permanent \in BOOLEAN : PollThrows(w, permanent)

\* mutant: 401 is an error like any other
RefusalRetried(w) ==
  /\ revoked \/ aborted
  /\ PollThrows(w, FALSE)
  /\ UNCHANGED faults

\* 401, or the abort of a request
PollRefused(w) ==
  /\ revoked \/ aborted
  /\ PollThrows(w, revoked)
  /\ UNCHANGED faults

----------------------------------------------------------------------------
(* The event stream.                                                       *)

ConnectOpens ==
  /\ reader = "connect" /\ ~Cut /\ ~revoked
  /\ reader' = "read"
  /\ events' = 0 /\ sub' = modseq
  /\ UNCHANGED <<server, loop, seen, more, cursor, watch, aborted, faults>>

\* 401 is thrown, whatever the timer has done
ConnectRefused ==
  /\ reader = "connect" /\ revoked
  /\ Caught(TRUE)
  /\ UNCHANGED <<server, more, cursor, watch, aborted, faults>>

\* The connection fails, the stream ends or an event is malformed.
StreamFails ==
  /\ reader \in {"connect", "read"}
  /\ Fault
  /\ CaughtByWatch(FALSE)
  /\ UNCHANGED <<server, more, cursor, watch, aborted>>

StreamCut ==
  /\ reader \in {"connect", "read"} /\ Cut
  /\ Again
  /\ UNCHANGED <<server, more, cursor, watch, aborted, faults>>

\* What has been received is handled also when the connection has been cut.
TakeEvent ==
  /\ reader = "read" /\ events > 0
  /\ reader' = "change" /\ events' = events - 1
  /\ UNCHANGED <<server, sub, loop, seen, more, cursor, watch, aborted, faults>>

\* mutants: the timer ends the watch itself; it only covers the connecting
RecycleReturns ==
  /\ loop = "watch" /\ ~recycled /\ recycled' = TRUE
  /\ loop' = "poll"
  /\ UNCHANGED <<server, stream, reader, seen, more, cursor, deaf, aborted,
                 faults>>
RecycleConnecting ==
  /\ reader = "connect" /\ ~recycled /\ recycled' = TRUE
  /\ UNCHANGED <<server, stream, loop, reader, seen, more, cursor, deaf,
                 aborted, faults>>

\* eventSourceMaxConnectionMs have passed
Recycle ==
  /\ loop = "watch" /\ ~recycled /\ recycled' = TRUE
  /\ UNCHANGED <<server, stream, loop, reader, seen, more, cursor, deaf,
                 aborted, faults>>

DelayEnds ==
  /\ loop = "delay"
  /\ Again
  /\ UNCHANGED <<server, more, cursor, watch, aborted, faults>>

----------------------------------------------------------------------------
Init ==
  /\ modseq \in 0 .. MaxState /\ revoked = FALSE
  /\ events = 0 /\ sub = 0
  /\ loop = "poll" /\ reader = "none"
  /\ seen = [w \in Pollers |-> None]
  /\ more = FALSE /\ cursor \in 0 .. modseq
  /\ recycled = FALSE /\ aborted = FALSE /\ deaf = FALSE
  /\ faults = 0

PollStep == \E w \in Pollers : ReadChanges(w) \/ PollSucceeds(w) \/ PollRefused(w)

WatchStep == ConnectOpens \/ ConnectRefused \/ StreamCut \/ TakeEvent

Next ==
  \/ ChangeHappens \/ Revoke \/ Abort
  \/ PollStep \/ (\E w \in Pollers : PollFails(w))
  \/ WatchStep \/ StreamFails \/ Recycle
  \/ DelayEnds

\* Requests end, timers fire, and the event loop runs what they wake; the
\* stream itself owes nothing.
Spec == /\ Init /\ [][Next]_vars
        /\ WF_vars(PollStep) /\ WF_vars(WatchStep)
        /\ WF_vars(Recycle) /\ WF_vars(DelayEnds)

----------------------------------------------------------------------------
TypeOK ==
  /\ modseq \in 0 .. MaxState /\ revoked \in BOOLEAN
  /\ events \in Nat /\ sub \in 0 .. modseq
  /\ loop \in {"poll", "watch", "delay", "ended"}
  /\ reader \in {"none", "connect", "read", "change"}
  /\ seen \in [Pollers -> (0 .. modseq) \union {None}]
  /\ more \in BOOLEAN /\ cursor \in 0 .. modseq
  /\ recycled \in BOOLEAN /\ aborted \in BOOLEAN /\ deaf \in BOOLEAN
  /\ faults \in 0 .. MaxFaults

(* The loop and the reader of the stream never poll at the same time, also  *)
(* when the recycle timer fires while a change is being handled: the poller *)
(* refuses a second poll, and two would race on the cursor file.            *)
PollsDontOverlap == ~(Polls("loop") /\ Polls("reader"))

(* While the reader waits on an open stream on which nothing is left to     *)
(* handle, discovery has caught up with every change that came after the    *)
(* stream was opened, unless a poll stopped at its page limit: a change     *)
(* announced during a poll is not taken to be covered by it.  This is about *)
(* a loop that goes on: once its signal is aborted a poll reads nothing     *)
(* more and returns as if it had, also in a watch that is deaf to the abort.*)
StreamCaughtUp ==
  (/\ reader = "read" /\ events = 0 /\ ~recycled /\ ~aborted /\ ~more)
    => modseq = sub \/ cursor = modseq

(* Every change is polled for at last unless the loop ends, also one that   *)
(* falls between a poll and the opening of the stream and is announced to   *)
(* nobody, or lies past the page limit of a poll.                           *)
EveryChangePolled ==
  \A n \in 1 .. MaxState : modseq >= n ~> (cursor >= n \/ loop = "ended")

(* A revoked credential ends the loop at last, although a refusal that      *)
(* reaches a recycled connection is swallowed.                              *)
RevokedEnds == revoked ~> loop = "ended"

(* An aborted loop ends at last: stop() and activate, which wait for it,    *)
(* rely on that (the fairness DiscoveryManager assumes of LoopEnds).  When  *)
(* the signal is aborted at the end of a poll, the watch that follows does  *)
(* not hear it, and only the recycle timer ends the loop.                   *)
AbortEnds == aborted ~> loop = "ended"
=============================================================================
