------------------------------ MODULE SharedFeed ------------------------------
(***************************************************************************)
(* The group's one market data connection: SharedFeedHub's runtime         *)
(* subscriptions, ReconnectingFeed's loop and DhanMarketFeedAdapter, all   *)
(* run by the feed thread.  Another thread enqueues subscription requests  *)
(* and asks for the stop.  The underlying, which every worker registers,   *)
(* is always subscribed and stands behind any tick; only option contracts, *)
(* subscribed while the feed runs, are followed one by one.  Candles and   *)
(* the fan-out of a tick are TickChannel's and CandleAggregator's.         *)
(***************************************************************************)
EXTENDS Integers, Sequences

CONSTANTS Workers, Contracts, Segments, NoSegment, NoRequest,
          MaxAttempts          \* ReconnectPolicy.max_attempts

ASSUME FeedAssumption == MaxAttempts \in Nat \ {0} /\ NoSegment \notin Segments

VARIABLES
  \* --- the feed thread
  at,           \* where it is; "ended" and "failed" are the dead thread
  stopping,     \* ReconnectingFeed._stopped and _stop_requested
  running,      \* the adapter's _running
  failures,     \* _consecutive_failures
  degraded,     \* health.degraded
  \* --- subscriptions
  segmentOf,    \* the adapter's _security_ids with their _segments
  carried,      \* what the open socket was subscribed to
  pending,      \* the hub's _pending_subscriptions
  pendingSince, \* its clock: "none", "fresh", or "old" past the alarm threshold
  routed        \* each channel's dynamic_ids

feedThread == <<at, running, failures, degraded>>
subscriptions == <<segmentOf, carried, pending, pendingSince, routed>>
feedVars == <<feedThread, stopping, subscriptions>>

Requests == [worker : Workers, contract : Contracts, segment : Segments]

Over == at \in {"ended", "failed"}
SocketOpen == at \in {"pump", "tick"}

FeedInit ==
  /\ at = "new" /\ stopping = FALSE /\ running = FALSE
  /\ failures = 0 /\ degraded = TRUE
  /\ segmentOf = [c \in Contracts |-> NoSegment] /\ carried = {}
  /\ pending = <<>> /\ pendingSince = "none"
  /\ routed = [w \in Workers |-> {}]

-----------------------------------------------------------------------------
(* Leaving adapter.start: its finally clause closes the socket.            *)

Close == running' = FALSE /\ carried' = {}

\* A return: the loop breaks, whatever asked for it.
Ended == at' = "ended" /\ Close /\ UNCHANGED <<failures, degraded>>

\* Seeded bug: a recovery does not give the attempts back.
NeverRestored == failures

Restored == 0

\* An exception: another attempt, unless a stop was asked for or the budget
\* is spent.
Failed ==
  IF stopping
    THEN Ended
    ELSE /\ Close /\ failures' = failures + 1 /\ degraded' = TRUE
         /\ at' = IF failures' >= MaxAttempts THEN "failed" ELSE "backoff"

-----------------------------------------------------------------------------
(* SharedFeedHub.start and ReconnectingFeed._run.                          *)

HubStart == at = "new" /\ at' = "drain0" /\ UNCHANGED <<running, failures, degraded, stopping, subscriptions>>

\* The loop's test, then _mark_connected.
TryConnect ==
  /\ at = "loop"
  /\ IF stopping THEN Ended
                 ELSE at' = "connect" /\ UNCHANGED <<running, failures, degraded, carried>>
  /\ UNCHANGED <<stopping, segmentOf, pending, pendingSince, routed>>

Subscribed == {c \in Contracts : segmentOf[c] # NoSegment}

\* Seeded bug: a new socket carries the registered instruments only.
CarriedAfresh == {}

\* A new MarketFeed is built with the whole subscription set.
CarriedByNewSocket == {<<c, segmentOf[c]>> : c \in Subscribed}

\* adapter.start raises _running itself, whatever was asked for meanwhile.
Connect ==
  /\ at = "connect" /\ at' = "pump" /\ running' = TRUE
  /\ carried' = CarriedByNewSocket
  /\ UNCHANGED <<failures, degraded, stopping, segmentOf, pending, pendingSince, routed>>

\* The connection is refused, or drops.
ConnectionLost ==
  /\ at \in {"connect", "pump"} /\ Failed
  /\ UNCHANGED <<stopping, segmentOf, pending, pendingSince, routed>>

\* The sleep, then _reconnect: the adapter is stopped and told its ids again.
Reconnect ==
  /\ at = "backoff" /\ at' = "loop" /\ Close
  /\ UNCHANGED <<failures, degraded, stopping, segmentOf, pending, pendingSince, routed>>

-----------------------------------------------------------------------------
(* The adapter's frame loop.                                               *)

\* A frame that is no tick: only the loop's own test of _running.
QuietFrame ==
  /\ at = "pump" /\ ~running /\ Ended
  /\ UNCHANGED <<stopping, segmentOf, pending, pendingSince, routed>>

\* A tick reaches _observe, even one received after the stop was asked for.
\* Real data is what restores the attempt budget.
Tick ==
  /\ at = "pump" /\ at' = "tick"
  /\ degraded' = FALSE /\ failures' = IF degraded THEN Restored ELSE failures
  /\ UNCHANGED <<running, stopping, subscriptions>>

Draining == at \in {"drain0", "tick"}

\* An exception in hub.start's own drain ends the feed; in a tick's, it
\* leaves adapter.start.
Raised ==
  IF at = "drain0" THEN at' = "failed" /\ UNCHANGED <<running, failures, degraded, carried>>
                   ELSE Failed

\* The adapter refuses to move an instrument to another segment.
Conflicts(c, s) == segmentOf[c] \notin {NoSegment, s}

\* adapter.subscribe: the id is remembered before the socket is told, so a
\* socket that fails here is told again when it is rebuilt.
Subscribe(c, s) ==
  IF Conflicts(c, s)
    THEN Raised /\ UNCHANGED segmentOf
    ELSE /\ segmentOf' = [segmentOf EXCEPT ![c] = s]
         /\ \/ /\ carried' = IF SocketOpen THEN carried \cup {<<c, s>>} ELSE carried
               /\ UNCHANGED feedThread
            \/ SocketOpen /\ c \notin Subscribed /\ Raised

\* One request off the queue of _apply_pending_subscriptions: routed to the
\* worker first, then subscribed.
Apply ==
  /\ Draining /\ pending # <<>> /\ pending' = Tail(pending)
  /\ LET r == Head(pending) IN
       IF r.contract \in routed[r.worker]
         THEN UNCHANGED <<feedThread, segmentOf, carried, routed>>
         ELSE /\ routed' = [routed EXCEPT ![r.worker] = @ \cup {r.contract}]
              /\ Subscribe(r.contract, r.segment)
  /\ UNCHANGED <<stopping, pendingSince>>

\* The stop is taken up inside the callback, by the thread that owns the
\* connection.
StopSeen == stopping

\* The queue is empty: its clock is cleared and the rest of the callback runs.
Drained ==
  /\ Draining /\ pending = <<>>
  /\ pendingSince' = "none"
  /\ IF at = "tick" /\ (StopSeen \/ ~running)
       THEN Ended
       ELSE /\ at' = IF at = "tick" THEN "pump" ELSE "loop"
            /\ UNCHANGED <<running, failures, degraded, carried>>
  /\ UNCHANGED <<stopping, segmentOf, pending, routed>>

FeedStep == HubStart \/ TryConnect \/ Connect \/ ConnectionLost \/ Reconnect \/ QuietFrame
            \/ Tick \/ Apply \/ Drained

-----------------------------------------------------------------------------
(* What another thread does: request_subscription in its two statements,   *)
(* request_stop in its two, and stop once the thread is dead.              *)

NoteTheTime == pendingSince' = IF pendingSince = "none" THEN "fresh" ELSE pendingSince

\* Seeded bug: only the last request is kept.
KeepTheLast(r) == pending' = <<r>>

Enqueue(r) == pending' = Append(pending, r)

SetStop == stopping' = TRUE
ClearRunning == running' = FALSE

\* Thirty seconds pass.
ClockAges ==
  /\ pendingSince = "fresh" /\ pendingSince' = "old"
  /\ UNCHANGED <<feedThread, stopping, segmentOf, carried, pending, routed>>
=============================================================================
