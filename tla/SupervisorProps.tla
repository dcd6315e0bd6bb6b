---------------------------- MODULE SupervisorProps ----------------------------
(* What the feed and the supervisor promise together.                      *)
EXTENDS Supervisor, FiniteSets

TypeOK ==
  /\ at \in {"new", "drain0", "loop", "connect", "pump", "tick", "backoff", "ended", "failed"}
  /\ failures \in 0 .. MaxAttempts
  /\ stopping \in BOOLEAN /\ running \in BOOLEAN /\ degraded \in BOOLEAN
  /\ segmentOf \in [Contracts -> Segments \cup {NoSegment}]
  /\ carried \subseteq Contracts \X Segments
  /\ pending \in Seq(Requests) /\ pendingSince \in {"none", "fresh", "old"}
  /\ routed \in [Workers -> SUBSET Contracts]
  /\ health \in {"STARTING", "RUNNING", "DEGRADED", "STOPPED"}
  /\ forwarding \in Requests \cup {NoRequest}
  /\ process \in [Workers -> Exits \cup {"running"}]

\* Whatever drops, raises and reconnects came between, a socket that is being
\* read was subscribed to every contract a worker is waiting for, in the
\* segment it was first asked for in (a socket rebuilt without the runtime
\* subscriptions "would reconnect into silence", dhan.py).
RoutedIsCarried ==
  at = "pump" => \A w \in Workers : \A c \in routed[w] : <<c, segmentOf[c]>> \in carried

\* "One instrument cannot live in two segments at once" (dhan.py): whoever
\* asks second, for the same contract elsewhere, moves nothing.
SegmentsStay ==
  [][\A c \in Contracts : segmentOf[c] # NoSegment => segmentOf'[c] = segmentOf[c]]_vars

\* The attempt budget bounds one unrecovered outage, not the day's
\* (reconnect.py): a feed that has delivered has its whole budget.
RecoveredFeedHasItsBudget == ~degraded => failures = 0

\* "DEGRADED is deliberately the last heartbeat" of an unclean shutdown
\* (supervisor.py), and STOPPED is never said of a feed still open.
FinalHealthIsTrue ==
  /\ main = "returned" /\ ~clean => health = "DEGRADED"
  /\ health = "STOPPED" => at = "ended"

\* "The rest of the shutdown completes anyway" (supervisor.py): a signal, or
\* the end of the feed, ends the run even when the feed is silent and the
\* workers do not leave.
ShutdownCompletes == signalled \/ Over ~> main \in {"returned", "raised"}

\* A stop asked for while adapter.start is raising its own flag is lost there,
\* and taken up at the next tick: the thread ends if frames keep coming.
StopIsTakenUp == FairFeed => (main = "joining" /\ signalled ~> Over)

\* The run ends whatever the feed does, and the feed's thread with it.
GroupStops == ShutdownCompletes /\ StopIsTakenUp

\* A contract a worker asked for is routed to it, through the control queue,
\* the main thread and the feed thread, unless the run is over first.
RequestIsServed ==
  FairFeed => \A w \in Workers, c \in Contracts :
                c \in asked[w] ~> c \in routed[w] \/ main # "poll"

\* "Sentinel per worker, on every channel it has" (supervisor.py): a run that
\* is over has told every worker so.
EveryWorkerIsTold == main \in {"returned", "raised"} => told = Workers

=============================================================================
