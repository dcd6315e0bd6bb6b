------------------------------ MODULE Supervisor ------------------------------
(***************************************************************************)
(* IntradayOptionsSupervisor.run: the main thread that spawns the workers, *)
(* polls while the feed thread runs, and shuts the group down, over        *)
(* SharedFeed's feed thread and the worker processes.                      *)
(***************************************************************************)
EXTENDS SharedFeed

VARIABLES
  main,       \* where the main thread is
  forwarding, \* the request whose two statements it is between
  signalled,
  alarmed,    \* _stuck_subscription_alarmed
  health,     \* the state of the last heartbeat written
  clean,      \* result.clean_feed_shutdown
  exitCodes,  \* result.worker_exit_codes
  locked,     \* the supervisor's lock is held
  \* --- the workers
  control,    \* each one's control queue
  asked,      \* the contracts each has asked for
  told,       \* the workers a sentinel was published to
  process     \* each one's process: "running", or how it exited

mainState == <<main, forwarding, signalled, alarmed, health, clean, exitCodes, locked>>
workerState == <<control, asked, told, process>>
vars == <<feedVars, mainState, workerState>>

Exits == {"ok", "error"}

Init ==
  /\ FeedInit
  /\ main = "spawned" /\ forwarding = NoRequest /\ signalled = FALSE /\ alarmed = FALSE
  /\ health = "STARTING" /\ clean = TRUE /\ locked = TRUE
  /\ exitCodes = [w \in Workers |-> "none"]
  /\ control = [w \in Workers |-> <<>>] /\ asked = [w \in Workers |-> {}]
  /\ told = {} /\ process = [w \in Workers |-> "running"]

-----------------------------------------------------------------------------
(* The workers and the operator.                                           *)

\* HubTickFeed: a contract the engine has chosen, asked for once.
Ask(w, c, s) ==
  /\ process[w] = "running" /\ c \notin asked[w]
  /\ asked' = [asked EXCEPT ![w] = @ \cup {c}]
  /\ control' = [control EXCEPT ![w] = Append(@, [worker |-> w, contract |-> c, segment |-> s])]
  /\ UNCHANGED <<feedVars, mainState, told, process>>

\* At its sentinel, its session's end or its own signal, or for want of its
\* lock (a duplicate), which is an error like any other here.
Exit(w, how) ==
  /\ process[w] = "running"
  /\ process' = [process EXCEPT ![w] = how]
  /\ UNCHANGED <<feedVars, mainState, control, asked, told>>

Signal ==
  /\ ~signalled /\ main \in {"poll", "woken"} /\ signalled' = TRUE
  /\ UNCHANGED <<feedVars, main, forwarding, alarmed, health, clean, exitCodes, locked, workerState>>

-----------------------------------------------------------------------------
(* _run_feed.                                                              *)

\* feed_thread.start, and the first RUNNING beat.
StartFeed ==
  /\ main = "spawned" /\ main' = "poll" /\ health' = "RUNNING" /\ HubStart
  /\ UNCHANGED <<forwarding, signalled, alarmed, clean, exitCodes, locked, workerState>>

\* _drain_control_queues, one request: the two statements of
\* request_subscription.
TakeRequest(w) ==
  /\ main \in {"poll", "woken"} /\ forwarding = NoRequest /\ control[w] # <<>>
  /\ forwarding' = Head(control[w]) /\ control' = [control EXCEPT ![w] = Tail(@)]
  /\ NoteTheTime
  /\ UNCHANGED <<feedThread, stopping, segmentOf, carried, pending, routed,
                 main, signalled, alarmed, health, clean, exitCodes, locked, asked, told, process>>

ForwardRequest ==
  /\ forwarding # NoRequest /\ forwarding' = NoRequest /\ Enqueue(forwarding)
  /\ UNCHANGED <<feedThread, stopping, segmentOf, carried, pendingSince, routed,
                 main, signalled, alarmed, health, clean, exitCodes, locked, workerState>>

\* _check_stuck_subscription: once per run.
CheckStuckSubscription ==
  /\ main = "poll" /\ forwarding = NoRequest
  /\ pending # <<>> /\ pendingSince = "old" /\ ~alarmed
  /\ alarmed' = TRUE /\ health' = "DEGRADED"
  /\ UNCHANGED <<feedVars, main, forwarding, signalled, clean, exitCodes, locked, workerState>>

\* _beat_running, when the writer's interval has passed.
BeatRunning ==
  /\ main = "poll" /\ forwarding = NoRequest /\ health' = "RUNNING"
  /\ UNCHANGED <<feedVars, main, forwarding, signalled, alarmed, clean, exitCodes, locked, workerState>>

\* The feed has ended or a signal came.
Wake ==
  /\ main = "poll" /\ forwarding = NoRequest /\ (signalled \/ Over)
  /\ main' = "woken"
  /\ UNCHANGED <<feedVars, forwarding, signalled, alarmed, health, clean, exitCodes, locked, workerState>>

Move(from, to) ==
  /\ main = from /\ forwarding = NoRequest /\ main' = to
  /\ UNCHANGED <<forwarding, signalled, alarmed, exitCodes>>

\* Drained once more; only a signal asks the feed to finish.
LastDrain ==
  /\ \A w \in Workers : control[w] = <<>>
  /\ Move("woken", IF signalled THEN "stopping" ELSE "joining")
  /\ UNCHANGED <<feedVars, health, clean, locked, workerState>>

RequestStop ==
  /\ Move("stopping", "clearing") /\ SetStop
  /\ UNCHANGED <<feedThread, subscriptions, health, clean, locked, workerState>>

ClearTheFlag ==
  /\ Move("clearing", "joining") /\ ClearRunning
  /\ UNCHANGED <<at, failures, degraded, stopping, subscriptions, health, clean, locked, workerState>>

\* The thread is dead: hub.stop flushes, and a failure is raised here.
FeedJoined ==
  /\ Over /\ Move("joining", IF at = "failed" THEN "raising" ELSE "sentinels") /\ SetStop
  /\ UNCHANGED <<feedThread, subscriptions, health, clean, locked, workerState>>

\* Seeded bug: the join has no timeout.
GraceNeverExpires == FALSE

\* _raise_silent_feed_alarm
GraceExpires ==
  /\ ~Over /\ Move("joining", "sentinels") /\ clean' = FALSE /\ health' = "DEGRADED"
  /\ UNCHANGED <<feedVars, locked, workerState>>

-----------------------------------------------------------------------------
(* The rest of run.                                                        *)

SendSentinels ==
  /\ Move("sentinels", "reaping") /\ told' = Workers
  /\ UNCHANGED <<feedVars, health, clean, locked, control, asked, process>>

\* One worker: joined, or terminated after the timeout and joined again.  A
\* process that outlives that too has no exit code, which is recorded as 0.
Reap(w) ==
  /\ main = "reaping" /\ exitCodes[w] = "none"
  /\ \/ process[w] \in Exits /\ exitCodes' = [exitCodes EXCEPT ![w] = process[w]] /\ UNCHANGED process
     \/ process[w] = "running" /\ exitCodes' = [exitCodes EXCEPT ![w] = "error"]
        /\ process' = [process EXCEPT ![w] = "error"]
     \/ process[w] = "running" /\ exitCodes' = [exitCodes EXCEPT ![w] = "ok"] /\ UNCHANGED process
  /\ UNCHANGED <<feedVars, main, forwarding, signalled, alarmed, health, clean, locked, control, asked, told>>

FinalHealth == IF clean THEN "STOPPED" ELSE health

\* _publish_final_health, and the finally clause.
Return ==
  /\ \A w \in Workers : exitCodes[w] # "none"
  /\ Move("reaping", "returned") /\ health' = FinalHealth /\ locked' = FALSE
  /\ UNCHANGED <<feedVars, clean, workerState>>

\* The finally clause alone.
Raise ==
  /\ Move("raising", "raised") /\ locked' = FALSE
  /\ UNCHANGED <<feedVars, health, clean, workerState>>

-----------------------------------------------------------------------------

FeedThread == at # "new" /\ FeedStep /\ UNCHANGED <<mainState, workerState>>
Clock == ClockAges /\ UNCHANGED <<mainState, workerState>>

Shutdown == LastDrain \/ RequestStop \/ ClearTheFlag \/ FeedJoined \/ GraceExpires
            \/ SendSentinels \/ (\E w \in Workers : Reap(w)) \/ Return \/ Raise

Main == StartFeed \/ (\E w \in Workers : TakeRequest(w)) \/ ForwardRequest
        \/ CheckStuckSubscription \/ BeatRunning \/ Wake \/ Shutdown

Worker == \E w \in Workers :
             \/ \E c \in Contracts, s \in Segments : Ask(w, c, s)
             \/ \E how \in Exits : Exit(w, how)

Next == Main \/ FeedThread \/ Clock \/ Worker \/ Signal

Spec == Init /\ [][Next]_vars

\* The main thread is scheduled: each of its poll's duties, and the shutdown.
FairMain ==
  /\ WF_vars(StartFeed) /\ WF_vars(ForwardRequest) /\ WF_vars(Wake) /\ WF_vars(Shutdown)
  /\ WF_vars(CheckStuckSubscription)
  /\ \A w \in Workers : WF_vars(TakeRequest(w))

\* The connection lives: it delivers frames, or it fails.  Assumed only where
\* a property says so.
FairFeed == WF_vars(FeedThread)

FairSpec == Spec /\ FairMain
=============================================================================
