------------------------------ MODULE Notifier -------------------------------
(***************************************************************************)
(* SafeNotifier: the window that aggregates identical events, the bounded  *)
(* queue a worker's thread puts into and the drain thread takes from, the  *)
(* failures that go back to the worker's thread, and close; or, when it is *)
(* not deferred, the delivery on the caller's own thread.  One thread      *)
(* sends.  Each queue call is atomic, nothing else is: the drain thread    *)
(* may run between the put that found the queue full, the get that makes   *)
(* room and the second put, and the sender between the get that found the  *)
(* queue empty and the drain thread's test of _stop.                       *)
(***************************************************************************)
EXTENDS Integers, Sequences, FiniteSets

CONSTANTS
  Keys,       \* (runtime, strategy, type, message)
  MaxQueue, Window,
  MaxSends, MaxTime \* bounds

ASSUME NotifierAssumption ==
  /\ IsFiniteSet(Keys) /\ "none" \notin Keys
  /\ MaxQueue \in Nat \ {0} /\ Window \in Nat \ {0} /\ MaxSends \in Nat /\ MaxTime \in Nat

VARIABLES
  deferred, now, sends,
  recent,     \* _recent: when the window of a key began, and what it suppressed
  caller,     \* where the sending thread is
  carried,    \* the event it holds, or NoEvent
  queue,
  drain,      \* "waiting", "sending", "failing", "looked" (get raised Empty) or "ended"
  inHand,     \* the event the drain thread holds
  stop,
  success, failure, suppressed, dropped,
  pending,    \* _pending_failures
  handed,     \* failures given to on_failure
  \* --- history
  owed,       \* repeats of each key since it was last told
  unseen      \* close came between the drain thread's look and its test of _stop

aggregation == <<recent, suppressed, owed>>
counts == <<success, failure, dropped>>
thread == <<drain, inHand>>
stopping == <<stop, unseen>>
notifierVars == <<deferred, now, sends, aggregation, caller, carried, queue, thread, stopping, counts,
          pending, handed>>

NoEvent == [key |-> "none", repeats |-> 0]
Never == [start |-> -1, count |-> 0]

NotifierInit ==
  /\ deferred \in BOOLEAN /\ now = 0 /\ sends = 0
  /\ recent = [k \in Keys |-> Never] /\ owed = [k \in Keys |-> 0]
  /\ caller = "idle" /\ carried = NoEvent /\ queue = <<>>
  /\ drain = (IF deferred THEN "waiting" ELSE "ended") /\ inHand = NoEvent
  /\ stop = FALSE /\ unseen = FALSE
  /\ success = 0 /\ failure = 0 /\ suppressed = 0 /\ dropped = 0 /\ pending = <<>> /\ handed = 0

Advance ==
  /\ now < MaxTime /\ now' = now + 1
  /\ UNCHANGED <<deferred, sends, aggregation, caller, carried, queue, thread, stopping, counts,
                 pending, handed>>

-----------------------------------------------------------------------------
(* The sending thread.                                                     *)

\* Seeded bug: a window is forgotten as soon as it closes.
EvictedAtOnce(r) == r # Never /\ r.start < now - Window

\* _evict_stale: a window of grace.
Stale(r) == r # Never /\ r.start < now - 2 * Window

Fresh == [k \in Keys |-> IF Stale(recent[k]) THEN Never ELSE recent[k]]

\* _aggregate: the repeat is counted and goes no further,
Suppress(k) ==
  /\ caller = "idle" /\ ~stop /\ sends < MaxSends /\ sends' = sends + 1
  /\ Fresh[k] # Never /\ now - Fresh[k].start < Window
  /\ recent' = [Fresh EXCEPT ![k].count = @ + 1]
  /\ suppressed' = suppressed + 1 /\ owed' = [owed EXCEPT ![k] = @ + 1]
  /\ UNCHANGED <<deferred, now, caller, carried, queue, thread, stopping, counts, pending, handed>>

\* or a new window begins and the event says how many it stands for.
Accept(k) ==
  /\ caller = "idle" /\ ~stop /\ sends < MaxSends /\ sends' = sends + 1
  /\ Fresh[k] # Never => now - Fresh[k].start >= Window
  /\ recent' = [Fresh EXCEPT ![k] = [start |-> now, count |-> 0]]
  /\ owed' = [owed EXCEPT ![k] = 0]
  /\ carried' = [key |-> k, repeats |-> Fresh[k].count]
  /\ caller' = IF deferred THEN "put" ELSE "deliver"
  /\ UNCHANGED <<deferred, now, queue, thread, stopping, counts, suppressed, pending, handed>>

\* _on_send_failure
OnSendFailure == failure' = failure + 1 /\ handed' = handed + 1

\* _deliver_now; a failure goes to on_failure from this thread.
DeliverNow ==
  /\ caller = "deliver" /\ caller' = "idle" /\ carried' = NoEvent
  /\ \/ success' = success + 1 /\ UNCHANGED <<failure, handed>>
     \/ OnSendFailure /\ UNCHANGED success
  /\ UNCHANGED <<deferred, now, sends, aggregation, queue, thread, stopping, dropped, pending>>

Full == Len(queue) >= MaxQueue

\* _enqueue: put_nowait,
Put ==
  /\ caller = "put"
  /\ IF Full THEN caller' = "evict" /\ UNCHANGED <<queue, carried>>
     ELSE caller' = "pump" /\ queue' = Append(queue, carried) /\ carried' = NoEvent
  /\ UNCHANGED <<deferred, now, sends, aggregation, thread, stopping, counts, pending, handed>>

\* Seeded bug: the eviction is not counted.
Uncounted(n) == n

Counted(n) == n + 1

\* get_nowait drops the oldest, unless the drain thread has just emptied it,
Evict ==
  /\ caller = "evict" /\ caller' = "put_again"
  /\ IF queue = <<>> THEN UNCHANGED <<queue, dropped>>
     ELSE queue' = Tail(queue) /\ dropped' = Counted(dropped)
  /\ UNCHANGED <<deferred, now, sends, aggregation, carried, thread, stopping, success, failure,
                 pending, handed>>

\* and put_nowait once more.
PutAgain ==
  /\ caller = "put_again" /\ caller' = "pump" /\ carried' = NoEvent
  /\ IF Full THEN dropped' = Counted(dropped) /\ UNCHANGED queue
     ELSE queue' = Append(queue, carried) /\ UNCHANGED dropped
  /\ UNCHANGED <<deferred, now, sends, aggregation, thread, stopping, success, failure, pending, handed>>

\* _pump_failures
Pumped == pending' = <<>> /\ handed' = handed + Len(pending)

Pump ==
  /\ caller = "pump" /\ caller' = "idle" /\ Pumped
  /\ UNCHANGED <<deferred, now, sends, aggregation, carried, queue, thread, stopping, counts>>

\* close: the drain thread is asked to stop and joined; a synchronous one has
\* nothing to wait for.
Close ==
  /\ caller = "idle" /\ ~stop /\ stop' = TRUE /\ caller' = "joining"
  /\ unseen' = (drain = "looked")
  /\ UNCHANGED <<deferred, now, sends, aggregation, carried, queue, thread, counts, pending, handed>>

ThreadEnded == drain = "ended"

Joined ==
  /\ caller = "joining" /\ ThreadEnded /\ caller' = "closed" /\ Pumped
  /\ UNCHANGED <<deferred, now, sends, aggregation, carried, queue, thread, stopping, counts>>

\* The join's five seconds are over first: the failures so far are pumped, and
\* the daemon thread is left to the end of the process.
JoinTimesOut ==
  /\ caller = "joining" /\ ~ThreadEnded /\ caller' = "abandoned" /\ Pumped
  /\ UNCHANGED <<deferred, now, sends, aggregation, carried, queue, thread, stopping, counts>>

-----------------------------------------------------------------------------
(* The drain thread.                                                       *)

Take ==
  /\ drain = "waiting" /\ queue # <<>> /\ drain' = "sending"
  /\ inHand' = Head(queue) /\ queue' = Tail(queue)
  /\ UNCHANGED <<deferred, now, sends, aggregation, caller, carried, stopping, counts, pending, handed>>

\* The channel answers True, answers False, or raises.
Delivered ==
  /\ drain = "sending" /\ drain' = "waiting" /\ inHand' = NoEvent /\ success' = success + 1
  /\ UNCHANGED <<deferred, now, sends, aggregation, caller, carried, queue, stopping, failure, dropped,
                 pending, handed>>

AnsweredFalse ==
  /\ drain = "sending" /\ drain' = "failing" /\ failure' = failure + 1
  /\ UNCHANGED <<deferred, now, sends, aggregation, caller, carried, queue, inHand, stopping, success,
                 dropped, pending, handed>>

\* _record_deferred_failure
RecordFailure ==
  /\ \/ drain = "failing" /\ UNCHANGED failure
     \/ drain = "sending" /\ failure' = failure + 1
  /\ drain' = "waiting" /\ inHand' = NoEvent /\ pending' = Append(pending, inHand)
  /\ UNCHANGED <<deferred, now, sends, aggregation, caller, carried, queue, stopping, success, dropped,
                 handed>>

\* Seeded bug: get waits without a timeout.
WaitsForever == FALSE

TimesOut == queue = <<>>

\* get raises Empty; _stop is not read yet,
FindNothing ==
  /\ drain = "waiting" /\ TimesOut /\ drain' = "looked"
  /\ UNCHANGED <<deferred, now, sends, aggregation, caller, carried, queue, inHand, stopping, counts,
                 pending, handed>>

\* and whatever was put since, a stop ends the thread.
EndOrWait ==
  /\ drain = "looked" /\ drain' = IF stop THEN "ended" ELSE "waiting"
  /\ UNCHANGED <<deferred, now, sends, aggregation, caller, carried, queue, inHand, stopping, counts,
                 pending, handed>>

DrainStep == Take \/ Delivered \/ AnsweredFalse \/ RecordFailure \/ FindNothing \/ EndOrWait
CallerStep == DeliverNow \/ Put \/ Evict \/ PutAgain \/ Pump \/ Joined \/ JoinTimesOut

NotifierNext ==
  \/ Advance \/ Close \/ DrainStep \/ CallerStep
  \/ \E k \in Keys : Suppress(k) \/ Accept(k)

\* Both threads are scheduled; nobody has to send, or to close.
NotifierSpec ==
  /\ NotifierInit /\ [][NotifierNext]_notifierVars
  /\ WF_notifierVars(DrainStep) /\ WF_notifierVars(CallerStep)
=============================================================================
