----------------------------- MODULE MCNotifier ------------------------------
(* Notifier for TLC: two keys, a queue of two, windows of two units.         *)
EXTENDS Notifier, Functions

Held(event) == IF event = NoEvent THEN 0 ELSE 1
OwedInAll == SumFunctionOnSet(owed, Keys)

-----------------------------------------------------------------------------
(* Every event sent is in one place: suppressed, counted as delivered,      *)
(* failed or dropped, queued, or in the hands of a thread.  Whatever the    *)
(* drain thread does between a producer's three queue calls, none is lost   *)
(* or counted twice ("a counter is how a stuck channel is told apart").     *)
EveryEventIsCounted ==
  sends = suppressed + success + failure + dropped + Len(queue) + Held(carried)
            + (IF drain = "sending" THEN 1 ELSE 0)

NotifierTypeOK ==
  /\ Len(queue) <= MaxQueue /\ Len(pending) <= MaxSends
  /\ ~deferred => queue = <<>> /\ pending = <<>> /\ drain = "ended"
  /\ (inHand # NoEvent) = (drain \in {"sending", "failing"})
  /\ (carried # NoEvent) = (caller \in {"put", "evict", "put_again", "deliver"})
  /\ OwedInAll <= suppressed

(* A close that joined the drain thread has handed every failure to          *)
(* on_failure, on this thread; and unless it came between the drain thread's *)
(* look at the queue and its test of _stop, nothing is left queued.          *)
NothingIsForgotten ==
  caller = "closed" => pending = <<>> /\ failure = handed /\ (unseen \/ queue = <<>>)

(* The docstring of close has it without the exception: the thread stops     *)
(* "once its queue is empty", so that "a run's last few notifications are    *)
(* not silently abandoned" (base.py:407-413).  It is not so: an event put,   *)
(* and a stop set, after get raised Empty and before is_set() is read end    *)
(* the thread with the event queued, delivered and counted by nobody.        *)
NothingIsLeftAtClose == caller = "closed" => queue = <<>>

(* A failure is handed over once: never more than were counted, and what    *)
(* was counted is handed, pending, or in the drain thread's hands.          *)
FailuresAreHandedOnce ==
  failure = handed + Len(pending) + (IF drain = "failing" THEN 1 ELSE 0)

(* Events and failures are where the counters say, to the end.              *)
NotifierIsSound == NotifierTypeOK /\ EveryEventIsCounted /\ FailuresAreHandedOnce /\ NothingIsForgotten

(* The next notice of an event tells of every repeat its window suppressed, *)
(* unless two windows have gone by.                                         *)
RepeatsAreTold ==
  [][\A k \in Keys :
       carried = NoEvent /\ carried'.key = k /\ recent[k] # Never /\ now - recent[k].start <= 2 * Window
         => carried'.repeats = owed[k]]_notifierVars

(* A close returns, joined or timed out, and the drain thread ends: it is    *)
(* never left waiting at an empty queue for an event nobody will send.       *)
CloseEnds == stop ~> (caller \in {"closed", "abandoned"} /\ drain = "ended")
=============================================================================
