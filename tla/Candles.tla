-------------------------------- MODULE Candles --------------------------------
(***************************************************************************)
(* One instrument's candles in the hub: CandleAggregator fed by the ticks  *)
(* of a connection that is lost and made again, marked by mark_feed_gap    *)
(* and flushed by SharedFeedHub.stop, and the bounded queue to one worker  *)
(* that _fan_out publishes into, which drops its oldest item when full.    *)
(*                                                                         *)
(* A tick is its exchange time and a candle is the times it covers: what   *)
(* prices it has is data.  A bar's `hole' is the history the properties    *)
(* compare candles with: ticks after its first one are known to be lost.   *)
(***************************************************************************)
EXTENDS Integers, Sequences

CONSTANTS Interval,               \* CandleAggregator.interval_seconds
          WindowStart, WindowEnd, \* SessionWindow
          Depth,                  \* BoundedWorkerQueue.max_depth
          Sentinel,
          MaxDelay, LastTime      \* bounds: how late a tick may come; the clock

ASSUME CandleAssumption ==
  /\ Interval \in Nat \ {0} /\ Depth \in Nat \ {0}
  /\ MaxDelay \in Nat /\ LastTime \in Nat

VARIABLES
  now,      \* exchange clock
  link,     \* the feed: "off", "up", "dead" and not noticed, "down", "stopped"
  opened,   \* when the connection was made
  bar,      \* _open_bars
  closed,   \* _published: starts of the intervals completed
  queue,    \* the worker's
  silent    \* when frames stopped, while nobody noticed

hubVars == <<link, opened, bar, closed, queue, silent>>
candleVars == <<now, hubVars>>

Times == 0 .. LastTime
Links == {"off", "up", "dead", "down", "stopped"}
NoBar == [start |-> -1, first |-> -1, gap |-> FALSE, hole |-> FALSE]

FloorToInterval(t) == t - (t % Interval)
Contains(t) == WindowStart <= t /\ t < WindowEnd

NewBar(t) == [start |-> FloorToInterval(t), first |-> t, gap |-> FALSE, hole |-> FALSE]
Freeze(b) == [start |-> b.start, end |-> b.start + Interval, hole |-> b.hole]

\* The instants from t to u were not, or not wholly, received.
Missing(b, t, u) ==
  IF b = NoBar THEN b
  ELSE [b EXCEPT !.hole = @ \/ \E i \in t .. u : b.first < i /\ i < b.start + Interval]

\* BoundedWorkerQueue.publish, as one step (TickChannel takes it apart).
Offer(q, x) == Append(IF Len(q) >= Depth THEN Tail(q) ELSE q, x)

CandleInit ==
  /\ now = 0 /\ link = "off" /\ opened = 0 /\ bar = NoBar /\ closed = {}
  /\ queue = <<>> /\ silent = 0

-----------------------------------------------------------------------------
(* The connection.                                                         *)

\* Seeded bug: the bars are not told.
Unmarked(b) == b

\* CandleAggregator.mark_feed_gap
MarkFeedGap(b) == IF b = NoBar THEN b ELSE [b EXCEPT !.gap = TRUE]

\* The connection fails: ReconnectingFeed marks every open bar.
Disconnected ==
  /\ link' = "down" /\ silent' = 0
  /\ bar' = MarkFeedGap(Missing(bar, IF link = "dead" THEN silent ELSE now, now))

LinkLost == link \in {"up", "dead"} /\ Disconnected /\ UNCHANGED <<now, opened, closed, queue>>

\* Frames stop coming, and nobody knows yet.
FramesStop ==
  /\ link = "up" /\ link' = "dead" /\ silent' = now
  /\ UNCHANGED <<now, opened, bar, closed, queue>>

\* The same aggregator goes on.
Reconnected ==
  /\ link = "down" /\ link' = "up" /\ opened' = now
  /\ UNCHANGED <<now, bar, closed, queue, silent>>

Advance ==
  /\ now < LastTime /\ now' = now + 1
  /\ bar' = IF link = "down" THEN Missing(bar, now + 1, now + 1) ELSE bar
  /\ UNCHANGED <<link, opened, closed, queue, silent>>

-----------------------------------------------------------------------------
(* CandleAggregator.add, called by SharedFeedHub.on_tick.                  *)

\* _complete: the interval is done with, and what is published of it is the
\* candle, or nothing when it spans an outage.
Completed(b) == IF b.gap THEN <<>> ELSE <<Freeze(b)>>

\* SharedFeedHub._fan_out
FanOut(candles) == IF candles = <<>> THEN queue ELSE Offer(queue, Head(candles))

Complete == closed' = closed \cup {bar.start} /\ queue' = FanOut(Completed(bar))

RollsOver(t) == FloorToInterval(t) > bar.start

\* A tick of the open interval is absorbed; one of an earlier interval, or
\* outside the session, is counted and dropped; one of a later interval
\* closes the bar.  Completing an interval twice raises, out of on_tick and
\* through the adapter's loop.
AddTick(t) ==
  /\ link = "up" /\ opened <= t /\ now - MaxDelay <= t /\ t <= now
  /\ IF Contains(t) /\ bar = NoBar
       THEN bar' = NewBar(t) /\ UNCHANGED <<link, closed, queue, silent>>
     ELSE IF Contains(t) /\ RollsOver(t)
       THEN IF bar.start \in closed
              THEN Disconnected /\ UNCHANGED <<closed, queue>>
              ELSE bar' = NewBar(t) /\ Complete /\ UNCHANGED <<link, silent>>
     ELSE UNCHANGED <<link, bar, closed, queue, silent>>
  /\ UNCHANGED <<now, opened>>

\* CandleAggregator.flush: the partial bar like any other, or none.
Flushed == IF bar = NoBar THEN <<>> ELSE Completed(bar)

\* SharedFeedHub.stop, and then the supervisor sends the sentinel.
HubStops ==
  /\ link \in {"up", "dead", "down"} /\ link' = "stopped" /\ bar' = NoBar
  /\ closed' = IF bar = NoBar THEN closed ELSE closed \cup {bar.start}
  /\ queue' = Offer(FanOut(Flushed), Sentinel)
  /\ silent' = 0 /\ UNCHANGED <<now, opened>>

HubStep == LinkLost \/ FramesStop \/ Reconnected \/ (\E t \in Times : AddTick(t)) \/ HubStops

-----------------------------------------------------------------------------

\* An interval that was completed is never open again, so publishing it a
\* second time, which _complete refuses by raising, cannot come about:
\* CandleAggregator.add's treatment of late ticks, across reconnects.
NeverRepublished == bar # NoBar => \A s \in closed : s < bar.start

\* A published candle misses no tick after its first one that the feed knows
\* it lost: mark_feed_gap comes in time for every bar an outage touches,
\* however late the outage is noticed.
NoHoleAfterFirst == \A i \in DOMAIN queue : queue[i] # Sentinel => ~queue[i].hole
=============================================================================
