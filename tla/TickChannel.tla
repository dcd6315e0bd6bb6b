----------------------------- MODULE TickChannel -----------------------------
(***************************************************************************)
(* One worker's tick channel: the hub publishes into a bounded             *)
(* multiprocessing queue that drops its oldest item when full              *)
(* (BoundedWorkerQueue), tells the worker in band that it dropped          *)
(* (SharedFeedHub._notify_drop), and at shutdown sends a sentinel;         *)
(* HubTickFeed consumes on the other side.  The queue counts its items     *)
(* with a semaphore, hands them to a feeder thread that writes a pipe, and *)
(* guards the pipe's reading end with a lock that a blocked get holds.     *)
(***************************************************************************)
EXTENDS Integers, Sequences, Functions

CONSTANTS MaxDepth,          \* BoundedWorkerQueue.max_depth
          DropNoticeEvery,
          Notice, Sentinel, Nothing,
          MaxTicks           \* bound

ASSUME ChannelAssumption ==
  MaxDepth \in Nat \ {0} /\ DropNoticeEvery \in Nat \ {0} /\ MaxTicks \in Nat

\* A notice and the sentinel are told from a tick by their types.
ASSUME MarksAreNoTicks ==
  /\ Notice \notin 1 .. MaxTicks /\ Sentinel \notin 1 .. MaxTicks
  /\ Nothing \notin 1 .. MaxTicks /\ Sentinel \notin {Notice, Nothing}

VARIABLES
  \* --- the queue
  buffer,     \* accepted, not yet written by the feeder thread
  pipe,       \* written, not yet read
  \* --- the hub
  hub,        \* where in publish, or between two
  offer,      \* the item being published
  ticks,      \* ticks offered so far; the number of the last one
  published, dropped,
  lastNotice, \* _last_drop_notice; 0 for none
  \* --- the worker
  reader,     \* where HubTickFeed.run is in the queue's get
  item,       \* what it has read
  received,   \* items it has read
  lastTick,   \* the number of the last tick it handled
  blocked,    \* it was told of a drop, and refuses entries
  \* --- history
  exposed,    \* the last notice went into a queue with room to spare, or the
              \* worker has read since: fewer drops than a cadence reach it
  noticeLost  \* a notice was refused by the second put, evicted exposed, or
              \* evicted by the sentinel

queue == <<buffer, pipe>>
hubState == <<hub, offer, ticks, published, dropped, lastNotice>>
worker == <<reader, item, received, lastTick, blocked>>
history == <<exposed, noticeLost>>
vars == <<queue, hubState, worker, history>>

Items == 1 .. MaxTicks \cup {Notice, Sentinel}

\* The semaphore: an item read is still counted until get releases it.
InFlight == Len(buffer) + Len(pipe) + (IF reader = "releasing" THEN 1 ELSE 0)
Full == InFlight >= MaxDepth

\* The reading end's lock is held through a get, waiting included.
PipeLocked == reader \in {"waiting", "releasing"}

Init ==
  /\ buffer = <<>> /\ pipe = <<>>
  /\ hub = "idle" /\ offer = Nothing /\ ticks = 0 /\ published = 0 /\ dropped = 0
  /\ lastNotice = 0
  /\ reader = "loop" /\ item = Nothing /\ received = 0 /\ lastTick = 0
  /\ blocked = FALSE /\ exposed = FALSE /\ noticeLost = FALSE

-----------------------------------------------------------------------------
(* SharedFeedHub._fan_out_tick and BoundedWorkerQueue.publish.             *)

Publish(x) == hub' = "put" /\ offer' = x

FanOutTick ==
  /\ hub = "idle" /\ ticks < MaxTicks
  /\ ticks' = ticks + 1 /\ Publish(ticks + 1)
  /\ UNCHANGED <<queue, published, dropped, lastNotice, worker, history>>

\* The supervisor's shutdown, once the feed has ended.
SendSentinel ==
  /\ hub = "idle" /\ Publish(Sentinel)
  /\ UNCHANGED <<queue, ticks, published, dropped, lastNotice, worker, history>>

\* publish returns; a tick that cost something is followed by _notify_drop.
Published(costly) ==
  hub' = IF offer = Sentinel THEN "done"
         ELSE IF costly /\ offer # Notice THEN "notify" ELSE "idle"

Accept ==
  /\ buffer' = Append(buffer, offer) /\ published' = published + 1
  /\ exposed' = IF offer = Notice THEN InFlight < MaxDepth - 1 ELSE exposed

Put ==
  /\ hub = "put"
  /\ IF Full THEN hub' = "evict" /\ UNCHANGED <<buffer, published, exposed>>
             ELSE Accept /\ Published(FALSE)
  /\ UNCHANGED <<pipe, offer, ticks, dropped, lastNotice, worker, noticeLost>>

\* _drop_oldest: get_nowait, which finds nothing when the reader holds the
\* lock or the feeder has yet to write.
DropOldest ==
  /\ hub = "evict" /\ hub' = "retry"
  /\ IF PipeLocked \/ pipe = <<>>
       THEN UNCHANGED <<pipe, dropped, noticeLost>>
       ELSE /\ pipe' = Tail(pipe) /\ dropped' = dropped + 1
            /\ noticeLost' = (noticeLost \/ (Head(pipe) = Notice /\ (offer = Sentinel \/ exposed)))
  /\ UNCHANGED <<buffer, offer, ticks, published, lastNotice, worker, exposed>>

\* Seeded bug: the refused item is not counted.
RefusedUncounted == dropped

Refused == dropped + 1

\* The second put; still full, the new item is the one dropped.
Retry ==
  /\ hub = "retry"
  /\ IF Full
       THEN /\ dropped' = Refused /\ UNCHANGED <<buffer, published, exposed>>
            /\ noticeLost' = (noticeLost \/ offer = Notice)
       ELSE Accept /\ UNCHANGED <<dropped, noticeLost>>
  /\ Published(TRUE)
  /\ UNCHANGED <<pipe, offer, ticks, lastNotice, worker>>

Least(a, b) == IF a < b THEN a ELSE b
Greatest(a, b) == IF a > b THEN a ELSE b

\* Seeded bug: the cadence is not clamped below the depth.
UnclampedCadence == DropNoticeEvery

\* drop_notice_cadence
Cadence == Greatest(1, Least(DropNoticeEvery, MaxDepth \div 2))

\* _notify_drop: the first drop, then one in Cadence, is announced.
NotifyDrop ==
  /\ hub = "notify"
  /\ IF lastNotice # 0 /\ dropped - lastNotice < Cadence
       THEN hub' = "idle" /\ UNCHANGED <<offer, lastNotice>>
       ELSE lastNotice' = dropped /\ Publish(Notice)
  /\ UNCHANGED <<queue, ticks, published, dropped, worker, history>>

\* The queue's feeder thread.
FeederWrites ==
  /\ buffer # <<>> /\ pipe' = Append(pipe, Head(buffer)) /\ buffer' = Tail(buffer)
  /\ UNCHANGED <<hubState, worker, history>>

-----------------------------------------------------------------------------
(* HubTickFeed.run.                                                        *)

\* get(timeout): the lock is taken first, then the pipe polled.
BeginGet ==
  /\ reader = "loop" /\ reader' = "waiting"
  /\ UNCHANGED <<queue, hubState, item, received, lastTick, blocked, history>>

Receive ==
  /\ reader = "waiting" /\ pipe # <<>>
  /\ item' = Head(pipe) /\ pipe' = Tail(pipe) /\ reader' = "releasing" /\ exposed' = TRUE
  /\ UNCHANGED <<buffer, hubState, received, lastTick, blocked, noticeLost>>

\* The poll timed out: should_stop is asked, and get called again.
GetTimesOut ==
  /\ reader = "waiting" /\ pipe = <<>> /\ reader' = "loop"
  /\ UNCHANGED <<queue, hubState, item, received, lastTick, blocked, history>>

Handle(x) ==
  /\ reader' = IF x = Sentinel THEN "stopped" ELSE "loop"
  /\ lastTick' = IF x \in 1 .. MaxTicks THEN x ELSE lastTick
  /\ blocked' = (blocked \/ x = Notice)

Consume ==
  /\ reader = "releasing" /\ Handle(item)
  /\ item' = Nothing /\ received' = received + 1
  /\ UNCHANGED <<queue, hubState, history>>

-----------------------------------------------------------------------------

Hub == Put \/ DropOldest \/ Retry \/ NotifyDrop
Reader == BeginGet \/ Receive \/ GetTimesOut \/ Consume

Next == FanOutTick \/ SendSentinel \/ Hub \/ FeederWrites \/ Reader

Spec == Init /\ [][Next]_vars

\* The three threads are scheduled; no tick and no shutdown is promised.
FairSpec == Spec /\ WF_vars(Hub) /\ WF_vars(FeederWrites) /\ WF_vars(Reader)

-----------------------------------------------------------------------------

TypeOK ==
  /\ buffer \in Seq(Items) /\ pipe \in Seq(Items) /\ InFlight <= MaxDepth
  /\ hub \in {"idle", "put", "evict", "retry", "notify", "done"}
  /\ reader \in {"loop", "waiting", "releasing", "stopped"}
  /\ offer \in Items \cup {Nothing} /\ item \in Items \cup {Nothing}
  /\ ticks \in 0 .. MaxTicks /\ lastTick \in 0 .. MaxTicks
  /\ published \in Nat /\ dropped \in Nat /\ received \in Nat
  /\ lastNotice \in Nat /\ blocked \in BOOLEAN /\ exposed \in BOOLEAN /\ noticeLost \in BOOLEAN

\* "Every drop is counted" (queues.py): every item the queue accepted was
\* read, is on its way, or is in the drop count the heartbeat reports, and a
\* refused item is in that count too.
RefusedItems == dropped - (published - received - InFlight)
EveryDropIsCounted ==
  /\ RefusedItems >= 0
  /\ hub \in {"idle", "done"} /\ dropped = 0 => ticks <= published

\* The channel is well-formed, within its depth, and loses nothing uncounted.
ChannelIsSound == TypeOK /\ EveryDropIsCounted

\* "At least one gets through" (queues.py, TickDropNotice): after a drop the
\* worker is told or has been shut down, unless a notice was refused or was
\* evicted from near the head.
DropsAreReported == dropped > 0 ~> blocked \/ noticeLost \/ hub = "done"

\* The ticks on their way: being published, in the queue, or read and not yet
\* handled.
Publishing == hub \in {"put", "evict", "retry"}
Offered == IF Publishing THEN {offer} ELSE {}
Read == IF reader = "releasing" THEN {item} ELSE {}
Queued == Range(pipe) \cup Range(buffer)
InTransit == {x \in Offered \cup Queued \cup Read : x \in 1 .. MaxTicks}

ChannelPhase ==
  IF reader = "stopped" THEN "ended" ELSE IF offer = Sentinel THEN "closed" ELSE "open"

\* A worker sees the ticks in the order they were fanned out and each once,
\* however put, eviction, second put, feeder and reader interleave, the backlog
\* stays within the depth, and a worker that stops at the sentinel leaves none
\* behind: all were handled, or lost to an eviction or a refusal.
Lossy == INSTANCE LossyChannel WITH
           Capacity <- MaxDepth, MaxSent <- MaxTicks, sent <- ticks, transit <- InTransit,
           delivered <- lastTick, phase <- ChannelPhase
RefinesLossyChannel == Lossy!Spec

\* "At least one gets through": without exception.
AtLeastOneGetsThrough == dropped > 0 ~> blocked \/ hub = "done"
=============================================================================
