-------------------------- MODULE MarketDataProofs --------------------------
(* The market data on its way to a worker: its tick channel, for any depth,   *)
(* cadence and number of ticks; the option-chain client, for any threads,     *)
(* chains, interval and time to live; the instrument master, for any masters, *)
(* days and processes; and warm-up, its verification, its live candles and    *)
(* its crossover, for any calendar, session, bucket width and strategy.       *)
EXTENDS TickChannel, OptionChain, InstrumentMaster, MCWarmUp, SumTheorems, FiniteSetTheorems,
        SequenceTheorems, TLAPS

-----------------------------------------------------------------------------
(* The tick channel.                                                         *)

\* What is being published is an item.
OfferIsAnItem == Publishing => offer \in Items

\* Until something is dropped, every tick but the one in hand was accepted.
TicksAreAccepted ==
  dropped = 0 => ticks <= published + (IF Publishing THEN 1 ELSE 0)

\* What was accepted, was not read and is not under way, is in the count.
DropsAreCounted == published <= dropped + received + InFlight

ChannelInv == TypeOK /\ OfferIsAnItem /\ TicksAreAccepted /\ DropsAreCounted

LEMMA AppendIsAQueue ==
  ASSUME NEW q \in Seq(Items), NEW x \in Items
  PROVE  Append(q, x) \in Seq(Items) /\ Len(Append(q, x)) = Len(q) + 1
OBVIOUS

LEMMA TailIsAQueue ==
  ASSUME NEW q \in Seq(Items), q # <<>>
  PROVE  /\ Head(q) \in Items /\ Tail(q) \in Seq(Items) /\ Len(Tail(q)) = Len(q) - 1
         /\ Len(q) \in Nat
OBVIOUS

LEMMA LengthsAreNatural ==
  ASSUME ChannelInv
  PROVE  /\ Len(buffer) \in Nat /\ Len(pipe) \in Nat /\ InFlight \in Nat
         /\ InFlight = Len(buffer) + Len(pipe) + (IF reader = "releasing" THEN 1 ELSE 0)
BY DEF ChannelInv, TypeOK, InFlight

LEMMA ChannelInit == Init => ChannelInv
<1> SUFFICES ASSUME Init PROVE ChannelInv
  OBVIOUS
<1>1. InFlight = 0
  BY DEF Init, InFlight
<1>2. buffer \in Seq(Items) /\ pipe \in Seq(Items)
  BY DEF Init
<1>3. 0 \in 0..MaxTicks /\ InFlight <= MaxDepth
  BY <1>1, ChannelAssumption
<1>4. blocked \in BOOLEAN /\ exposed \in BOOLEAN /\ noticeLost \in BOOLEAN
  BY DEF Init
<1>5. TypeOK
  BY <1>3, <1>4, <1>2 DEF Init, TypeOK
<1>6. OfferIsAnItem /\ TicksAreAccepted /\ DropsAreCounted
  BY <1>1 DEF Init, OfferIsAnItem, TicksAreAccepted, DropsAreCounted, Publishing
<1> QED BY <1>5, <1>6 DEF ChannelInv

LEMMA ComparisonIsBoolean == ASSUME NEW a \in Int, NEW b \in Int PROVE (a < b) \in BOOLEAN
OBVIOUS

\* Accept, taken while the queue has room: one more accepted, one more under way.
LEMMA AcceptCounts ==
  ASSUME ChannelInv, Accept, Publishing, ~Full,
         UNCHANGED <<pipe, reader>>
  PROVE  /\ buffer' \in Seq(Items) /\ InFlight' = InFlight + 1 /\ InFlight' <= MaxDepth
         /\ published' = published + 1 /\ exposed' \in BOOLEAN
<1>1. buffer \in Seq(Items) /\ offer \in Items
  BY DEF ChannelInv, TypeOK, OfferIsAnItem
<1>2. buffer' \in Seq(Items) /\ Len(buffer') = Len(buffer) + 1
  BY <1>1, AppendIsAQueue DEF Accept
<1>3. InFlight' = InFlight + 1
  BY <1>2, LengthsAreNatural DEF InFlight
<1> DEFINE roomy == InFlight < MaxDepth - 1
<1>4. roomy \in BOOLEAN /\ exposed \in BOOLEAN
  <2>1. InFlight \in Int /\ MaxDepth - 1 \in Int
    BY LengthsAreNatural, ChannelAssumption
  <2>2. roomy \in BOOLEAN
    BY <2>1, ComparisonIsBoolean
  <2> QED BY <2>2 DEF ChannelInv, TypeOK
<1>5. exposed' = roomy \/ exposed' = exposed
  BY Zenon DEF Accept
<1> HIDE DEF roomy
<1>6. exposed' \in BOOLEAN
  BY <1>4, <1>5
<1> QED BY <1>2, <1>3, <1>6, LengthsAreNatural, ChannelAssumption DEF Full, Accept

\* publish returns to one of three places.
LEMMA PublishedEnds ==
  ASSUME NEW costly \in BOOLEAN, Published(costly)
  PROVE  hub' \in {"idle", "notify", "done"}
BY DEF Published

LEMMA ChannelStep == ChannelInv /\ [Next]_vars => ChannelInv'
<1> SUFFICES ASSUME ChannelInv, [Next]_vars PROVE ChannelInv'
  OBVIOUS
<1>0. TypeOK /\ OfferIsAnItem /\ TicksAreAccepted /\ DropsAreCounted
  BY DEF ChannelInv
<1>1. CASE FanOutTick
  <2>1. InFlight' = InFlight
    BY <1>1 DEF FanOutTick, InFlight, queue, worker
  <2>2. ticks' = ticks + 1 /\ ticks' \in 1..MaxTicks /\ offer' = ticks' /\ hub' = "put" /\ hub = "idle"
    BY <1>0, <1>1, ChannelAssumption DEF FanOutTick, Publish, TypeOK
  <2>3. TypeOK'
    BY <1>0, <1>1, <2>1, <2>2 DEF FanOutTick, TypeOK, Items, queue, worker, history
  <2>4. OfferIsAnItem' /\ TicksAreAccepted' /\ DropsAreCounted'
    BY <1>0, <1>1, <2>1, <2>2
       DEF FanOutTick, TypeOK, Items, queue, worker, OfferIsAnItem, TicksAreAccepted,
           DropsAreCounted, Publishing
  <2> QED BY <2>3, <2>4 DEF ChannelInv
<1>2. CASE SendSentinel
  <2>1. InFlight' = InFlight
    BY <1>2 DEF SendSentinel, InFlight, queue, worker
  <2>2. offer' = Sentinel /\ offer' \in Items /\ hub' = "put" /\ hub = "idle"
    BY <1>2 DEF SendSentinel, Publish, Items
  <2>3. TypeOK'
    BY <1>0, <1>2, <2>1, <2>2 DEF SendSentinel, TypeOK, queue, worker, history
  <2>4. OfferIsAnItem' /\ TicksAreAccepted' /\ DropsAreCounted'
    BY <1>0, <1>2, <2>1, <2>2
       DEF SendSentinel, TypeOK, queue, worker, OfferIsAnItem, TicksAreAccepted,
           DropsAreCounted, Publishing
  <2> QED BY <2>3, <2>4 DEF ChannelInv
<1>3. CASE Put
  <2>1. CASE Full
    <3>1. hub' = "evict" /\ UNCHANGED <<buffer, published, exposed, pipe, offer, ticks, dropped,
                                        lastNotice, noticeLost, reader, item, received, lastTick,
                                        blocked>>
      BY <1>3, <2>1 DEF Put, worker
    <3>2. InFlight' = InFlight /\ Publishing /\ Publishing'
      BY <1>3, <3>1 DEF InFlight, Publishing, Put
    <3>3. TypeOK'
      BY <1>0, <3>1, <3>2 DEF TypeOK
    <3>4. OfferIsAnItem' /\ TicksAreAccepted' /\ DropsAreCounted'
      BY <1>0, <3>1, <3>2 DEF OfferIsAnItem, TicksAreAccepted, DropsAreCounted
    <3> QED BY <3>3, <3>4 DEF ChannelInv
  <2>2. CASE ~Full
    <3>1. Accept /\ Published(FALSE) /\ Publishing
          /\ UNCHANGED <<pipe, offer, ticks, dropped, lastNotice, noticeLost, reader, item,
                         received, lastTick, blocked>>
      BY <1>3, <2>2 DEF Put, worker, Publishing
    <3>2. hub' \in {"idle", "notify", "done"} /\ ~Publishing'
      BY <3>1, PublishedEnds DEF Publishing
    <3>3. /\ buffer' \in Seq(Items) /\ InFlight' = InFlight + 1 /\ InFlight' <= MaxDepth
          /\ published' = published + 1 /\ exposed' \in BOOLEAN
      BY <2>2, <3>1, AcceptCounts
    <3>4. TypeOK'
      BY <1>0, <3>1, <3>2, <3>3 DEF TypeOK
    <3>5. OfferIsAnItem' /\ TicksAreAccepted' /\ DropsAreCounted'
      BY <1>0, <3>1, <3>2, <3>3, LengthsAreNatural
         DEF TypeOK, OfferIsAnItem, TicksAreAccepted, DropsAreCounted
    <3> QED BY <3>4, <3>5 DEF ChannelInv
  <2> QED BY <2>1, <2>2
<1>4. CASE DropOldest
  <2>1. hub' = "retry" /\ Publishing /\ Publishing'
        /\ UNCHANGED <<buffer, offer, ticks, published, lastNotice, exposed, reader, item,
                       received, lastTick, blocked>>
    BY <1>4 DEF DropOldest, Publishing, worker
  <2>2. CASE PipeLocked \/ pipe = <<>>
    <3>1. UNCHANGED <<pipe, dropped, noticeLost>>
      BY <1>4, <2>2 DEF DropOldest
    <3>2. InFlight' = InFlight
      BY <2>1, <3>1 DEF InFlight
    <3>3. TypeOK'
      BY <1>0, <2>1, <3>1, <3>2 DEF TypeOK
    <3>4. OfferIsAnItem' /\ TicksAreAccepted' /\ DropsAreCounted'
      BY <1>0, <2>1, <3>1, <3>2 DEF OfferIsAnItem, TicksAreAccepted, DropsAreCounted
    <3> QED BY <3>3, <3>4 DEF ChannelInv
  <2>3. CASE ~(PipeLocked \/ pipe = <<>>)
    <3>1. pipe' = Tail(pipe) /\ dropped' = dropped + 1 /\ pipe # <<>>
      BY <1>4, <2>3 DEF DropOldest
    <3>2. noticeLost' \in BOOLEAN
      BY <1>0, <1>4, <2>3 DEF DropOldest, TypeOK
    <3>3. pipe' \in Seq(Items) /\ Len(pipe') = Len(pipe) - 1
      BY <1>0, <3>1, TailIsAQueue DEF TypeOK
    <3>4. InFlight' = InFlight - 1
      BY <2>1, <3>3, LengthsAreNatural DEF InFlight
    <3>5. TypeOK'
      BY <1>0, <2>1, <3>1, <3>2, <3>3, <3>4, LengthsAreNatural, ChannelAssumption DEF TypeOK
    <3>6. OfferIsAnItem' /\ TicksAreAccepted' /\ DropsAreCounted'
      BY <1>0, <2>1, <3>1, <3>4, LengthsAreNatural
         DEF TypeOK, OfferIsAnItem, TicksAreAccepted, DropsAreCounted
    <3> QED BY <3>5, <3>6 DEF ChannelInv
  <2> QED BY <2>2, <2>3
<1>5. CASE Retry
  <2>1. Published(TRUE) /\ Publishing
        /\ UNCHANGED <<pipe, offer, ticks, lastNotice, reader, item, received, lastTick, blocked>>
    BY <1>5 DEF Retry, worker, Publishing
  <2>2. hub' \in {"idle", "notify", "done"} /\ ~Publishing'
    BY <2>1, PublishedEnds DEF Publishing
  <2>3. CASE Full
    <3>1. dropped' = dropped + 1 /\ UNCHANGED <<buffer, published, exposed>>
      BY <1>5, <2>3 DEF Retry, Refused
    <3>2. noticeLost' \in BOOLEAN
      BY <1>0, <1>5, <2>3 DEF Retry, TypeOK
    <3>3. InFlight' = InFlight
      BY <2>1, <3>1 DEF InFlight
    <3>4. TypeOK'
      BY <1>0, <2>1, <2>2, <3>1, <3>2, <3>3 DEF TypeOK
    <3>5. OfferIsAnItem' /\ TicksAreAccepted' /\ DropsAreCounted'
      BY <1>0, <2>1, <2>2, <3>1, <3>3, LengthsAreNatural
         DEF TypeOK, OfferIsAnItem, TicksAreAccepted, DropsAreCounted
    <3> QED BY <3>4, <3>5 DEF ChannelInv
  <2>4. CASE ~Full
    <3>1. Accept /\ UNCHANGED <<dropped, noticeLost>>
      BY <1>5, <2>4 DEF Retry
    <3>2. /\ buffer' \in Seq(Items) /\ InFlight' = InFlight + 1 /\ InFlight' <= MaxDepth
          /\ published' = published + 1 /\ exposed' \in BOOLEAN
      BY <2>1, <2>4, <3>1, AcceptCounts
    <3>3. TypeOK'
      BY <1>0, <2>1, <2>2, <3>1, <3>2 DEF TypeOK
    <3>4. OfferIsAnItem' /\ TicksAreAccepted' /\ DropsAreCounted'
      BY <1>0, <2>1, <2>2, <3>1, <3>2, LengthsAreNatural
         DEF TypeOK, OfferIsAnItem, TicksAreAccepted, DropsAreCounted
    <3> QED BY <3>3, <3>4 DEF ChannelInv
  <2> QED BY <2>3, <2>4
<1>6. CASE NotifyDrop
  <2>1. UNCHANGED <<buffer, pipe, ticks, published, dropped, reader, item, received, lastTick,
                    blocked, exposed, noticeLost>>
        /\ hub = "notify"
    BY <1>6 DEF NotifyDrop, queue, worker, history
  <2>2. InFlight' = InFlight
    BY <2>1 DEF InFlight
  <2>3. \/ hub' = "idle" /\ UNCHANGED <<offer, lastNotice>>
        \/ lastNotice' = dropped /\ hub' = "put" /\ offer' = Notice
    BY <1>6 DEF NotifyDrop, Publish
  <2>4. TypeOK'
    BY <1>0, <2>1, <2>2, <2>3 DEF TypeOK, Items
  <2>5. OfferIsAnItem' /\ TicksAreAccepted' /\ DropsAreCounted'
    BY <1>0, <2>1, <2>2, <2>3
       DEF TypeOK, Items, OfferIsAnItem, TicksAreAccepted, DropsAreCounted, Publishing
  <2> QED BY <2>4, <2>5 DEF ChannelInv
<1>7. CASE FeederWrites
  <2>1. UNCHANGED <<hubState, worker, history>> /\ buffer # <<>>
        /\ pipe' = Append(pipe, Head(buffer)) /\ buffer' = Tail(buffer)
    BY <1>7 DEF FeederWrites
  <2>2. /\ Head(buffer) \in Items /\ buffer' \in Seq(Items)
        /\ Len(buffer') = Len(buffer) - 1
    BY <1>0, <2>1, TailIsAQueue DEF TypeOK
  <2>3. pipe' \in Seq(Items) /\ Len(pipe') = Len(pipe) + 1
    BY <1>0, <2>1, <2>2, AppendIsAQueue DEF TypeOK
  <2>4. InFlight' = InFlight
    BY <2>1, <2>2, <2>3, LengthsAreNatural DEF InFlight, worker
  <2>5. TypeOK'
    BY <1>0, <2>1, <2>2, <2>3, <2>4 DEF TypeOK, hubState, worker, history
  <2>6. OfferIsAnItem' /\ TicksAreAccepted' /\ DropsAreCounted'
    BY <1>0, <2>1, <2>4
       DEF hubState, worker, OfferIsAnItem, TicksAreAccepted, DropsAreCounted, Publishing
  <2> QED BY <2>5, <2>6 DEF ChannelInv
<1>8. CASE Reader
  <2>1. CASE BeginGet \/ GetTimesOut
    <3>1. UNCHANGED <<queue, hubState, item, received, lastTick, blocked, history>>
          /\ reader # "releasing" /\ reader' \in {"waiting", "loop"}
      BY <2>1 DEF BeginGet, GetTimesOut
    <3>2. InFlight' = InFlight
      BY <3>1 DEF InFlight, queue
    <3>3. TypeOK'
      BY <1>0, <3>1, <3>2 DEF TypeOK, queue, hubState, history
    <3>4. OfferIsAnItem' /\ TicksAreAccepted' /\ DropsAreCounted'
      BY <1>0, <3>1, <3>2
         DEF queue, hubState, OfferIsAnItem, TicksAreAccepted, DropsAreCounted, Publishing
    <3> QED BY <3>3, <3>4 DEF ChannelInv
  <2>2. CASE Receive
    <3>1. UNCHANGED <<buffer, hubState, received, lastTick, blocked, noticeLost>>
          /\ reader = "waiting" /\ reader' = "releasing" /\ pipe # <<>>
          /\ item' = Head(pipe) /\ pipe' = Tail(pipe) /\ exposed' = TRUE
      BY <2>2 DEF Receive
    <3>2. item' \in Items /\ pipe' \in Seq(Items) /\ Len(pipe') = Len(pipe) - 1
      BY <1>0, <3>1, TailIsAQueue DEF TypeOK
    <3>3. InFlight' = InFlight
      BY <3>1, <3>2, LengthsAreNatural DEF InFlight
    <3>4. TypeOK'
      BY <1>0, <3>1, <3>2, <3>3 DEF TypeOK, hubState
    <3>5. OfferIsAnItem' /\ TicksAreAccepted' /\ DropsAreCounted'
      BY <1>0, <3>1, <3>3
         DEF hubState, OfferIsAnItem, TicksAreAccepted, DropsAreCounted, Publishing
    <3> QED BY <3>4, <3>5 DEF ChannelInv
  <2>3. CASE Consume
    <3>1. UNCHANGED <<queue, hubState, history>> /\ reader = "releasing"
          /\ item' = Nothing /\ received' = received + 1
      BY <2>3 DEF Consume
    <3>2. reader' \in {"loop", "stopped"} /\ blocked' \in BOOLEAN /\ lastTick' \in 0..MaxTicks
      BY <1>0, <2>3 DEF Consume, Handle, TypeOK
    <3>3. InFlight' = InFlight - 1
      BY <3>1, <3>2, LengthsAreNatural DEF InFlight, queue
    <3>4. TypeOK'
      BY <1>0, <3>1, <3>2, <3>3, LengthsAreNatural, ChannelAssumption
         DEF TypeOK, queue, hubState, history
    <3>5. OfferIsAnItem' /\ TicksAreAccepted' /\ DropsAreCounted'
      BY <1>0, <3>1, <3>3, LengthsAreNatural
         DEF TypeOK, hubState, OfferIsAnItem, TicksAreAccepted, DropsAreCounted, Publishing
    <3> QED BY <3>4, <3>5 DEF ChannelInv
  <2> QED BY <1>8, <2>1, <2>2, <2>3 DEF Reader
<1>9. CASE UNCHANGED vars
  <2>1. UNCHANGED <<buffer, pipe, hub, offer, ticks, published, dropped, lastNotice, reader, item,
                    received, lastTick, blocked, exposed, noticeLost>>
    BY <1>9 DEF vars, queue, hubState, worker, history
  <2>2. InFlight' = InFlight
    BY <2>1 DEF InFlight
  <2> QED BY <1>0, <2>1, <2>2
          DEF ChannelInv, TypeOK, OfferIsAnItem, TicksAreAccepted, DropsAreCounted, Publishing
<1> QED BY <1>1, <1>2, <1>3, <1>4, <1>5, <1>6, <1>7, <1>8, <1>9 DEF Next, Hub

\* What the run checks follows.
LEMMA ChannelInvIsSound == ChannelInv => ChannelIsSound
<1> SUFFICES ASSUME ChannelInv PROVE ChannelIsSound
  OBVIOUS
<1>1. RefusedItems >= 0
  BY LengthsAreNatural DEF ChannelInv, TypeOK, DropsAreCounted, RefusedItems
<1>2. hub \in {"idle", "done"} /\ dropped = 0 => ticks <= published
  BY DEF ChannelInv, TypeOK, TicksAreAccepted, Publishing
<1> QED BY <1>1, <1>2 DEF ChannelIsSound, EveryDropIsCounted, ChannelInv

(* The queue stays within its depth although three threads work on it, every  *)
(* accepted item was read, is under way or is in the drop count, and while    *)
(* nothing is dropped every tick was accepted (BoundedWorkerQueue.publish).   *)
THEOREM ChannelIsSoundHolds == Spec => []ChannelIsSound
<1>1. Spec => []ChannelInv
  BY ChannelInit, ChannelStep, PTL DEF Spec
<1> QED BY <1>1, ChannelInvIsSound, PTL

-----------------------------------------------------------------------------
(* The tick channel implements a lossy channel.                              *)

\* Nothing comes after the sentinel, and ticks come in the order they were
\* offered.
Before(x, y) ==
  x # Sentinel /\ (x \in 1 .. MaxTicks /\ y \in 1 .. MaxTicks => x < y)

AllBefore(S, T) == \A x \in S, y \in T : Before(x, y)

Rising(q) == \A i, j \in DOMAIN q : i < j => Before(q[i], q[j])

\* The line from the worker's hand back to the hub's is in order.
LineIsOrdered ==
  /\ Rising(pipe) /\ Rising(buffer) /\ AllBefore(Range(pipe), Range(buffer))
  /\ AllBefore(Read, Queued) /\ AllBefore(Read \cup Queued, Offered)

\* No tick in the line was handled, and none was not yet offered.
LineIsNew == lastTick <= ticks /\ \A x \in InTransit : lastTick < x /\ x <= ticks

\* The sentinel is the last thing published, and the worker stops at it.
SentinelEnds ==
  /\ hub \in {"idle", "notify"} => offer # Sentinel
  /\ hub = "done" => offer = Sentinel
  /\ Sentinel \in Read \cup Queued => hub = "done"
  /\ reader = "releasing" => item \in Items
  /\ reader = "stopped" => hub = "done" /\ pipe = <<>> /\ buffer = <<>>

OrderInv == LineIsOrdered /\ LineIsNew /\ SentinelEnds

LEMMA RangeOfAppend ==
  ASSUME NEW q \in Seq(Items), NEW x \in Items
  PROVE  /\ Range(Append(q, x)) = Range(q) \cup {x}
         /\ Rising(q) /\ AllBefore(Range(q), {x}) => Rising(Append(q, x))
<1> DEFINE p == Append(q, x)
<1>1. /\ DOMAIN q = 1 .. Len(q) /\ DOMAIN p = 1 .. (Len(q) + 1) /\ Len(q) \in Nat
      /\ p[Len(q) + 1] = x /\ \A i \in 1 .. Len(q) : p[i] = q[i]
  OBVIOUS
<1> HIDE DEF p
<1>2. Range(p) = Range(q) \cup {x}
  BY <1>1 DEF Range
<1>3. ASSUME Rising(q), AllBefore(Range(q), {x}) PROVE Rising(p)
  <2> SUFFICES ASSUME NEW i \in DOMAIN p, NEW j \in DOMAIN p, i < j PROVE Before(p[i], p[j])
    BY DEF Rising
  <2>1. i \in 1 .. Len(q) /\ p[i] = q[i] /\ q[i] \in Range(q)
    BY <1>1 DEF Range
  <2>2. CASE j \in 1 .. Len(q)
    BY <1>1, <1>3, <2>1, <2>2 DEF Rising
  <2>3. CASE j = Len(q) + 1
    BY <1>1, <1>3, <2>1, <2>3 DEF AllBefore
  <2> QED BY <1>1, <2>2, <2>3
<1> QED BY <1>2, <1>3 DEF p

LEMMA RangeOfTail ==
  ASSUME NEW q \in Seq(Items), q # <<>>
  PROVE  /\ Range(q) = {Head(q)} \cup Range(Tail(q))
         /\ Rising(q) => Rising(Tail(q)) /\ AllBefore({Head(q)}, Range(Tail(q)))
<1> DEFINE p == Tail(q)
<1>1. /\ DOMAIN q = 1 .. Len(q) /\ DOMAIN p = 1 .. (Len(q) - 1) /\ Len(q) \in Nat \ {0}
      /\ Head(q) = q[1] /\ \A i \in 1 .. (Len(q) - 1) : p[i] = q[i + 1]
  OBVIOUS
<1> HIDE DEF p
<1>2. Range(q) = {q[1]} \cup Range(p)
  <2>1. ASSUME NEW i \in DOMAIN q PROVE q[i] \in {q[1]} \cup Range(p)
    <3>1. CASE i = 1
      BY <3>1
    <3>2. CASE i # 1
      <4>1. i - 1 \in DOMAIN p /\ p[i - 1] = q[i]
        BY <1>1, <3>2
      <4> QED BY <4>1 DEF Range
    <3> QED BY <3>1, <3>2
  <2>2. ASSUME NEW i \in DOMAIN p PROVE p[i] \in Range(q)
    <3>1. i + 1 \in DOMAIN q /\ p[i] = q[i + 1]
      BY <1>1
    <3> QED BY <3>1 DEF Range
  <2>3. q[1] \in Range(q)
    BY <1>1 DEF Range
  <2> QED BY <2>1, <2>2, <2>3 DEF Range
<1>3. ASSUME Rising(q) PROVE Rising(p) /\ AllBefore({q[1]}, Range(p))
  <2>1. ASSUME NEW i \in DOMAIN p, NEW j \in DOMAIN p, i < j PROVE Before(p[i], p[j])
    <3>1. /\ i + 1 \in DOMAIN q /\ j + 1 \in DOMAIN q /\ i + 1 < j + 1
          /\ p[i] = q[i + 1] /\ p[j] = q[j + 1]
      BY <1>1, <2>1
    <3> QED BY <1>3, <3>1 DEF Rising
  <2>2. ASSUME NEW j \in DOMAIN p PROVE Before(q[1], p[j])
    <3>1. 1 \in DOMAIN q /\ j + 1 \in DOMAIN q /\ 1 < j + 1 /\ p[j] = q[j + 1]
      BY <1>1
    <3> QED BY <1>3, <3>1 DEF Rising
  <2> QED BY <2>1, <2>2 DEF Rising, AllBefore, Range
<1> QED BY <1>1, <1>2, <1>3 DEF p

\* No more ticks are on their way than items are counted by the semaphore.
LEMMA RangeIsNoLonger ==
  ASSUME NEW q \in Seq(Items)
  PROVE  IsFiniteSet(Range(q)) /\ Cardinality(Range(q)) <= Len(q)
<1>1. Len(q) \in Nat /\ DOMAIN q = 1 .. Len(q)
  OBVIOUS
<1> DEFINE D == 1 .. Len(q)
<1>2. IsFiniteSet(D) /\ Cardinality(D) = Len(q)
  BY <1>1, FS_Interval
<1> HIDE DEF D
<1>3. q \in Surjection(D, Range(q))
  <2>1. q \in [D -> Range(q)] /\ \A y \in Range(q) : \E i \in D : q[i] = y
    BY <1>1 DEF Range, D
  <2> QED BY <2>1 DEF Surjection
<1> QED BY <1>2, <1>3, FS_Surjection

LEMMA BacklogIsBounded ==
  ASSUME ChannelInv, ~Publishing
  PROVE  Cardinality(InTransit) <= MaxDepth
<1> DEFINE P == Range(pipe)
           B == Range(buffer)
           A == P \cup B \cup Read
<1>1. /\ IsFiniteSet(P) /\ Cardinality(P) <= Len(pipe)
      /\ IsFiniteSet(B) /\ Cardinality(B) <= Len(buffer)
  BY RangeIsNoLonger DEF ChannelInv, TypeOK
<1>2. IsFiniteSet(Read) /\ Cardinality(Read) = IF reader = "releasing" THEN 1 ELSE 0
  BY FS_EmptySet, FS_Singleton DEF Read
<1>3. InTransit \subseteq A
  BY DEF InTransit, Offered, Queued
<1>4. InFlight <= MaxDepth /\ Len(pipe) \in Nat /\ Len(buffer) \in Nat
  BY LengthsAreNatural DEF ChannelInv, TypeOK
<1> HIDE DEF P, B
<1>5. /\ IsFiniteSet(P \cup B)
      /\ Cardinality(P \cup B) = Cardinality(P) + Cardinality(B) - Cardinality(P \cap B)
  BY <1>1, FS_Union
<1>6. IsFiniteSet(P \cap B) /\ IsFiniteSet((P \cup B) \cap Read)
  BY <1>1, <1>5, FS_Intersection
<1>7. /\ Cardinality(P) \in Nat /\ Cardinality(B) \in Nat /\ Cardinality(Read) \in Nat
      /\ Cardinality(P \cap B) \in Nat /\ Cardinality((P \cup B) \cap Read) \in Nat
      /\ Cardinality(P \cup B) \in Nat
  BY <1>1, <1>2, <1>5, <1>6, FS_CardinalityType
<1>8. /\ IsFiniteSet(A)
      /\ Cardinality(A) = Cardinality(P \cup B) + Cardinality(Read) - Cardinality((P \cup B) \cap Read)
  BY <1>2, <1>5, FS_Union
<1>9. Cardinality(A) \in Nat /\ Cardinality(InTransit) \in Nat
      /\ Cardinality(InTransit) <= Cardinality(A)
  BY <1>3, <1>8, FS_Subset, FS_CardinalityType
<1>10. Cardinality(A) <= Len(pipe) + Len(buffer) + (IF reader = "releasing" THEN 1 ELSE 0)
  BY <1>1, <1>2, <1>4, <1>5, <1>7, <1>8
<1> HIDE DEF A
<1>11. MaxDepth \in Nat
  BY ChannelAssumption
<1> QED BY <1>4, <1>9, <1>10, <1>11 DEF InFlight

LEMMA OrderInit == Init => OrderInv /\ Lossy!Init
<1> SUFFICES ASSUME Init PROVE OrderInv /\ Lossy!Init
  OBVIOUS
<1>1. Range(pipe) = {} /\ Range(buffer) = {} /\ Rising(pipe) /\ Rising(buffer)
  BY DEF Init, Range, Rising
<1>2. Read = {} /\ Offered = {} /\ Queued = {} /\ InTransit = {}
  BY <1>1 DEF Init, Read, Offered, Queued, InTransit, Publishing
<1>3. OrderInv
  BY <1>1, <1>2, MarksAreNoTicks
     DEF Init, OrderInv, LineIsOrdered, LineIsNew, SentinelEnds, AllBefore
<1>4. Lossy!Init
  BY <1>2, MarksAreNoTicks DEF Init, Lossy!Init, ChannelPhase
<1> QED BY <1>3, <1>4

LossyStep == [Lossy!Next]_(Lossy!vars)

\* Who moves an item leaves the line as it was, or moves it by one place.
LEMMA SameLine ==
  ASSUME LineIsOrdered, LineIsNew,
         UNCHANGED <<pipe, buffer, Read, Offered, ticks, lastTick>>
  PROVE  LineIsOrdered' /\ LineIsNew' /\ InTransit' = InTransit /\ Queued' = Queued
<1>1. Queued' = Queued
  BY DEF Queued
<1>2. InTransit' = InTransit
  BY <1>1 DEF InTransit
<1> QED BY <1>1, <1>2 DEF LineIsOrdered, LineIsNew

LEMMA SameChannel ==
  ASSUME InTransit' = InTransit, ChannelPhase' = ChannelPhase, UNCHANGED <<ticks, lastTick>>
  PROVE  LossyStep
BY DEF LossyStep, Lossy!vars

LEMMA FanOutTickOrder ==
  ASSUME ChannelInv, OrderInv, FanOutTick PROVE OrderInv' /\ LossyStep
<1> DEFINE n == ticks + 1
<1>1. /\ hub = "idle" /\ hub' = "put" /\ offer' = n /\ ticks' = n /\ ticks < MaxTicks
      /\ UNCHANGED <<pipe, buffer, reader, item, lastTick>>
  BY DEF FanOutTick, Publish, queue, worker
<1>2. ticks \in Nat /\ n \in 1 .. MaxTicks /\ MaxTicks \in Nat /\ lastTick <= ticks /\ lastTick \in Nat
      /\ n \in Int
  <2>1. ticks \in 0 .. MaxTicks /\ lastTick \in 0 .. MaxTicks /\ MaxTicks \in Nat
    BY ChannelAssumption DEF ChannelInv, TypeOK
  <2>2. lastTick <= ticks
    BY DEF OrderInv, LineIsNew
  <2> QED BY <1>1, <2>1, <2>2
<1> HIDE DEF n
<1>3. /\ Offered = {} /\ Offered' = {n} /\ Read' = Read /\ Queued' = Queued
      /\ Sentinel \notin Read \cup Queued /\ offer # Sentinel /\ reader # "stopped"
  BY <1>1 DEF Offered, Publishing, Read, Queued, OrderInv, SentinelEnds
<1>4. ASSUME NEW x \in Read \cup Queued PROVE Before(x, n)
  <2>1. x \in 1 .. MaxTicks => x \in Int /\ x <= ticks
    BY <1>4 DEF OrderInv, LineIsNew, InTransit
  <2> QED BY <1>1, <1>2, <1>3, <2>1 DEF Before, n
<1>5. LineIsOrdered'
  BY <1>1, <1>3, <1>4 DEF OrderInv, LineIsOrdered, AllBefore
<1>6. InTransit' = InTransit \cup {n}
  BY <1>2, <1>3 DEF InTransit
<1>7. LineIsNew'
  <2> SUFFICES ASSUME NEW x \in InTransit \cup {n} PROVE lastTick < x /\ x <= n
    <3>1. lastTick <= n
      BY <1>2 DEF n
    <3> QED BY <1>1, <1>6, <3>1 DEF LineIsNew
  <2>1. CASE x = n
    BY <1>2, <2>1 DEF n
  <2>2. CASE x \in InTransit
    <3>1. x \in Int /\ lastTick < x /\ x <= ticks
      BY <2>2 DEF OrderInv, LineIsNew, InTransit
    <3> QED BY <1>2, <3>1 DEF n
  <2> QED BY <2>1, <2>2
<1>8. SentinelEnds'
  BY <1>1, <1>3 DEF OrderInv, SentinelEnds
<1>9. Lossy!Cardinality(InTransit) <= MaxDepth
  <2>1. Lossy!Cardinality(InTransit) = Cardinality(InTransit)
    BY DEF Cardinality, Lossy!Cardinality
  <2> QED BY <1>1, <2>1, BacklogIsBounded DEF Publishing
<1>10. ChannelPhase = "open" /\ ChannelPhase' = "open"
  BY <1>1, <1>2, <1>3, MarksAreNoTicks DEF ChannelPhase
<1>11. Lossy!Send
  BY <1>1, <1>6, <1>9, <1>10 DEF Lossy!Send, n
<1>12. LossyStep
  BY <1>11 DEF LossyStep, Lossy!Next
<1> QED BY <1>5, <1>7, <1>8, <1>12 DEF OrderInv

LEMMA SendSentinelOrder ==
  ASSUME ChannelInv, OrderInv, SendSentinel PROVE OrderInv' /\ LossyStep
<1>1. /\ hub = "idle" /\ hub' = "put" /\ offer' = Sentinel
      /\ UNCHANGED <<ticks, pipe, buffer, reader, item, lastTick>>
  BY DEF SendSentinel, Publish, queue, worker
<1>2. /\ Offered = {} /\ Offered' = {Sentinel} /\ Read' = Read /\ Queued' = Queued
      /\ Sentinel \notin Read \cup Queued /\ offer # Sentinel /\ reader # "stopped"
  BY <1>1 DEF Offered, Publishing, Read, Queued, OrderInv, SentinelEnds
<1>3. LineIsOrdered'
  BY <1>1, <1>2, MarksAreNoTicks DEF OrderInv, LineIsOrdered, AllBefore, Before
<1>4. InTransit' = InTransit
  BY <1>2, MarksAreNoTicks DEF InTransit
<1>5. LineIsNew' /\ SentinelEnds'
  BY <1>1, <1>2, <1>4 DEF OrderInv, LineIsNew, SentinelEnds
<1>6. ChannelPhase = "open" /\ ChannelPhase' = "closed"
  BY <1>1, <1>2 DEF ChannelPhase
<1>7. LossyStep
  BY <1>1, <1>4, <1>6 DEF LossyStep, Lossy!Next, Lossy!Close
<1> QED BY <1>3, <1>5, <1>7 DEF OrderInv

\* An item that is accepted goes from the hub's hand to the end of the buffer.
LEMMA AcceptOrder ==
  ASSUME ChannelInv, OrderInv, Publishing, Accept, NEW costly \in BOOLEAN, Published(costly),
         UNCHANGED <<pipe, offer, ticks, reader, item, lastTick>>
  PROVE  OrderInv' /\ LossyStep
<1>1. buffer' = Append(buffer, offer) /\ offer \in Items /\ buffer \in Seq(Items)
  BY DEF Accept, ChannelInv, OfferIsAnItem, TypeOK
<1>2. /\ hub' \in {"idle", "notify", "done"} /\ (hub' = "done" <=> offer = Sentinel)
      /\ hub # "done"
  BY DEF Published, Publishing
<1>3. /\ Offered = {offer} /\ Offered' = {} /\ Read' = Read /\ Range(buffer') = Range(buffer) \cup {offer}
      /\ Queued' = Queued \cup {offer}
  <2>1. Range(buffer') = Range(buffer) \cup {offer}
    BY <1>1, RangeOfAppend
  <2> QED BY <1>2, <2>1 DEF Offered, Publishing, Read, Queued
<1>4. AllBefore(Read \cup Queued, {offer})
  BY <1>3 DEF OrderInv, LineIsOrdered
<1>5. Rising(buffer')
  <2>1. AllBefore(Range(buffer), {offer}) /\ Rising(buffer)
    BY <1>4 DEF OrderInv, LineIsOrdered, AllBefore, Queued
  <2> QED BY <1>1, <2>1, RangeOfAppend
<1>6. LineIsOrdered'
  BY <1>3, <1>4, <1>5 DEF OrderInv, LineIsOrdered, AllBefore, Queued
<1>7. InTransit' = InTransit
  BY <1>3 DEF InTransit
<1>8. LineIsNew' /\ ChannelPhase' = ChannelPhase
  BY <1>7 DEF OrderInv, LineIsNew, ChannelPhase
<1>9. SentinelEnds'
  BY <1>2, <1>3 DEF OrderInv, SentinelEnds
<1> QED BY <1>6, <1>7, <1>8, <1>9, SameChannel DEF OrderInv

LEMMA PutOrder ==
  ASSUME ChannelInv, OrderInv, Put PROVE OrderInv' /\ LossyStep
<1>1. hub = "put" /\ Publishing /\ UNCHANGED <<pipe, offer, ticks, reader, item, lastTick>>
  BY DEF Put, Publishing, worker
<1>2. CASE Full
  <2>1. hub' = "evict" /\ buffer' = buffer
    BY <1>2 DEF Put
  <2>2. Offered' = Offered /\ Read' = Read /\ ChannelPhase' = ChannelPhase
    BY <1>1, <2>1 DEF Offered, Publishing, Read, ChannelPhase
  <2>3. LineIsOrdered' /\ LineIsNew' /\ InTransit' = InTransit /\ Queued' = Queued
    BY <1>1, <2>1, <2>2, SameLine DEF OrderInv
  <2>4. SentinelEnds'
    BY <1>1, <2>1, <2>2, <2>3 DEF OrderInv, SentinelEnds
  <2> QED BY <1>1, <2>2, <2>3, <2>4, SameChannel DEF OrderInv
<1>3. CASE ~Full
  <2>1. Accept /\ Published(FALSE)
    BY <1>3 DEF Put
  <2> QED BY <1>1, <2>1, AcceptOrder
<1> QED BY <1>2, <1>3

\* The item evicted is the first of the line, and is lost.
LEMMA DropOldestOrder ==
  ASSUME ChannelInv, OrderInv, DropOldest PROVE OrderInv' /\ LossyStep
<1>1. /\ hub = "evict" /\ hub' = "retry" /\ Publishing /\ Publishing'
      /\ UNCHANGED <<buffer, offer, ticks, reader, item, lastTick>>
  BY DEF DropOldest, Publishing, worker
<1>2. Offered' = Offered /\ Offered = {offer} /\ Read' = Read /\ ChannelPhase' = ChannelPhase
  BY <1>1 DEF Offered, Read, ChannelPhase
<1>3. CASE PipeLocked \/ pipe = <<>>
  <2>1. pipe' = pipe
    BY <1>3 DEF DropOldest
  <2>2. LineIsOrdered' /\ LineIsNew' /\ InTransit' = InTransit /\ Queued' = Queued
    BY <1>1, <1>2, <2>1, SameLine DEF OrderInv
  <2>3. SentinelEnds'
    BY <1>1, <1>2, <2>1, <2>2 DEF OrderInv, SentinelEnds
  <2> QED BY <1>1, <1>2, <2>2, <2>3, SameChannel DEF OrderInv
<1>4. CASE ~(PipeLocked \/ pipe = <<>>)
  <2> DEFINE h == Head(pipe)
             t == Range(pipe')
  <2>1. pipe' = Tail(pipe) /\ pipe # <<>> /\ pipe \in Seq(Items) /\ Read = {}
    BY <1>4 DEF DropOldest, ChannelInv, TypeOK, PipeLocked, Read
  <2>2. Range(pipe) = {h} \cup t /\ Rising(pipe') /\ AllBefore({h}, t)
    BY <2>1, RangeOfTail DEF OrderInv, LineIsOrdered
  <2> HIDE DEF h, t
  <2>3. Queued = {h} \cup t \cup Range(buffer) /\ Queued' = t \cup Range(buffer)
    BY <1>1, <2>2 DEF Queued, t
  <2>4. AllBefore({h}, Queued' \cup Offered)
    BY <1>2, <2>2, <2>3 DEF OrderInv, LineIsOrdered, AllBefore, t
  <2>5. h \in 1 .. MaxTicks => h \notin Queued' \cup Offered
    <3>1. h \in 1 .. MaxTicks => ~(h < h)
      OBVIOUS
    <3> QED BY <2>4, <3>1 DEF AllBefore, Before
  <2>6. LineIsOrdered'
    BY <1>1, <1>2, <2>1, <2>2, <2>3 DEF OrderInv, LineIsOrdered, AllBefore, t
  <2>7. InTransit' = InTransit \ {h} /\ (h \in 1 .. MaxTicks => h \in InTransit)
    BY <1>2, <2>1, <2>3, <2>5 DEF InTransit
  <2>8. LineIsNew'
    BY <1>1, <2>7 DEF OrderInv, LineIsNew
  <2>9. SentinelEnds'
    BY <1>1, <1>2, <2>3 DEF OrderInv, SentinelEnds
  <2>10. LossyStep
    <3>1. CASE h \in InTransit
      BY <1>1, <1>2, <2>7, <3>1 DEF LossyStep, Lossy!Next, Lossy!Lose
    <3>2. CASE h \notin InTransit
      BY <1>1, <1>2, <2>7, <3>2, SameChannel
    <3> QED BY <3>1, <3>2
  <2> QED BY <2>6, <2>8, <2>9, <2>10 DEF OrderInv
<1> QED BY <1>3, <1>4

LEMMA RetryOrder ==
  ASSUME ChannelInv, OrderInv, Retry PROVE OrderInv' /\ LossyStep
<1>1. /\ hub = "retry" /\ Publishing /\ Published(TRUE)
      /\ UNCHANGED <<pipe, offer, ticks, reader, item, lastTick>>
  BY DEF Retry, Publishing, worker
<1>2. CASE Full
  <2>1. buffer' = buffer
    BY <1>2 DEF Retry
  <2>2. hub' \in {"idle", "notify", "done"} /\ (hub' = "done" <=> offer = Sentinel)
    BY <1>1 DEF Published
  <2>3. /\ Offered = {offer} /\ Offered' = {} /\ Read' = Read /\ Queued' = Queued
        /\ ChannelPhase' = ChannelPhase
    BY <1>1, <2>1, <2>2 DEF Offered, Publishing, Read, Queued, ChannelPhase
  <2>4. offer \in 1 .. MaxTicks => offer \notin Read \cup Queued
    <3>1. AllBefore(Read \cup Queued, {offer})
      BY <2>3 DEF OrderInv, LineIsOrdered
    <3>2. offer \in 1 .. MaxTicks => ~(offer < offer)
      OBVIOUS
    <3> QED BY <3>1, <3>2 DEF AllBefore, Before
  <2>5. InTransit' = InTransit \ {offer} /\ (offer \in 1 .. MaxTicks => offer \in InTransit)
    BY <2>3, <2>4 DEF InTransit
  <2>6. LineIsOrdered' /\ LineIsNew'
    BY <1>1, <2>1, <2>3, <2>5 DEF OrderInv, LineIsOrdered, AllBefore, LineIsNew
  <2>7. SentinelEnds'
    BY <1>1, <2>1, <2>2, <2>3 DEF OrderInv, SentinelEnds
  <2>8. LossyStep
    <3>1. CASE offer \in InTransit
      BY <1>1, <2>3, <2>5, <3>1 DEF LossyStep, Lossy!Next, Lossy!Lose
    <3>2. CASE offer \notin InTransit
      BY <1>1, <2>3, <2>5, <3>2, SameChannel
    <3> QED BY <3>1, <3>2
  <2> QED BY <2>6, <2>7, <2>8 DEF OrderInv
<1>3. CASE ~Full
  <2>1. Accept
    BY <1>3 DEF Retry
  <2> QED BY <1>1, <2>1, AcceptOrder
<1> QED BY <1>2, <1>3

LEMMA NotifyDropOrder ==
  ASSUME ChannelInv, OrderInv, NotifyDrop PROVE OrderInv' /\ LossyStep
<1>1. hub = "notify" /\ UNCHANGED <<pipe, buffer, ticks, reader, item, lastTick>>
  BY DEF NotifyDrop, queue, worker
<1>2. \/ hub' = "idle" /\ offer' = offer
      \/ hub' = "put" /\ offer' = Notice
  BY DEF NotifyDrop, Publish
<1>3. /\ Offered = {} /\ Read' = Read /\ Queued' = Queued /\ offer # Sentinel /\ offer' # Sentinel
      /\ Sentinel \notin Read \cup Queued /\ (Offered' = {} \/ Offered' = {Notice})
  BY <1>1, <1>2, MarksAreNoTicks
     DEF Offered, Publishing, Read, Queued, OrderInv, SentinelEnds
<1>4. InTransit' = InTransit /\ ChannelPhase' = ChannelPhase
  BY <1>1, <1>3, MarksAreNoTicks DEF InTransit, ChannelPhase
<1>5. LineIsOrdered' /\ LineIsNew'
  BY <1>1, <1>3, <1>4, MarksAreNoTicks
     DEF OrderInv, LineIsOrdered, LineIsNew, AllBefore, Before
<1>6. SentinelEnds'
  BY <1>1, <1>2, <1>3 DEF OrderInv, SentinelEnds
<1> QED BY <1>1, <1>4, <1>5, <1>6, SameChannel DEF OrderInv

LEMMA FeederWritesOrder ==
  ASSUME ChannelInv, OrderInv, FeederWrites PROVE OrderInv' /\ LossyStep
<1> DEFINE h == Head(buffer)
<1>1. /\ pipe' = Append(pipe, h) /\ buffer' = Tail(buffer) /\ buffer # <<>>
      /\ UNCHANGED <<hub, offer, ticks, reader, item, lastTick>>
  BY DEF FeederWrites, hubState, worker
<1>2. buffer \in Seq(Items) /\ pipe \in Seq(Items) /\ h \in Items
  BY <1>1, TailIsAQueue DEF ChannelInv, TypeOK
<1>3. /\ Range(buffer) = {h} \cup Range(buffer') /\ Rising(buffer')
      /\ AllBefore({h}, Range(buffer'))
  BY <1>1, <1>2, RangeOfTail DEF OrderInv, LineIsOrdered
<1> HIDE DEF h
<1>4. AllBefore(Range(pipe), {h} \cup Range(buffer'))
  BY <1>3 DEF OrderInv, LineIsOrdered
<1>5. Range(pipe') = Range(pipe) \cup {h} /\ Rising(pipe')
  <2>1. AllBefore(Range(pipe), {h}) /\ Rising(pipe)
    BY <1>4 DEF AllBefore, OrderInv, LineIsOrdered
  <2> QED BY <1>1, <1>2, <2>1, RangeOfAppend
<1>6. Queued' = Queued /\ Read' = Read /\ Offered' = Offered
  BY <1>1, <1>3, <1>5 DEF Queued, Read, Offered, Publishing
<1>7. LineIsOrdered'
  <2>1. AllBefore(Range(pipe'), Range(buffer'))
    BY <1>3, <1>4, <1>5 DEF AllBefore
  <2> QED BY <1>3, <1>5, <1>6, <2>1 DEF OrderInv, LineIsOrdered
<1>8. InTransit' = InTransit /\ ChannelPhase' = ChannelPhase
  BY <1>1, <1>6 DEF InTransit, ChannelPhase
<1>9. LineIsNew' /\ SentinelEnds'
  BY <1>1, <1>6, <1>8 DEF OrderInv, LineIsNew, SentinelEnds
<1> QED BY <1>1, <1>7, <1>8, <1>9, SameChannel DEF OrderInv

LEMMA PollOrder ==
  ASSUME ChannelInv, OrderInv, BeginGet \/ GetTimesOut PROVE OrderInv' /\ LossyStep
<1>1. /\ UNCHANGED <<pipe, buffer, hub, offer, ticks, item, lastTick>>
      /\ reader \in {"loop", "waiting"} /\ reader' \in {"loop", "waiting"}
  BY DEF BeginGet, GetTimesOut, queue, hubState
<1>2. Read' = Read /\ Offered' = Offered /\ ChannelPhase' = ChannelPhase
  BY <1>1 DEF Read, Offered, Publishing, ChannelPhase
<1>3. LineIsOrdered' /\ LineIsNew' /\ InTransit' = InTransit /\ Queued' = Queued
  BY <1>1, <1>2, SameLine DEF OrderInv
<1>4. SentinelEnds'
  BY <1>1, <1>2, <1>3 DEF OrderInv, SentinelEnds
<1> QED BY <1>1, <1>2, <1>3, <1>4, SameChannel DEF OrderInv

LEMMA ReceiveOrder ==
  ASSUME ChannelInv, OrderInv, Receive PROVE OrderInv' /\ LossyStep
<1> DEFINE h == Head(pipe)
<1>1. /\ pipe' = Tail(pipe) /\ pipe # <<>> /\ item' = h
      /\ reader = "waiting" /\ reader' = "releasing"
      /\ UNCHANGED <<buffer, hub, offer, ticks, lastTick>>
  BY DEF Receive, hubState
<1>2. pipe \in Seq(Items) /\ h \in Items
  BY <1>1, TailIsAQueue DEF ChannelInv, TypeOK
<1>3. Range(pipe) = {h} \cup Range(pipe') /\ Rising(pipe') /\ AllBefore({h}, Range(pipe'))
  BY <1>1, <1>2, RangeOfTail DEF OrderInv, LineIsOrdered
<1> HIDE DEF h
<1>4. /\ Read = {} /\ Read' = {h} /\ Offered' = Offered /\ Queued = {h} \cup Queued'
      /\ Queued' = Range(pipe') \cup Range(buffer)
  BY <1>1, <1>3 DEF Read, Offered, Publishing, Queued
<1>5. AllBefore({h} \cup Range(pipe'), Range(buffer)) /\ AllBefore({h} \cup Queued', Offered)
  BY <1>3, <1>4 DEF OrderInv, LineIsOrdered
<1>6. AllBefore({h}, Queued') /\ AllBefore(Range(pipe'), Range(buffer'))
  BY <1>1, <1>3, <1>4, <1>5 DEF AllBefore
<1>7. LineIsOrdered'
  BY <1>1, <1>3, <1>4, <1>5, <1>6 DEF OrderInv, LineIsOrdered
<1>8. InTransit' = InTransit /\ ChannelPhase' = ChannelPhase
  BY <1>1, <1>4 DEF InTransit, ChannelPhase
<1>9. LineIsNew' /\ SentinelEnds'
  BY <1>1, <1>2, <1>4, <1>8 DEF OrderInv, LineIsNew, SentinelEnds
<1> QED BY <1>1, <1>7, <1>8, <1>9, SameChannel DEF OrderInv

\* The item in the worker's hand is the first of the line: a tick is the least
\* in transit, and behind the sentinel there is nothing.
LEMMA ConsumeOrder ==
  ASSUME ChannelInv, OrderInv, Consume PROVE OrderInv' /\ LossyStep
<1>1. /\ reader = "releasing" /\ Handle(item)
      /\ UNCHANGED <<pipe, buffer, hub, offer, ticks>>
  BY DEF Consume, queue, hubState
<1>2. /\ Read = {item} /\ Read' = {} /\ Queued' = Queued /\ Offered' = Offered /\ item \in Items
      /\ reader' = IF item = Sentinel THEN "stopped" ELSE "loop"
      /\ lastTick' = IF item \in 1 .. MaxTicks THEN item ELSE lastTick
  BY <1>1 DEF Handle, Read, Queued, Offered, Publishing, OrderInv, SentinelEnds
<1>3. AllBefore({item}, Queued \cup Offered)
  BY <1>2 DEF OrderInv, LineIsOrdered, AllBefore
<1>4. LineIsOrdered'
  BY <1>1, <1>2 DEF OrderInv, LineIsOrdered, AllBefore
<1>5. CASE item \in 1 .. MaxTicks
  <2>1. lastTick' = item /\ item # Sentinel /\ reader' = "loop"
    BY <1>2, <1>5, MarksAreNoTicks
  <2>2. ASSUME NEW x \in Queued \cup Offered, x \in 1 .. MaxTicks PROVE item < x
    BY <1>3, <1>5, <2>2 DEF AllBefore, Before
  <2>3. item \in Int /\ ~(item < item) /\ \A x \in 1 .. MaxTicks : x \in Int
    BY <1>5
  <2>4. InTransit' = InTransit \ {item} /\ item \in InTransit
    BY <1>2, <1>5, <2>2, <2>3 DEF InTransit
  <2>5. \A x \in InTransit : item <= x
    <3> SUFFICES ASSUME NEW x \in InTransit PROVE item <= x
      OBVIOUS
    <3>1. x \in 1 .. MaxTicks /\ (x = item \/ x \in Queued \cup Offered)
      BY <1>2 DEF InTransit
    <3> QED BY <2>2, <2>3, <3>1
  <2>6. lastTick < item
    BY <2>4 DEF OrderInv, LineIsNew
  <2>7. LineIsNew'
    <3> SUFFICES ASSUME NEW x \in InTransit' PROVE item < x /\ x <= ticks
      BY <1>1, <2>1, <2>4 DEF LineIsNew, OrderInv
    <3>1. x \in InTransit /\ x # item /\ x \in 1 .. MaxTicks
      BY <2>4 DEF InTransit
    <3> QED BY <2>3, <2>5, <3>1 DEF OrderInv, LineIsNew
  <2>8. SentinelEnds'
    BY <1>1, <1>2, <2>1 DEF OrderInv, SentinelEnds
  <2>9. ChannelPhase' = ChannelPhase /\ ChannelPhase # "ended"
    BY <1>1, <2>1 DEF ChannelPhase
  <2>10. LossyStep
    BY <1>1, <2>1, <2>4, <2>5, <2>6, <2>9 DEF LossyStep, Lossy!Next, Lossy!Deliver
  <2> QED BY <1>4, <2>7, <2>8, <2>10 DEF OrderInv
<1>6. CASE item \notin 1 .. MaxTicks
  <2>1. lastTick' = lastTick /\ InTransit' = InTransit
    BY <1>2, <1>6 DEF InTransit
  <2>2. LineIsNew'
    BY <1>1, <2>1 DEF OrderInv, LineIsNew
  <2>3. CASE item = Sentinel
    <3>1. Queued = {} /\ Offered = {}
      BY <1>3, <2>3 DEF AllBefore, Before
    <3>2. InTransit = {} /\ hub = "done" /\ offer = Sentinel
      BY <1>2, <1>6, <2>3, <3>1 DEF InTransit, OrderInv, SentinelEnds
    <3>3. pipe = <<>> /\ buffer = <<>>
      <4>1. pipe \in Seq(Items) /\ buffer \in Seq(Items)
        BY DEF ChannelInv, TypeOK
      <4>2. (pipe # <<>> => Head(pipe) \in Range(pipe)) /\ (buffer # <<>> => Head(buffer) \in Range(buffer))
        BY <4>1, RangeOfTail
      <4> QED BY <3>1, <4>2 DEF Queued
    <3>4. SentinelEnds'
      BY <1>1, <1>2, <2>3, <3>2, <3>3 DEF OrderInv, SentinelEnds
    <3>5. ChannelPhase = "closed" /\ ChannelPhase' = "ended"
      BY <1>1, <1>2, <2>3, <3>2 DEF ChannelPhase
    <3>6. LossyStep
      BY <1>1, <2>1, <3>2, <3>5 DEF LossyStep, Lossy!Next, Lossy!End
    <3> QED BY <1>4, <2>2, <3>4, <3>6 DEF OrderInv
  <2>4. CASE item # Sentinel
    <3>1. SentinelEnds' /\ ChannelPhase' = ChannelPhase
      BY <1>1, <1>2, <2>4 DEF OrderInv, SentinelEnds, ChannelPhase
    <3> QED BY <1>1, <1>4, <2>1, <2>2, <3>1, SameChannel DEF OrderInv
  <2> QED BY <2>3, <2>4
<1> QED BY <1>5, <1>6

LEMMA OrderStep == ChannelInv /\ OrderInv /\ [Next]_vars => OrderInv' /\ LossyStep
<1> SUFFICES ASSUME ChannelInv, OrderInv, [Next]_vars PROVE OrderInv' /\ LossyStep
  OBVIOUS
<1>1. CASE Next
  BY <1>1, FanOutTickOrder, SendSentinelOrder, PutOrder, DropOldestOrder, RetryOrder,
     NotifyDropOrder, FeederWritesOrder, PollOrder, ReceiveOrder, ConsumeOrder
     DEF Next, Hub, Reader
<1>2. CASE UNCHANGED vars
  <2>1. UNCHANGED <<pipe, buffer, hub, offer, ticks, reader, item, lastTick>>
    BY <1>2 DEF vars, queue, hubState, worker
  <2>2. Read' = Read /\ Offered' = Offered /\ ChannelPhase' = ChannelPhase
    BY <2>1 DEF Read, Offered, Publishing, ChannelPhase
  <2>3. LineIsOrdered' /\ LineIsNew' /\ InTransit' = InTransit /\ Queued' = Queued
    BY <2>1, <2>2, SameLine DEF OrderInv
  <2>4. SentinelEnds'
    BY <2>1, <2>2, <2>3 DEF OrderInv, SentinelEnds
  <2> QED BY <2>1, <2>2, <2>3, <2>4, SameChannel DEF OrderInv
<1> QED BY <1>1, <1>2

(* A worker handles the ticks in the order the hub fanned them out and each   *)
(* once, at most the depth of the queue and one more are on their way, and a  *)
(* worker that stops at the sentinel leaves none behind, in every             *)
(* interleaving of put, eviction, second put, feeder thread and reader        *)
(* (BoundedWorkerQueue.publish, HubTickFeed.run).                             *)
THEOREM ImplementsLossyChannel == Spec => RefinesLossyChannel
<1>1. Init => ChannelInv /\ OrderInv /\ Lossy!Init
  BY ChannelInit, OrderInit
<1>2. ChannelInv /\ OrderInv /\ [Next]_vars
        => ChannelInv' /\ OrderInv' /\ [Lossy!Next]_(Lossy!vars)
  BY ChannelStep, OrderStep DEF LossyStep
<1> QED BY <1>1, <1>2, PTL DEF Spec, RefinesLossyChannel, Lossy!Spec

-----------------------------------------------------------------------------
(* The option chain.                                                        *)

\* The constructor refuses negative times.
ChainParameters == Throttle \in Nat /\ Ttl \in Nat /\ Nobody \notin Threads

ChainTypeOK ==
  /\ now \in Nat /\ wakeAt \in Nat
  /\ doing \in [Threads -> {"idle", "asking", "waiting", "fetching"}]
  /\ asked \in [Threads -> Keys]
  /\ owner \in Threads \cup {Nobody}
  /\ cache \in [Keys -> Nat \cup {Never}]
  /\ lastCall \in [Keys -> Nat \cup {Never}]
  /\ started \in [Keys -> Nat \cup {Never}]
  /\ answeredAt \in [Keys -> SUBSET Nat]
  /\ answer \in [Threads -> Nat \cup {Never, Raised}]

\* Who waits or fetches holds the lock.
LockIsHeld == \A t \in Threads : doing[t] \in {"waiting", "fetching"} <=> owner = t

\* A snapshot is no younger than the last call, and that is in the past.
CallsArePast ==
  \A k \in Keys :
    /\ cache[k] <= lastCall[k] /\ lastCall[k] <= now /\ started[k] <= now
    /\ cache[k] # Never => cache[k] \in answeredAt[k]

\* A request that is no longer under way has been counted.
EveryRequestCounts ==
  \A k \in Keys : \/ started[k] <= lastCall[k]
                  \/ \E t \in Threads : doing[t] = "fetching" /\ asked[t] = k

\* The sleep covers the rest of the interval, and nothing has come meanwhile.
SleepIsLongEnough ==
  \A t \in Threads : doing[t] = "waiting" =>
    /\ lastCall[asked[t]] = Never \/ wakeAt - lastCall[asked[t]] >= Throttle
    /\ cache[asked[t]] = Never \/ now - cache[asked[t]] >= Ttl

ChainInv == ChainTypeOK /\ LockIsHeld /\ CallsArePast /\ EveryRequestCounts /\ SleepIsLongEnough
       /\ AnswersAreReal

-----------------------------------------------------------------------------
LEMMA ChainInitInv == ASSUME ChainParameters PROVE ChainInit => ChainInv
<1> SUFFICES ASSUME ChainInit PROVE ChainInv
  OBVIOUS
<1> USE DEF ChainInit, Never
<1>1. ChainTypeOK
  BY DEF ChainTypeOK
<1>2. LockIsHeld
  BY DEF LockIsHeld, ChainParameters
<1>3. CallsArePast /\ EveryRequestCounts /\ SleepIsLongEnough
  BY DEF CallsArePast, EveryRequestCounts, SleepIsLongEnough
<1>4. AnswersAreReal
  BY DEF AnswersAreReal
<1> QED BY <1>1, <1>2, <1>3, <1>4 DEF ChainInv

LEMMA ChainNextInv ==
  ASSUME ChainParameters PROVE ChainInv /\ [ChainNext]_chainVars => ChainInv'
<1> SUFFICES ASSUME ChainInv, [ChainNext]_chainVars PROVE ChainInv'
  OBVIOUS
<1> USE DEF Never, Raised, ChainParameters, ChainInv, ChainTypeOK
<1>1. ASSUME NEW t \in Threads, NEW k \in Keys, Request(t, k) PROVE ChainInv'
  <2> USE <1>1 DEF Request
  <2>1. ChainTypeOK'
    OBVIOUS
  <2>2. LockIsHeld'
    BY DEF LockIsHeld
  <2>3. CallsArePast'
    BY DEF CallsArePast
  <2>4. EveryRequestCounts'
    BY DEF EveryRequestCounts
  <2>5. SleepIsLongEnough'
    BY DEF SleepIsLongEnough
  <2>6. AnswersAreReal'
    BY DEF AnswersAreReal
  <2> QED BY <2>1, <2>2, <2>3, <2>4, <2>5, <2>6
<1>2. ASSUME NEW t \in Threads, Hit(t) PROVE ChainInv'
  <2> USE <1>2 DEF Hit, Return
  <2>1. ChainTypeOK'
    BY DEF Fresh
  <2>2. LockIsHeld'
    BY DEF LockIsHeld
  <2>3. CallsArePast'
    BY DEF CallsArePast
  <2>4. EveryRequestCounts'
    BY DEF EveryRequestCounts
  <2>5. SleepIsLongEnough'
    BY DEF SleepIsLongEnough
  <2>6. cache[asked[t]] \in answeredAt[asked[t]]
    BY DEF Fresh, CallsArePast
  <2>7. AnswersAreReal'
    BY <2>6 DEF AnswersAreReal
  <2> QED BY <2>1, <2>2, <2>3, <2>4, <2>5, <2>7
<1>3. ASSUME NEW t \in Threads, Miss(t) PROVE ChainInv'
  <2> USE <1>3 DEF Miss
  <2>1. WaitFor(asked[t]) \in Nat
    BY DEF WaitFor, CallsArePast
  <2>2. ChainTypeOK'
    BY <2>1
  <2>3. LockIsHeld'
    BY DEF LockIsHeld
  <2>4. CallsArePast'
    BY DEF CallsArePast
  <2>5. EveryRequestCounts'
    BY DEF EveryRequestCounts
  <2>6. \A s \in Threads : doing'[s] = "waiting" => s = t
    BY DEF LockIsHeld
  <2>7. lastCall[asked[t]] = Never \/ wakeAt' - lastCall[asked[t]] >= Throttle
    BY DEF WaitFor, CallsArePast
  <2>8. cache[asked[t]] = Never \/ now - cache[asked[t]] >= Ttl
    BY DEF Fresh
  <2>9. SleepIsLongEnough'
    BY <2>6, <2>7, <2>8 DEF SleepIsLongEnough
  <2>10. AnswersAreReal'
    BY DEF AnswersAreReal
  <2> QED BY <2>2, <2>3, <2>4, <2>5, <2>9, <2>10
<1>4. ASSUME NEW t \in Threads, Fetch(t) PROVE ChainInv'
  <2> USE <1>4 DEF Fetch
  <2>1. ChainTypeOK'
    OBVIOUS
  <2>2. LockIsHeld'
    BY DEF LockIsHeld
  <2>3. CallsArePast'
    BY DEF CallsArePast
  <2>4. EveryRequestCounts'
    BY DEF EveryRequestCounts
  <2>5. SleepIsLongEnough'
    BY DEF SleepIsLongEnough
  <2>6. AnswersAreReal'
    BY DEF AnswersAreReal
  <2> QED BY <2>1, <2>2, <2>3, <2>4, <2>5, <2>6
<1>5. ASSUME NEW t \in Threads, Answered(t) PROVE ChainInv'
  <2> USE <1>5 DEF Answered, Ends, Return
  <2>1. ChainTypeOK'
    OBVIOUS
  <2>2. LockIsHeld' /\ \A s \in Threads : doing[s] \in {"waiting", "fetching"} => s = t
    BY DEF LockIsHeld
  <2>3. CallsArePast'
    BY DEF CallsArePast
  <2>4. EveryRequestCounts'
    BY <2>2 DEF EveryRequestCounts, CallsArePast
  <2>5. SleepIsLongEnough'
    BY <2>2 DEF SleepIsLongEnough
  <2>6. AnswersAreReal'
    BY DEF AnswersAreReal
  <2> QED BY <2>1, <2>2, <2>3, <2>4, <2>5, <2>6
<1>6. ASSUME NEW t \in Threads, Failed(t) PROVE ChainInv'
  <2> USE <1>6 DEF Failed, Ends, Return
  <2>1. ChainTypeOK'
    OBVIOUS
  <2>2. LockIsHeld' /\ \A s \in Threads : doing[s] \in {"waiting", "fetching"} => s = t
    BY DEF LockIsHeld
  <2>3. CallsArePast'
    BY DEF CallsArePast
  <2>4. EveryRequestCounts'
    BY <2>2 DEF EveryRequestCounts, CallsArePast
  <2>5. SleepIsLongEnough'
    BY <2>2 DEF SleepIsLongEnough
  <2>6. AnswersAreReal'
    BY DEF AnswersAreReal, CallsArePast
  <2> QED BY <2>1, <2>2, <2>3, <2>4, <2>5, <2>6
<1>7. CASE Invalidate
  <2> USE <1>7 DEF Invalidate
  <2>1. ChainTypeOK'
    OBVIOUS
  <2>2. LockIsHeld' /\ \A s \in Threads : doing[s] # "waiting"
    BY DEF LockIsHeld
  <2>3. CallsArePast'
    BY DEF CallsArePast
  <2>4. EveryRequestCounts'
    BY DEF EveryRequestCounts
  <2>5. SleepIsLongEnough'
    BY <2>2 DEF SleepIsLongEnough
  <2>6. AnswersAreReal'
    BY DEF AnswersAreReal
  <2> QED BY <2>1, <2>2, <2>3, <2>4, <2>5, <2>6
<1>8. CASE Advance
  <2> USE <1>8 DEF Advance
  <2>1. ChainTypeOK'
    OBVIOUS
  <2>2. LockIsHeld'
    BY DEF LockIsHeld
  <2>3. CallsArePast'
    BY DEF CallsArePast
  <2>4. EveryRequestCounts'
    BY DEF EveryRequestCounts
  <2>5. SleepIsLongEnough'
    <3> SUFFICES ASSUME NEW t \in Threads, doing[t] = "waiting"
                 PROVE  /\ lastCall[asked[t]] = Never \/ wakeAt - lastCall[asked[t]] >= Throttle
                        /\ cache[asked[t]] = Never \/ now' - cache[asked[t]] >= Ttl
      BY DEF SleepIsLongEnough
    <3>1. now' \in Nat /\ now' > now /\ cache[asked[t]] \in Nat \cup {Never}
      OBVIOUS
    <3>2. cache[asked[t]] = Never \/ now - cache[asked[t]] >= Ttl
      BY DEF SleepIsLongEnough
    <3>3. lastCall[asked[t]] = Never \/ wakeAt - lastCall[asked[t]] >= Throttle
      BY DEF SleepIsLongEnough
    <3> QED BY <3>1, <3>2, <3>3
  <2>6. AnswersAreReal'
    BY DEF AnswersAreReal
  <2> QED BY <2>1, <2>2, <2>3, <2>4, <2>5, <2>6
<1>9. CASE UNCHANGED chainVars
  BY <1>9 DEF chainVars, LockIsHeld, CallsArePast, EveryRequestCounts, SleepIsLongEnough,
              AnswersAreReal
<1> QED BY <1>1, <1>2, <1>3, <1>4, <1>5, <1>6, <1>7, <1>8, <1>9 DEF ChainNext

\* The inductive invariant holds throughout.
LEMMA ChainInvHolds == ASSUME ChainParameters PROVE ChainSpec => []ChainInv
<1>1. ChainInit => ChainInv
  BY ChainInitInv
<1>2. ChainInv /\ [ChainNext]_chainVars => ChainInv'
  BY ChainNextInv
<1> QED BY <1>1, <1>2, PTL DEF ChainSpec

-----------------------------------------------------------------------------
\* The lock covers the call itself.
THEOREM OneRequestAtATimeHolds == ASSUME ChainParameters PROVE ChainSpec => []OneRequestAtATime
<1>1. ChainInv => OneRequestAtATime
  BY DEF ChainInv, LockIsHeld, OneRequestAtATime
<1> QED BY <1>1, ChainInvHolds, PTL

\* No answer is invented, refreshed, or another chain's.
THEOREM AnswersAreRealHolds == ASSUME ChainParameters PROVE ChainSpec => []AnswersAreReal
<1>1. ChainInv => AnswersAreReal
  BY DEF ChainInv
<1> QED BY <1>1, ChainInvHolds, PTL

\* A request goes out where the only thread that waits sends its own.
LEMMA SentBy ==
  ASSUME ChainInv, [ChainNext]_chainVars, NEW k \in Keys, started'[k] # started[k]
  PROVE  \E t \in Threads : Fetch(t) /\ asked[t] = k
BY DEF ChainNext, Request, Hit, Miss, Fetch, Ends, Answered, Failed, Invalidate, Advance,
       chainVars,
       ChainInv, ChainTypeOK

\* The broker's interval is kept between any two requests for one chain.
THEOREM RequestsAreSpacedHolds == ASSUME ChainParameters PROVE ChainSpec => RequestsAreSpaced
<1>1. ChainInv /\ [ChainNext]_chainVars => SpacedStep
  <2> SUFFICES ASSUME ChainInv, [ChainNext]_chainVars, NEW k \in Keys,
                      started'[k] # started[k], started[k] # Never
               PROVE  started'[k] - started[k] >= Throttle
    BY DEF SpacedStep
  <2>1. PICK t \in Threads : Fetch(t) /\ asked[t] = k
    BY SentBy
  <2>2. doing[t] = "waiting" /\ now >= wakeAt /\ started'[k] = now
    BY <2>1 DEF Fetch, ChainInv, ChainTypeOK
  <2>3. started[k] <= lastCall[k]
    BY <2>2 DEF ChainInv, EveryRequestCounts, LockIsHeld
  <2>4. /\ started[k] \in Nat /\ lastCall[k] \in Nat \cup {Never} /\ now \in Nat
        /\ wakeAt \in Nat /\ Throttle \in Nat
    BY DEF ChainInv, ChainTypeOK, ChainParameters
  <2>5. lastCall[k] # Never
    BY <2>3, <2>4 DEF Never
  <2>6. wakeAt - lastCall[k] >= Throttle
    BY <2>1, <2>2, <2>5 DEF ChainInv, SleepIsLongEnough
  <2> QED BY <2>2, <2>3, <2>4, <2>5, <2>6
<1> QED BY <1>1, ChainInvHolds, PTL DEF ChainSpec, RequestsAreSpaced

\* What the caller saw before it slept is still so when its request goes out.
THEOREM OnlyNeededRequestsHolds == ASSUME ChainParameters PROVE ChainSpec => OnlyNeededRequests
<1>1. ChainInv /\ [ChainNext]_chainVars => NeededStep
  <2> SUFFICES ASSUME ChainInv, [ChainNext]_chainVars, NEW k \in Keys, started'[k] # started[k]
               PROVE  cache[k] = Never \/ now - cache[k] >= Ttl
    BY DEF NeededStep
  <2>1. PICK t \in Threads : Fetch(t) /\ asked[t] = k
    BY SentBy
  <2>2. doing[t] = "waiting"
    BY <2>1 DEF Fetch
  <2> QED BY <2>1, <2>2 DEF ChainInv, SleepIsLongEnough
<1> QED BY <1>1, ChainInvHolds, PTL DEF ChainSpec, OnlyNeededRequests

-----------------------------------------------------------------------------
(* The instrument master.                                                   *)

\* Days are counted; the published masters are files of rows.
CONSTANT Row
MasterParameters ==
  /\ Days \subseteq Nat /\ 0 \in Days
  /\ PublishedOn \in [Days -> Seq(Row)]
  /\ \A r \in Row : r.expiry \in Int

StepParameters == StrikeStep \in Nat \ {0}

-----------------------------------------------------------------------------
(* Strikes.                                                                  *)

LEMMA FloorDivision ==
  ASSUME NEW n \in Int, NEW d \in Nat, d > 0
  PROVE  n = d * (n \div d) + (n % d) /\ n % d < d /\ n % d >= 0 /\ n \div d \in Int /\ n % d \in Int
OBVIOUS

\* Rounding is off by half a step at most, ties included.
LEMMA RoundIsNear ==
  ASSUME NEW n \in Nat, NEW d \in Nat, d > 0
  PROVE  /\ Round(n, d) \in Int
         /\ 2 * (Round(n, d) * d - n) <= d /\ 2 * (n - Round(n, d) * d) <= d
<1> DEFINE q == n \div d
           r == n % d
<1>1. n = d * q + r /\ r < d /\ r >= 0 /\ q \in Int /\ r \in Int
  BY FloorDivision
<1>2. (q + 1) * d = d * q + d /\ q * d = d * q /\ d * q \in Int
  BY <1>1
<1>3. Round(n, d) = q \/ Round(n, d) = q + 1
  BY DEF Round
<1>4. Round(n, d) = q => 2 * r <= d
  BY <1>1 DEF Round
<1>5. Round(n, d) = q + 1 => 2 * r >= d
  BY <1>1 DEF Round
<1> HIDE DEF q, r
<1>6. CASE Round(n, d) = q
  <2>1. Round(n, d) * d = d * q
    BY <1>6, <1>2
  <2> QED BY <2>1, <1>6, <1>1, <1>2, <1>4
<1>7. CASE Round(n, d) = q + 1
  <2>1. Round(n, d) * d = d * q + d
    BY <1>7, <1>2
  <2> QED BY <2>1, <1>7, <1>1, <1>2, <1>5
<1> QED BY <1>3, <1>6, <1>7

(* The strike at the money is within half a step of the spot, whichever way a *)
(* tie is rounded (nearest_atm_strike).                                       *)
THEOREM AtmIsNearest ==
  ASSUME StepParameters, NEW spot \in Nat
  PROVE  /\ 2 * (NearestAtmStrike(spot, 0) - spot) <= StrikeStep
         /\ 2 * (spot - NearestAtmStrike(spot, 0)) <= StrikeStep
<1>1. StrikeStep \in Nat /\ StrikeStep > 0
  BY DEF StepParameters
<1>2. /\ Round(spot, StrikeStep) \in Int
      /\ 2 * (Round(spot, StrikeStep) * StrikeStep - spot) <= StrikeStep
      /\ 2 * (spot - Round(spot, StrikeStep) * StrikeStep) <= StrikeStep
  BY <1>1, RoundIsNear
<1>3. NearestAtmStrike(spot, 0) = Round(spot, StrikeStep) * StrikeStep
  BY <1>1, <1>2 DEF NearestAtmStrike
<1> QED BY <1>2, <1>3

(* A strike at least one step in the money is really on the side of the spot  *)
(* where the option has value, one out of the money on the other, for a call  *)
(* and for a put, however the money itself was rounded (resolve_strike).      *)
THEOREM MoneynessIsRight ==
  ASSUME StepParameters, NEW spot \in Nat, NEW steps \in Nat \ {0}
  PROVE  /\ ResolveStrike(spot, "CE", "ITM", steps) < spot
         /\ ResolveStrike(spot, "PE", "ITM", steps) > spot
         /\ ResolveStrike(spot, "CE", "OTM", steps) > spot
         /\ ResolveStrike(spot, "PE", "OTM", steps) < spot
<1> DEFINE base == Round(spot, StrikeStep) * StrikeStep
<1>1. StrikeStep \in Nat /\ StrikeStep > 0
  BY DEF StepParameters
<1>2. /\ Round(spot, StrikeStep) \in Int
      /\ 2 * (base - spot) <= StrikeStep /\ 2 * (spot - base) <= StrikeStep
  BY <1>1, RoundIsNear
<1>3. base \in Int
  BY <1>1, <1>2
<1>4. steps * StrikeStep >= StrikeStep /\ steps * StrikeStep \in Int
  BY <1>1
<1>5. (-steps) * StrikeStep = -(steps * StrikeStep)
  BY <1>1
<1>6. /\ ResolveStrike(spot, "CE", "ITM", steps) = base + (-steps) * StrikeStep
      /\ ResolveStrike(spot, "PE", "ITM", steps) = base + steps * StrikeStep
      /\ ResolveStrike(spot, "CE", "OTM", steps) = base + steps * StrikeStep
      /\ ResolveStrike(spot, "PE", "OTM", steps) = base + (-steps) * StrikeStep
  BY DEF ResolveStrike, NearestAtmStrike, Offset
<1> HIDE DEF base
<1> QED BY <1>1, <1>2, <1>3, <1>4, <1>5, <1>6

-----------------------------------------------------------------------------
(* Sets of numbers.                                                          *)

\* A set of naturals has a least member: of the intervals that end in the set,
\* one holds no smaller one.
LEMMA LeastExists ==
  ASSUME NEW S \in SUBSET Nat, S # {}
  PROVE  \E e \in S : \A f \in S : e <= f
<1> DEFINE T == {0..i : i \in S}
<1>1. T \subseteq FiniteSubsetsOf(Nat)
  <2> SUFFICES ASSUME NEW i \in S PROVE 0..i \in FiniteSubsetsOf(Nat)
    OBVIOUS
  <2>1. IsFiniteSet(0..i)
    BY FS_Interval
  <2>2. 0..i \in SUBSET Nat
    OBVIOUS
  <2> QED BY <2>1, <2>2 DEF FiniteSubsetsOf
<1>2. T # {}
  OBVIOUS
<1>3. PICK x \in T : \A y \in T : ~(<<y, x>> \in StrictSubsetOrdering(Nat))
  BY <1>1, <1>2, FS_StrictSubsetOrderingWellFounded, WFMin
<1>4. PICK e \in S : x = 0..e
  BY <1>3
<1>5. ASSUME NEW f \in S, f < e PROVE FALSE
  <2>1. 0..f \in T /\ 0..e \in T
    OBVIOUS
  <2>2. 0..f \subseteq 0..e /\ 0..f # 0..e
    BY <1>5
  <2>3. 0..f \in SUBSET Nat /\ 0..e \in SUBSET Nat
    OBVIOUS
  <2>4. <<0..f, 0..e>> \in StrictSubsetOrdering(Nat)
    BY <2>2, <2>3 DEF StrictSubsetOrdering
  <2> QED BY <2>1, <2>4, <1>3, <1>4
<1> QED BY <1>5

\* The row that an index keeps is one of those it was given.
LEMMA LatestIsOne ==
  ASSUME NEW n \in Nat, NEW S \in SUBSET (1..n), S # {}
  PROVE  Latest(S) \in S /\ \A j \in S : j <= Latest(S)
<1> DEFINE T == {n - i : i \in S}
<1>1. T \subseteq Nat
  <2> SUFFICES ASSUME NEW i \in S PROVE n - i \in Nat
    OBVIOUS
  <2>1. i \in 1..n
    OBVIOUS
  <2> QED BY <2>1
<1>2. T # {}
  <2>1. PICK i \in S : TRUE
    OBVIOUS
  <2>2. n - i \in T
    OBVIOUS
  <2> QED BY <2>2
<1>0. PICK e \in T : \A f \in T : e <= f
  BY <1>1, <1>2, LeastExists
<1>3. PICK i \in S : e = n - i
  BY <1>0
<1>4. \A j \in S : j <= i
  <2> TAKE j \in S
  <2>1. n - j \in T
    OBVIOUS
  <2>2. n - i <= n - j
    BY <2>1, <1>0, <1>3
  <2>3. i \in 1..n /\ j \in 1..n
    OBVIOUS
  <2> QED BY <2>2, <2>3
<1> HIDE DEF T
<1>5. \E k \in S : \A j \in S : j <= k
  BY <1>4
<1> QED BY <1>5 DEF Latest

\* An answer of an index is a usable row of its key.
LEMMA RowIsListed ==
  ASSUME NEW m \in Seq(Row), NEW S \in SUBSET Contracts(m), RowOf(m, S) # NoRow
  PROVE  S # {} /\ Latest(S) \in S /\ RowOf(m, S) = m[Latest(S)]
<1>1. S # {} /\ RowOf(m, S) = m[Latest(S)]
  BY DEF RowOf
<1>2. S \in SUBSET (1..Len(m)) /\ Len(m) \in Nat
  BY DEF Contracts
<1> QED BY <1>1, <1>2, LatestIsOne

\* A usable row is a row, and not the absence of one.
LEMMA UsableIsARow ==
  ASSUME NEW m \in Seq(Row), NEW i \in Contracts(m)
  PROVE  m[i] # NoRow /\ m[i] \in Row
<1>1. Usable(m[i]) /\ i \in 1..Len(m)
  BY DEF Contracts
<1>2. m[i].strike # Unreadable
  BY <1>1 DEF Usable
<1>3. NoRow.strike = Unreadable
  BY DEF NoRow
<1> QED BY <1>1, <1>2, <1>3

\* With no id given twice, an id leads back to its own row.
LEMMA IdLeadsBack ==
  ASSUME NEW m \in Seq(Row), UniqueIds(m), NEW i \in Contracts(m)
  PROVE  BySecurityId(m, m[i].id) = m[i]
<1> DEFINE S == {j \in Contracts(m) : m[j].id = m[i].id}
<1>1. S = {i}
  BY DEF UniqueIds
<1>2. S \in SUBSET (1..Len(m)) /\ Len(m) \in Nat /\ S # {}
  BY <1>1 DEF Contracts
<1>3. Latest(S) = i
  BY <1>1, <1>2, LatestIsOne
<1> QED BY <1>2, <1>3 DEF BySecurityId, RowOf

\* The nearest expiry is one that is listed and current.
LEMMA NearestIsSoonest ==
  ASSUME NEW m \in Seq(Row), NEW on \in Nat, HasCurrent(m, on),
         \A r \in Row : r.expiry \in Int
  PROVE  Soonest(NearestExpiry(m, on), Current(m, on))
<1>1. Current(m, on) \in SUBSET Nat
  <2> SUFFICES ASSUME NEW i \in Contracts(m), m[i].expiry >= on PROVE m[i].expiry \in Nat
    BY DEF Current, Expiries
  <2>1. m[i].expiry \in Int
    BY UsableIsARow
  <2> QED BY <2>1
<1>2. PICK e \in Current(m, on) : \A f \in Current(m, on) : e <= f
  BY <1>1, LeastExists DEF HasCurrent
<1>3. Soonest(e, Current(m, on))
  BY <1>2 DEF Soonest
<1> QED BY <1>2, <1>3 DEF NearestExpiry

-----------------------------------------------------------------------------
(* The processes and the cache.                                              *)

MasterTypeOK ==
  /\ today \in Days
  /\ files \in [Days -> Seq(Row)]
  /\ pc \in [Processes -> {"start", "write", "load", "ready", "failed"}]
  /\ text \in [Processes -> Seq(Row)]
  /\ loadedOn \in [Processes -> Days]
  /\ expiry = [p \in Processes |-> expiry[p]]
  /\ pick = [p \in Processes |-> pick[p]]

\* What is about to be written was downloaded, today or before.
WritesAreWhole ==
  \A p \in Processes : pc[p] = "write" => \E x \in Days : x <= today /\ text[p] = PublishedOn[x]

\* Nothing is selected before the series is fixed.
PicksWait == \A p \in Processes : pick[p] # NoPick => pc[p] \in {"ready", "failed"}

MasterInv == MasterTypeOK /\ CopiesAreWhole /\ WritesAreWhole /\ PicksWait /\ PickIsAsked /\ SeriesIsNearest

LEMMA MasterInitInv == ASSUME MasterParameters PROVE MasterInit => MasterInv
<1> SUFFICES ASSUME MasterInit PROVE MasterInv
  OBVIOUS
<1> USE DEF MasterInit
<1>1. <<>> \in Seq(Row) /\ 0 \in Days
  BY DEF MasterParameters
<1>2. MasterTypeOK
  BY <1>1 DEF MasterTypeOK, NoFile
<1>3. CopiesAreWhole /\ WritesAreWhole /\ PicksWait /\ PickIsAsked /\ SeriesIsNearest
  BY DEF CopiesAreWhole, WritesAreWhole, PicksWait, PickIsAsked, SeriesIsNearest
<1> QED BY <1>2, <1>3 DEF MasterInv

\* A step of one process leaves the others' part of the invariant alone.
LEMMA TypeStep ==
  ASSUME MasterParameters, MasterTypeOK, [MasterNext]_masterVars
  PROVE  MasterTypeOK'
<1> USE DEF MasterTypeOK
<1>1. PublishedOn \in [Days -> Seq(Row)] /\ 0 \in Days /\ <<>> \in Seq(Row)
  BY DEF MasterParameters
<1>2. ASSUME NEW p \in Processes, ReadCached(p) PROVE MasterTypeOK'
  BY <1>2 DEF ReadCached
<1>3. ASSUME NEW p \in Processes, Download(p) PROVE MasterTypeOK'
  BY <1>1, <1>3 DEF Download
<1>4. ASSUME NEW p \in Processes, Write(p) PROVE MasterTypeOK'
  BY <1>4 DEF Write
<1>5. ASSUME NEW p \in Processes, Load(p) PROVE MasterTypeOK'
  BY <1>5 DEF Load
<1>6. ASSUME NEW p \in Processes, Restart(p) PROVE MasterTypeOK'
  BY <1>1, <1>6 DEF Restart, Idle
<1>7. ASSUME NEW p \in Processes, NEW spot \in Nat, NEW steps \in Nat,
             NEW type \in {"CE", "PE"}, NEW moneyness \in {"ITM", "ATM", "OTM"},
             Select(p, spot, type, moneyness, steps)
      PROVE MasterTypeOK'
  BY <1>7 DEF Select
<1>8. CASE Prune
  BY <1>1, <1>8 DEF Prune, NoFile
<1>9. CASE Midnight
  BY <1>9 DEF Midnight
<1>10. CASE UNCHANGED masterVars
  BY <1>10 DEF masterVars
<1> QED BY <1>2, <1>3, <1>4, <1>5, <1>6, <1>7, <1>8, <1>9, <1>10 DEF MasterNext

\* The cache: only a write adds to it, and what it adds was published.
LEMMA CacheStep ==
  ASSUME MasterParameters, MasterInv, [MasterNext]_masterVars
  PROVE  CopiesAreWhole' /\ WritesAreWhole'
<1> USE DEF MasterInv
<1>0. Days \subseteq Nat /\ \A d \in Days : d <= d
  BY DEF MasterParameters
<1> USE DEF CopiesAreWhole, WritesAreWhole
<1>2. ASSUME NEW p \in Processes, ReadCached(p) PROVE CopiesAreWhole' /\ WritesAreWhole'
  BY <1>2 DEF ReadCached, MasterTypeOK
<1>3. ASSUME NEW p \in Processes, Download(p) PROVE CopiesAreWhole' /\ WritesAreWhole'
  <2>1. today \in Days /\ today <= today
    BY <1>0 DEF MasterTypeOK
  <2>2. UNCHANGED <<today, files>>
    BY <1>3 DEF Download
  <2>3. ASSUME NEW q \in Processes, pc'[q] = "write"
        PROVE  \E x \in Days : x <= today /\ text'[q] = PublishedOn[x]
    <3>1. CASE q = p
      <4>1. text'[q] = PublishedOn[today]
        BY <1>3, <2>3, <3>1 DEF Download, MasterTypeOK
      <4> QED BY <4>1, <2>1
    <3>2. CASE q # p
      <4>1. pc'[q] = pc[q] /\ text'[q] = text[q]
        BY <1>3, <3>2 DEF Download, MasterTypeOK
      <4> QED BY <4>1, <2>3
    <3> QED BY <3>1, <3>2
  <2>4. CopiesAreWhole'
    BY <2>2
  <2>5. WritesAreWhole'
    BY <2>2, <2>3
  <2> QED BY <2>4, <2>5
<1>4. ASSUME NEW p \in Processes, Write(p) PROVE CopiesAreWhole' /\ WritesAreWhole'
  <2>1. PICK x \in Days : x <= today /\ text[p] = PublishedOn[x]
    BY <1>4 DEF Write
  <2>2. \A d \in Days : files'[d] = IF d = today THEN text[p] ELSE files[d]
    BY <1>4 DEF Write, MasterTypeOK
  <2>3. CopiesAreWhole'
    BY <2>1, <2>2
  <2>4. WritesAreWhole'
    BY <1>4 DEF Write, MasterTypeOK
  <2> QED BY <2>3, <2>4
<1>5. ASSUME NEW p \in Processes, Load(p) PROVE CopiesAreWhole' /\ WritesAreWhole'
  BY <1>5 DEF Load, MasterTypeOK
<1>6. ASSUME NEW p \in Processes, Restart(p) PROVE CopiesAreWhole' /\ WritesAreWhole'
  BY <1>6 DEF Restart, Idle, MasterTypeOK
<1>7. ASSUME NEW p \in Processes, NEW spot \in Nat, NEW steps \in Nat,
             NEW type \in {"CE", "PE"}, NEW moneyness \in {"ITM", "ATM", "OTM"},
             Select(p, spot, type, moneyness, steps)
      PROVE CopiesAreWhole' /\ WritesAreWhole'
  BY <1>7 DEF Select, MasterTypeOK
<1>8. CASE Prune
  BY <1>8 DEF Prune, MasterTypeOK
<1>9. CASE Midnight
  <2>1. today' = today + 1 /\ UNCHANGED <<files, pc, text>>
    BY <1>9 DEF Midnight
  <2>2. \A x \in Days : x <= today => x <= today'
    BY <1>0, <2>1 DEF MasterTypeOK
  <2> QED BY <2>1, <2>2
<1>10. CASE UNCHANGED masterVars
  BY <1>10 DEF masterVars
<1> QED BY <1>2, <1>3, <1>4, <1>5, <1>6, <1>7, <1>8, <1>9, <1>10 DEF MasterNext

\* The parts of the invariant about one process.
PickOf(p) ==
  /\ pick[p] # NoPick => pc[p] \in {"ready", "failed"}
  /\ pick[p] # NoPick =>
       /\ \E i \in Contracts(text[p]) : pick[p].row = text[p][i]
       /\ pick[p].row.strike = pick[p].strike
       /\ pick[p].row.type = pick[p].type /\ pick[p].row.expiry = expiry[p]

SeriesOf(p) ==
  pc[p] = "ready" /\ Configured = NoExpiry =>
    Soonest(expiry[p], Current(text[p], loadedOn[p]))

LEMMA PartsOf ==
  /\ PicksWait /\ PickIsAsked /\ SeriesIsNearest <=> \A p \in Processes : PickOf(p) /\ SeriesOf(p)
BY DEF PicksWait, PickIsAsked, SeriesIsNearest, PickOf, SeriesOf

\* A contract that is found is listed and is the one that was asked for.
LEMMA GetIsAsked ==
  ASSUME NEW m \in Seq(Row), NEW strike, NEW type, NEW exp, Get(m, strike, type,
         exp) # NoRow
  PROVE  /\ \E i \in Contracts(m) : Get(m, strike, type, exp) = m[i]
         /\ Get(m, strike, type, exp).strike = strike
         /\ Get(m, strike, type, exp).type = type /\ Get(m, strike, type, exp).expiry = exp
<1> DEFINE S == {i \in Contracts(m) : m[i].strike = strike /\ m[i].type = type /\ m[i].expiry = exp}
<1>1. S \in SUBSET Contracts(m) /\ Get(m, strike, type, exp) = RowOf(m, S)
  BY DEF Get
<1>2. Latest(S) \in S /\ RowOf(m, S) = m[Latest(S)]
  BY <1>1, RowIsListed
<1> QED BY <1>1, <1>2

LEMMA ProcessStep ==
  ASSUME MasterParameters, MasterInv, [MasterNext]_masterVars, NEW q \in Processes
  PROVE  PickOf(q)' /\ SeriesOf(q)'
<1> DEFINE Same == pc'[q] = pc[q] /\ text'[q] = text[q] /\ loadedOn'[q] = loadedOn[q]
                   /\ expiry'[q] = expiry[q] /\ pick'[q] = pick[q]
           Goal == PickOf(q)' /\ SeriesOf(q)'
<1>0. PickOf(q) /\ SeriesOf(q) /\ MasterTypeOK
  BY PartsOf DEF MasterInv
<1>1. Same => Goal
  BY <1>0 DEF PickOf, SeriesOf
<1>2. ASSUME NEW p \in Processes, ReadCached(p) PROVE Goal
  <2>1. CASE p = q
    BY <1>0, <1>2, <2>1 DEF ReadCached, MasterTypeOK, PickOf, SeriesOf
  <2>2. CASE p # q
    BY <1>0, <1>1, <1>2, <2>2 DEF ReadCached, MasterTypeOK
  <2> QED BY <2>1, <2>2
<1>3. ASSUME NEW p \in Processes, Download(p) PROVE Goal
  <2>1. CASE p = q
    BY <1>0, <1>3, <2>1 DEF Download, MasterTypeOK, PickOf, SeriesOf
  <2>2. CASE p # q
    BY <1>0, <1>1, <1>3, <2>2 DEF Download, MasterTypeOK
  <2> QED BY <2>1, <2>2
<1>4. ASSUME NEW p \in Processes, Write(p) PROVE Goal
  <2>1. CASE p = q
    BY <1>0, <1>4, <2>1 DEF Write, MasterTypeOK, PickOf, SeriesOf
  <2>2. CASE p # q
    BY <1>0, <1>1, <1>4, <2>2 DEF Write, MasterTypeOK
  <2> QED BY <2>1, <2>2
<1>5. ASSUME NEW p \in Processes, Load(p) PROVE Goal
  <2>1. CASE p = q
    <3>1. pc[q] = "load" /\ pick'[q] = pick[q] /\ pick[q] = NoPick
      BY <1>0, <1>5, <2>1 DEF Load, PickOf
    <3>2. PickOf(q)'
      BY <3>1 DEF PickOf
    <3>3. SUFFICES ASSUME pc'[q] = "ready", Configured = NoExpiry
                   PROVE  Soonest(expiry'[q], Current(text'[q], loadedOn'[q]))
      BY <3>2 DEF SeriesOf
    <3>4. /\ text'[q] = text[q] /\ loadedOn'[q] = today
          /\ expiry'[q] = NearestExpiry(text[q], today) /\ HasCurrent(text[q], today)
      BY <1>0, <1>5, <2>1, <3>3 DEF Load, MasterTypeOK
    <3>5. text[q] \in Seq(Row) /\ today \in Nat /\ \A r \in Row : r.expiry \in Int
      BY <1>0 DEF MasterTypeOK, MasterParameters
    <3>6. Soonest(NearestExpiry(text[q], today), Current(text[q], today))
      BY <3>4, <3>5, NearestIsSoonest
    <3> QED BY <3>4, <3>6
  <2>2. CASE p # q
    BY <1>0, <1>1, <1>5, <2>2 DEF Load, MasterTypeOK
  <2> QED BY <2>1, <2>2
<1>6. ASSUME NEW p \in Processes, Restart(p) PROVE Goal
  <2>1. CASE p = q
    BY <1>0, <1>6, <2>1 DEF Restart, Idle, MasterTypeOK, PickOf, SeriesOf
  <2>2. CASE p # q
    BY <1>0, <1>1, <1>6, <2>2 DEF Restart, Idle, MasterTypeOK
  <2> QED BY <2>1, <2>2
<1>7. ASSUME NEW p \in Processes, NEW spot \in Nat, NEW steps \in Nat,
             NEW type \in {"CE", "PE"}, NEW moneyness \in {"ITM", "ATM", "OTM"},
             Select(p, spot, type, moneyness, steps)
      PROVE Goal
  <2> DEFINE strike == ResolveStrike(spot, type, moneyness, steps)
             row == Get(text[p], strike, type, expiry[p])
  <2>0. text[p] \in Seq(Row)
    BY <1>0 DEF MasterTypeOK
  <2>1. CASE p = q /\ row # NoRow
    <3>1. /\ pick'[q] = [row |-> row, strike |-> strike, type |-> type]
          /\ pc[q] = "ready" /\ pc'[q] = "ready"
          /\ text'[q] = text[q] /\ loadedOn'[q] = loadedOn[q] /\ expiry'[q] = expiry[q]
      BY <1>0, <1>7, <2>1 DEF Select, MasterTypeOK
    <3>2. /\ \E i \in Contracts(text[q]) : row = text[q][i]
          /\ row.strike = strike /\ row.type = type /\ row.expiry = expiry[q]
      BY <2>0, <2>1, GetIsAsked
    <3> HIDE DEF row, strike
    <3>3. pick'[q].row = row /\ pick'[q].strike = strike /\ pick'[q].type = type
      BY <3>1
    <3>4. PickOf(q)'
      BY <3>1, <3>2, <3>3 DEF PickOf
    <3>5. SeriesOf(q)'
      BY <1>0, <3>1 DEF SeriesOf
    <3> QED BY <3>4, <3>5
  <2>2. CASE p = q /\ row = NoRow
    BY <1>0, <1>7, <2>2 DEF Select, MasterTypeOK, PickOf, SeriesOf
  <2>3. CASE p # q
    BY <1>0, <1>1, <1>7, <2>3 DEF Select, MasterTypeOK
  <2> QED BY <2>1, <2>2, <2>3
<1>8. CASE Prune
  BY <1>1, <1>8 DEF Prune
<1>9. CASE Midnight
  BY <1>1, <1>9 DEF Midnight
<1>10. CASE UNCHANGED masterVars
  BY <1>1, <1>10 DEF masterVars
<1> QED BY <1>2, <1>3, <1>4, <1>5, <1>6, <1>7, <1>8, <1>9, <1>10 DEF MasterNext

LEMMA MasterNextInv ==
  ASSUME MasterParameters PROVE MasterInv /\ [MasterNext]_masterVars => MasterInv'
<1> SUFFICES ASSUME MasterInv, [MasterNext]_masterVars PROVE MasterInv'
  OBVIOUS
<1>1. MasterTypeOK'
  BY TypeStep DEF MasterInv
<1>2. CopiesAreWhole' /\ WritesAreWhole'
  BY CacheStep
<1>3. \A p \in Processes : PickOf(p)' /\ SeriesOf(p)'
  BY ProcessStep
<1>4. PicksWait' /\ PickIsAsked' /\ SeriesIsNearest'
  BY <1>3 DEF PicksWait, PickIsAsked, SeriesIsNearest, PickOf, SeriesOf
<1> QED BY <1>1, <1>2, <1>4 DEF MasterInv

LEMMA MasterInvHolds == ASSUME MasterParameters PROVE MasterSpec => []MasterInv
<1>1. MasterInit => MasterInv
  BY MasterInitInv
<1>2. MasterInv /\ [MasterNext]_masterVars => MasterInv'
  BY MasterNextInv
<1> QED BY <1>1, <1>2, PTL DEF MasterSpec

(* A crash during a download, two workers that start together and the pruning *)
(* of old copies leave only whole masters in the cache (cached_text, _write,  *)
(* prune).                                                                    *)
THEOREM CopiesAreWholeHolds == ASSUME MasterParameters PROVE MasterSpec => []CopiesAreWhole
<1>1. MasterInv => CopiesAreWhole
  BY DEF MasterInv
<1> QED BY <1>1, MasterInvHolds, PTL

(* A selected contract is listed, and is what the signal asked for            *)
(* (DhanOptionChainResolver.resolve, OptionSelector.select).                  *)
THEOREM PickIsAskedHolds == ASSUME MasterParameters PROVE MasterSpec => []PickIsAsked
<1>1. MasterInv => PickIsAsked
  BY DEF MasterInv
<1> QED BY <1>1, MasterInvHolds, PTL

(* The broker applies the lot and freeze rules of the contract that was       *)
(* picked (instrument_rules).                                                 *)
THEOREM RulesAreThePicksHolds == ASSUME MasterParameters PROVE MasterSpec => []RulesAreThePicks
<1>1. ASSUME MasterInv PROVE RulesAreThePicks
  <2> SUFFICES ASSUME NEW p \in Processes, pick[p] # NoPick, UniqueIds(text[p])
               PROVE  BySecurityId(text[p], pick[p].row.id) = pick[p].row
    BY DEF RulesAreThePicks
  <2>1. text[p] \in Seq(Row)
    BY <1>1 DEF MasterInv, MasterTypeOK
  <2>2. PICK i \in Contracts(text[p]) : pick[p].row = text[p][i]
    BY <1>1 DEF MasterInv, PickIsAsked
  <2> QED BY <2>1, <2>2, IdLeadsBack
<1>2. MasterInv => RulesAreThePicks
  BY <1>1
<1> QED BY <1>2, MasterInvHolds, PTL

(* The series is the nearest that had not expired (nearest_expiry).           *)
THEOREM SeriesIsNearestHolds == ASSUME MasterParameters PROVE MasterSpec => []SeriesIsNearest
<1>1. MasterInv => SeriesIsNearest
  BY DEF MasterInv
<1> QED BY <1>1, MasterInvHolds, PTL

\* The series is fixed from the moment something can be selected.
LEMMA ExpiryStays ==
  ASSUME MasterInv, [MasterNext]_masterVars, NEW q \in Processes, pick[q] # NoPick,
         pick'[q] # NoPick
  PROVE  expiry'[q] = expiry[q]
<1>0. pc[q] \in {"ready", "failed"} /\ MasterTypeOK
  BY DEF MasterInv, PicksWait
<1>1. ASSUME NEW p \in Processes, ReadCached(p) \/ Download(p) \/ Write(p)
      PROVE expiry' = expiry
  BY <1>1 DEF ReadCached, Download, Write
<1>2. ASSUME NEW p \in Processes, Load(p) PROVE expiry'[q] = expiry[q]
  BY <1>0, <1>2 DEF Load, MasterTypeOK
<1>3. ASSUME NEW p \in Processes, Restart(p) PROVE expiry'[q] = expiry[q]
  BY <1>0, <1>3 DEF Restart, Idle, MasterTypeOK
<1>4. ASSUME NEW p \in Processes, NEW spot \in Nat, NEW steps \in Nat,
             NEW type \in {"CE", "PE"}, NEW moneyness \in {"ITM", "ATM", "OTM"},
             Select(p, spot, type, moneyness, steps)
      PROVE expiry' = expiry
  BY <1>4 DEF Select
<1>5. Prune \/ Midnight \/ UNCHANGED masterVars => expiry' = expiry
  BY DEF Prune, Midnight, masterVars
<1> QED BY <1>1, <1>2, <1>3, <1>4, <1>5 DEF MasterNext

(* A run keeps to one series, over midnight too                               *)
(* (DhanOptionChainResolver.__init__).                                        *)
THEOREM OneSeriesHolds == ASSUME MasterParameters PROVE MasterSpec => OneSeries
<1>1. MasterInv /\ MasterInv' /\ [MasterNext]_masterVars => [SeriesStep]_masterVars
  <2> SUFFICES ASSUME MasterInv, MasterInv', [MasterNext]_masterVars, NEW p \in Processes,
                      pick[p] # NoPick, pick'[p] # NoPick
               PROVE  pick'[p].row.expiry = pick[p].row.expiry
    BY DEF SeriesStep
  <2>1. pick[p].row.expiry = expiry[p]
    BY DEF MasterInv, PickIsAsked
  <2>2. pick'[p].row.expiry = expiry'[p]
    BY DEF MasterInv, PickIsAsked
  <2> QED BY <2>1, <2>2, ExpiryStays
<1> QED BY <1>1, MasterInvHolds, PTL DEF MasterSpec, OneSeries

-----------------------------------------------------------------------------
(* The live candles after a warm-up, and the crossover they feed.             *)

Bucket(b) == \E k \in Int : b = k * Interval

LEMMA IntervalIsPositive == Interval \in Nat /\ Interval > 0
BY WarmUpAssumption

\* The bucket of a minute begins at or before it, and the next one after it.
LEMMA FloorIsBucket ==
  ASSUME NEW t \in Int
  PROVE  /\ FloorToInterval(t) \in Int /\ Bucket(FloorToInterval(t))
         /\ FloorToInterval(t) <= t /\ t < FloorToInterval(t) + Interval
<1> DEFINE k == t \div Interval
           r == t % Interval
<1>1. t = Interval * k + r /\ 0 <= r /\ r < Interval /\ k \in Int /\ r \in Int
  BY FloorDivision, IntervalIsPositive
<1>2. FloorToInterval(t) = t - r
  BY DEF FloorToInterval
<1> HIDE DEF k, r
<1>3. Interval * k = k * Interval /\ Interval * k \in Int
  BY <1>1, IntervalIsPositive
<1>4. FloorToInterval(t) = k * Interval
  BY <1>1, <1>2, <1>3
<1> QED BY <1>1, <1>2, <1>3, <1>4, IntervalIsPositive DEF Bucket

\* Two buckets are at least an interval apart.
LEMMA NextBucket ==
  ASSUME NEW a \in Int, NEW b \in Int, Bucket(a), Bucket(b), a < b
  PROVE  a + Interval <= b
<1>1. PICK j \in Int : a = j * Interval
  BY DEF Bucket
<1>2. PICK k \in Int : b = k * Interval
  BY DEF Bucket
<1>3. j < k
  <2>1. ASSUME k <= j PROVE FALSE
    <3>1. j * Interval = k * Interval + (j - k) * Interval
      BY <1>1, <1>2, IntervalIsPositive
    <3>2. j - k \in Nat /\ (j - k) * Interval >= 0
      BY <2>1, IntervalIsPositive
    <3>3. (j - k) * Interval \in Int
      BY IntervalIsPositive
    <3> QED BY <1>1, <1>2, <3>1, <3>2, <3>3
  <2> QED BY <2>1
<1>4. k * Interval = j * Interval + Interval + (k - j - 1) * Interval
  BY IntervalIsPositive
<1>5. k - j - 1 \in Nat /\ (k - j - 1) * Interval >= 0 /\ (k - j - 1) * Interval \in Int
  BY <1>3, IntervalIsPositive
<1> QED BY <1>1, <1>2, <1>4, <1>5, IntervalIsPositive

-----------------------------------------------------------------------------
(* Live bars and signals.                                                    *)

BarInv ==
  /\ tickAt \in Int
  /\ bar # NoBar => /\ bar.start \in Int /\ bar.last \in Int /\ Bucket(bar.start)
                    /\ FloorToInterval(bar.last) <= bar.start

CrossType == [known : BOOLEAN, side : Sides, candidate : Sides, count : Nat, signal : Sides]

\* What the crossover knows of, it has seen; its side is the one last signalled.
CrossInv ==
  /\ cross \in CrossType
  /\ cross.known => cross.side \in observed
  /\ signalled # 0 => cross.known /\ cross.side = signalled
  /\ at \notin {"live", "over"} => signalled = 0

LiveInv == BarInv /\ FedBarsHaveNoHole /\ CrossInv

LEMMA UpdateIs ==
  ASSUME NEW c \in CrossType, NEW raw \in Sides
  PROVE  /\ Update(c, raw) \in CrossType /\ Update(c, raw).known
         /\ Update(c, raw).side = IF c.known /\ Update(c, raw).signal = 0 THEN c.side ELSE raw
         /\ Update(c, raw).signal # 0 => c.known /\ raw # c.side /\ Update(c, raw).signal = raw
<1>1. Confirm \in Nat
  BY WarmUpAssumption
<1>2. CASE ~c.known
  BY <1>2 DEF Update, FreshCross, CrossType, Sides
<1>3. CASE c.known /\ raw \in {0, c.side}
  BY <1>3 DEF Update, CrossType, Sides
<1>4. CASE c.known /\ raw \notin {0, c.side}
  <2>1. Update(c, raw) = TowardsConfirmation(c, raw)
    BY <1>4 DEF Update
  <2> DEFINE n == IF raw = c.candidate THEN c.count + 1 ELSE 1
  <2>2. n \in Nat
    BY DEF CrossType
  <2>3. CASE n < Confirm
    <3> DEFINE u == [c EXCEPT !.candidate = raw, !.count = n, !.signal = 0]
    <3>1. Update(c, raw) = u
      BY <2>1, <2>3 DEF TowardsConfirmation
    <3>2. u \in CrossType /\ u.known = c.known /\ u.side = c.side /\ u.signal = 0
      BY <2>2 DEF CrossType, Sides
    <3> HIDE DEF u
    <3> QED BY <1>4, <3>1, <3>2
  <2>4. CASE ~(n < Confirm)
    <3> DEFINE u == [FreshCross EXCEPT !.known = TRUE, !.side = raw, !.signal = raw]
    <3>1. Update(c, raw) = u
      BY <2>1, <2>4 DEF TowardsConfirmation
    <3>2. u \in CrossType /\ u.known /\ u.side = raw /\ u.signal = raw
      BY DEF CrossType, Sides, FreshCross
    <3> HIDE DEF u
    <3> QED BY <1>4, <3>1, <3>2
  <2> QED BY <2>3, <2>4
<1> QED BY <1>2, <1>3, <1>4

\* A candle through the strategy.
LEMMA CandleIs ==
  ASSUME cross \in CrossType, cross.known => cross.side \in observed, NEW raw \in Sides,
         OnCandle(raw, observed)
  PROVE  /\ cross' \in CrossType /\ (cross'.known => cross'.side \in observed')
         /\ cross'.signal = 0 /\ cross.known => cross'.known /\ cross'.side = cross.side
         /\ cross'.signal # 0 => /\ cross'.known /\ cross'.side = cross'.signal
                                 /\ cross.known /\ cross.side \in observed /\ cross'.signal # cross.side
<1>1. CASE emaCount' < Slow
  <2>1. cross' = [cross EXCEPT !.signal = 0] /\ observed' = observed
    BY <1>1 DEF OnCandle
  <2> QED BY <2>1 DEF CrossType, Sides
<1>2. CASE ~(emaCount' < Slow)
  <2>1. cross' = Update(cross, raw) /\ observed' = observed \cup {raw}
    BY <1>2 DEF OnCandle
  <2> DEFINE u == Update(cross, raw)
  <2>2. /\ u \in CrossType /\ u.known /\ u.side = IF cross.known /\ u.signal = 0 THEN cross.side ELSE raw
        /\ u.signal # 0 => cross.known /\ raw # cross.side /\ u.signal = raw
    BY UpdateIs
  <2> HIDE DEF u
  <2>3. cross' = u
    BY <2>1 DEF u
  <2> QED BY <2>1, <2>2, <2>3
<1> QED BY <1>1, <1>2

LEMMA LiveInitInv == WarmUpInit => LiveInv
<1> SUFFICES ASSUME WarmUpInit PROVE LiveInv
  OBVIOUS
<1>1. clock \in Int
  <2>1. PICK m \in Boots : clock = Today * DayLength + m
    BY DEF WarmUpInit
  <2>2. m \in Int /\ Today * DayLength \in Int
    BY WarmUpAssumption
  <2> QED BY <2>1, <2>2
<1>2. tickAt = clock /\ bar = NoBar /\ fed = NoFed /\ cross = FreshCross /\ signalled = 0
  BY DEF WarmUpInit
<1>3. BarInv /\ FedBarsHaveNoHole
  BY <1>1, <1>2 DEF BarInv, FedBarsHaveNoHole
<1>4. FreshCross \in CrossType /\ ~FreshCross.known
  BY DEF FreshCross, CrossType, Sides
<1>5. CrossInv
  BY <1>2, <1>4 DEF CrossInv
<1> QED BY <1>3, <1>5 DEF LiveInv

\* What a step that touches no live candle does to the strategy.
Prepares ==
  /\ UNCHANGED <<live, signalled>>
  /\ at' \notin {"live", "over"} => at \notin {"live", "over"}
  /\ \/ UNCHANGED <<cross, observed>>
     \/ at \notin {"live", "over"} /\ \E raw \in Sides : OnCandle(raw, observed)
     \/ at \notin {"live", "over"} /\ cross' = FreshCross /\ observed' = {}

LEMMA WarmUpStepPrepares == WarmUpStep \/ TimePasses \/ UNCHANGED warmUpVars => Prepares
<1>1. BeginWarmUp => Prepares
  BY DEF BeginWarmUp, Prepares, live, strategy, past
<1>2. FetchFails => Prepares
  BY DEF FetchFails, Prepares, live, strategy, past
<1>3. FetchAnswers => Prepares
  BY DEF FetchAnswers, Prepares, live, strategy, past
<1>4. ProviderAnswers => Prepares
  BY DEF ProviderAnswers, Prepares, live, strategy, past
<1>5. ReplayCandle => Prepares
  BY DEF ReplayCandle, Prepares, live, strategy, past
<1>6. ReplayRaises => Prepares
  BY DEF ReplayRaises, Prepares, live, strategy, past
<1>7. ReplayEnds => Prepares
  BY DEF ReplayEnds, Prepares, live, strategy, past
<1>8. WarmUpComplete => Prepares
  BY DEF WarmUpComplete, ContextKept, Prepares, live, strategy, past
<1>9. TimePasses => Prepares
  BY DEF TimePasses, Prepares, live, strategy, past, engine
<1>10. UNCHANGED warmUpVars => Prepares
  BY DEF warmUpVars, Prepares, live, strategy, past, engine
<1> QED BY <1>1, <1>2, <1>3, <1>4, <1>5, <1>6, <1>7, <1>8, <1>9, <1>10 DEF WarmUpStep

LEMMA PreparingKeeps == LiveInv /\ Prepares => LiveInv'
<1> SUFFICES ASSUME LiveInv, Prepares PROVE LiveInv'
  OBVIOUS
<1>1. UNCHANGED <<tickAt, bar, fed, signalled>>
  BY DEF Prepares, live
<1>2. BarInv' /\ FedBarsHaveNoHole'
  BY <1>1 DEF LiveInv, BarInv, FedBarsHaveNoHole
<1>3. at' \notin {"live", "over"} => signalled' = 0
  BY <1>1 DEF LiveInv, CrossInv, Prepares
<1>4. CASE UNCHANGED <<cross, observed>>
  BY <1>1, <1>2, <1>3, <1>4 DEF LiveInv, CrossInv
<1>5. CASE at \notin {"live", "over"} /\ \E raw \in Sides : OnCandle(raw, observed)
  <2>1. cross' \in CrossType /\ (cross'.known => cross'.side \in observed')
    BY <1>5, CandleIs DEF LiveInv, CrossInv
  <2>2. signalled' = 0
    BY <1>1, <1>5 DEF LiveInv, CrossInv
  <2> QED BY <1>2, <2>1, <2>2 DEF LiveInv, CrossInv
<1>6. CASE at \notin {"live", "over"} /\ cross' = FreshCross /\ observed' = {}
  <2>1. FreshCross \in CrossType /\ ~FreshCross.known
    BY DEF FreshCross, CrossType, Sides
  <2>2. signalled' = 0
    BY <1>1, <1>6 DEF LiveInv, CrossInv
  <2> QED BY <1>2, <1>6, <2>1, <2>2 DEF LiveInv, CrossInv
<1> QED BY <1>4, <1>5, <1>6 DEF Prepares

LEMMA NewBarIsSound ==
  ASSUME NEW t \in Int
  PROVE  NewBar(t).start \in Int /\ NewBar(t).last \in Int /\ Bucket(NewBar(t).start)
         /\ FloorToInterval(NewBar(t).last) <= NewBar(t).start
BY FloorIsBucket DEF NewBar

LEMMA AbsorbingKeeps ==
  ASSUME LiveInv, NEW t \in Int, tickAt' = t, Absorbs(t), at' = "live"
  PROVE  LiveInv'
<1>1. UNCHANGED <<fed, cross, observed, signalled>>
  BY DEF Absorbs, strategy
<1>2. BarInv'
  <2>1. CASE bar = NoBar
    <3>1. bar' = NewBar(t)
      BY <2>1 DEF Absorbs
    <3> QED BY <3>1, NewBarIsSound DEF BarInv
  <2>2. CASE bar # NoBar
    <3>1. bar' = [bar EXCEPT !.last = t]
      BY <2>2 DEF Absorbs
    <3>2. FloorToInterval(t) <= bar.start
      BY <2>2, FloorIsBucket DEF Absorbs, RollsOver, LiveInv, BarInv
    <3>3. bar'.start = bar.start /\ bar'.last = t
      BY <3>1 DEF LiveInv, BarInv
    <3> QED BY <2>2, <3>2, <3>3 DEF LiveInv, BarInv
  <2> QED BY <2>1, <2>2
<1>3. FedBarsHaveNoHole'
  BY <1>1 DEF LiveInv, FedBarsHaveNoHole
<1>4. CrossInv'
  <2>1. cross' \in CrossType /\ (cross'.known => cross'.side \in observed')
        /\ (signalled' # 0 => cross'.known /\ cross'.side = signalled')
    BY <1>1 DEF LiveInv, CrossInv
  <2> QED BY <2>1 DEF CrossInv
<1> QED BY <1>2, <1>3, <1>4 DEF LiveInv

\* A bar that closes without a hole was closed from the next bucket.
LEMMA ClosingKeeps ==
  ASSUME LiveInv, NEW t \in Int, tickAt' = t, Closes(t), at' = "live"
  PROVE  LiveInv'
<1>1. bar # NoBar /\ FloorToInterval(t) > bar.start /\ bar' = NewBar(t)
  BY DEF Closes, RollsOver
<1>2. BarInv'
  BY <1>1, NewBarIsSound DEF BarInv
<1>3. CASE SpansGap(t)
  <2>1. UNCHANGED <<fed, cross, observed, signalled>>
    BY <1>3 DEF Closes, strategy
  <2>2. FedBarsHaveNoHole'
    BY <2>1 DEF LiveInv, FedBarsHaveNoHole
  <2>3. cross' \in CrossType /\ (cross'.known => cross'.side \in observed')
        /\ (signalled' # 0 => cross'.known /\ cross'.side = signalled')
    BY <2>1 DEF LiveInv, CrossInv
  <2>4. CrossInv'
    BY <2>3 DEF CrossInv
  <2> QED BY <1>2, <2>2, <2>4 DEF LiveInv
<1>4. CASE ~SpansGap(t)
  <2>1. fed' = [start |-> bar.start, closedBy |-> FloorToInterval(t)]
        /\ signalled' = IF cross'.signal = 0 THEN signalled ELSE cross'.signal
    BY <1>4 DEF Closes
  <2>2. PICK raw \in Sides : OnCandle(raw, observed)
    BY <1>4 DEF Closes
  <2>3. FloorToInterval(t) = bar.start + Interval
    <3> DEFINE reached == FloorToInterval(t)
               leaving == FloorToInterval(bar.last)
               s == bar.start
    <3>1. reached \in Int /\ Bucket(reached)
      BY FloorIsBucket
    <3>2. s \in Int /\ Bucket(s) /\ bar.last \in Int /\ leaving <= s
      BY <1>1 DEF LiveInv, BarInv
    <3>3. leaving \in Int
      BY <3>2, FloorIsBucket
    <3>4. reached > s
      BY <1>1
    <3>5. ~(reached - leaving > Interval)
      BY <1>4 DEF SpansGap, Gapped
    <3> HIDE DEF reached, leaving, s
    <3>6. s + Interval <= reached
      BY <3>1, <3>2, <3>4, NextBucket
    <3>7. reached = s + Interval
      BY <3>1, <3>2, <3>3, <3>5, <3>6, IntervalIsPositive
    <3> QED BY <3>7 DEF reached, s
  <2>4. FedBarsHaveNoHole'
    BY <2>1, <2>3 DEF FedBarsHaveNoHole
  <2>5. /\ cross' \in CrossType /\ (cross'.known => cross'.side \in observed')
        /\ cross'.signal = 0 /\ cross.known => cross'.known /\ cross'.side = cross.side
        /\ cross'.signal # 0 => cross'.known /\ cross'.side = cross'.signal
    BY <2>2, CandleIs DEF LiveInv, CrossInv
  <2>6. signalled # 0 => cross.known /\ cross.side = signalled
    BY DEF LiveInv, CrossInv
  <2>7. signalled' # 0 => cross'.known /\ cross'.side = signalled'
    BY <2>1, <2>5, <2>6
  <2>8. CrossInv'
    BY <2>5, <2>7 DEF CrossInv
  <2> QED BY <1>2, <2>4, <2>8 DEF LiveInv
<1> QED BY <1>3, <1>4

LEMMA TickingKeeps == LiveInv /\ UnderlyingTick => LiveInv'
<1> SUFFICES ASSUME LiveInv, UnderlyingTick PROVE LiveInv'
  OBVIOUS
<1>1. PICK t \in tickAt - Interval .. Max(Times) :
        /\ tickAt' = t
        /\ IF ClockOf(t) >= SquareOffAt
             THEN at' = "over" /\ UNCHANGED <<bar, fed, strategy, observed, signalled, entered>>
             ELSE /\ UNCHANGED at
                  /\ IF IsOpen(t) THEN Absorbs(t) \/ Closes(t)
                                  ELSE UNCHANGED <<bar, fed, strategy, observed, signalled, entered>>
  BY DEF UnderlyingTick
<1>2. t \in Int /\ at = "live"
  BY DEF UnderlyingTick
<1>3. ASSUME UNCHANGED <<bar, fed, strategy, observed, signalled, entered>>, at' \in {"live", "over"}
      PROVE  LiveInv'
  <2>1. UNCHANGED <<bar, fed, cross, observed, signalled>>
    BY <1>3 DEF strategy
  <2>2. BarInv' /\ FedBarsHaveNoHole'
    BY <1>1, <1>2, <2>1 DEF LiveInv, BarInv, FedBarsHaveNoHole
  <2>3. cross' \in CrossType /\ (cross'.known => cross'.side \in observed')
        /\ (signalled' # 0 => cross'.known /\ cross'.side = signalled')
    BY <2>1 DEF LiveInv, CrossInv
  <2>4. CrossInv'
    BY <1>3, <2>3 DEF CrossInv
  <2> QED BY <2>2, <2>4 DEF LiveInv
<1>4. CASE ClockOf(t) >= SquareOffAt
  BY <1>1, <1>3, <1>4
<1>5. CASE ~(ClockOf(t) >= SquareOffAt) /\ ~IsOpen(t)
  BY <1>1, <1>2, <1>3, <1>5
<1>6. CASE ~(ClockOf(t) >= SquareOffAt) /\ IsOpen(t)
  <2>1. at' = "live" /\ (Absorbs(t) \/ Closes(t))
    BY <1>1, <1>2, <1>6
  <2> QED BY <1>1, <1>2, <2>1, AbsorbingKeeps, ClosingKeeps
<1> QED BY <1>4, <1>5, <1>6

LEMMA LiveInvHolds == WarmUpSpec => []LiveInv
<1>1. LiveInv /\ [WarmUpNext]_warmUpVars => LiveInv'
  BY WarmUpStepPrepares, PreparingKeeps, TickingKeeps DEF WarmUpNext
<1> QED BY LiveInitInv, <1>1, PTL DEF WarmUpSpec

(* A live bar that the strategy is given was closed from the next bucket, so *)
(* that no hole of the feed reaches the indicators, late ticks or not.       *)
THEOREM FedBarsHaveNoHoleHolds == WarmUpSpec => []FedBarsHaveNoHole
<1>1. LiveInv => FedBarsHaveNoHole
  BY DEF LiveInv
<1> QED BY <1>1, LiveInvHolds, PTL

(* A live signal is for a crossover that the process has seen happen, and is *)
(* the opposite of the one before.                                           *)
THEOREM SignalsAreFreshHolds == WarmUpSpec => SignalsAreFresh
<1> DEFINE News == Signals => observed \ {cross'.signal} # {} /\ cross'.signal # signalled
<1>1. LiveInv /\ [WarmUpNext]_warmUpVars => News
  <2> SUFFICES ASSUME LiveInv, [WarmUpNext]_warmUpVars, fed' # fed, cross'.signal # 0
               PROVE  observed \ {cross'.signal} # {} /\ cross'.signal # signalled
    BY DEF Signals
  <2>1. UnderlyingTick
    BY WarmUpStepPrepares DEF WarmUpNext, Prepares, live
  <2>2. \E t : Closes(t) /\ ~SpansGap(t)
    BY <2>1 DEF UnderlyingTick, Absorbs, Closes
  <2>3. PICK raw \in Sides : OnCandle(raw, observed)
    BY <2>2 DEF Closes
  <2>4. cross.known /\ cross.side \in observed /\ cross'.signal # cross.side
    BY <2>3, CandleIs DEF LiveInv, CrossInv
  <2>5. signalled # 0 => cross.side = signalled
    BY DEF LiveInv, CrossInv
  <2> QED BY <2>4, <2>5
<1>2. (News => (Signals => observed \ {cross'.signal} # {})) /\ (News => (Signals => cross'.signal # signalled))
  OBVIOUS
<1> HIDE DEF News
<1> QED BY <1>1, <1>2, LiveInvHolds, PTL
     DEF WarmUpSpec, SignalsAreFresh, OnlyFreshCrossovers, SignalsAlternate

-----------------------------------------------------------------------------
(* The warm-up itself: what is trusted, believed and let through.            *)

\* Hypotheses on the calendar: a session holds a whole bucket, and as many
\* trading days as may be looked back to come before today.
CalendarReaches ==
  BucketOffsets # {} /\ Cardinality(PriorDays(Today)) >= MaxLookback

-----------------------------------------------------------------------------
(* Counting from the newest.                                                 *)
LEMMA AboveAndBelow ==
  ASSUME NEW S \in SUBSET Int, IsFiniteSet(S), NEW b \in S
  PROVE  /\ Cardinality({c \in S : c > b}) = Rank(S, b) - 1
         /\ Cardinality({c \in S : c < b}) = Cardinality(S) - Rank(S, b)
<1> DEFINE A == {c \in S : c >= b}
<1>0. b \in Int /\ \A c \in S : c \in Int
  OBVIOUS
<1>1. IsFiniteSet(A) /\ b \in A /\ Rank(S, b) = Cardinality(A) /\ A \subseteq S
  BY <1>0, FS_Subset DEF Rank
<1>2. {c \in S : c > b} = A \ {b}
  <2> SUFFICES ASSUME NEW c \in S PROVE c > b <=> c >= b /\ c # b
    OBVIOUS
  <2> QED BY <1>0
<1>3. {c \in S : c < b} = S \ A
  <2> SUFFICES ASSUME NEW c \in S PROVE c < b <=> ~(c >= b)
    OBVIOUS
  <2> QED BY <1>0
<1> HIDE DEF A
<1>4. Cardinality(A \ {b}) = Cardinality(A) - 1
  BY <1>1, FS_RemoveElement
<1>5. Cardinality(S \ A) = Cardinality(S) - Cardinality(A)
  <2>1. S \cap A = A
    BY <1>1
  <2>2. Cardinality(S \ A) = Cardinality(S) - Cardinality(S \cap A)
    BY FS_Difference
  <2> QED BY <2>1, <2>2
<1> QED BY <1>1, <1>2, <1>3, <1>4, <1>5

\* The n newest are those from the n-th on, and are n.
LEMMA NewestIsATail ==
  ASSUME NEW S \in SUBSET Int, IsFiniteSet(S), NEW n \in Nat, 1 <= n, n <= Cardinality(S)
  PROVE  /\ Cardinality(Newest(n, S)) = n
         /\ \E e \in S : Newest(n, S) = {b \in S : b >= e}
<1>1. PICK e \in S : Rank(S, e) = n
  BY RankExists
<1>0. e \in Int /\ \A c \in S : c \in Int
  OBVIOUS
<1>2. ASSUME NEW b \in S PROVE Cardinality({c \in S : c > b}) < n <=> b >= e
  <2>1. Cardinality({c \in S : c > b}) = Rank(S, b) - 1 /\ Rank(S, b) \in Nat /\ b \in Int
    BY AboveAndBelow, RankIsStrict
  <2>2. CASE b >= e
    <3>1. Rank(S, b) <= n
      BY <1>0, <1>1, <2>1, <2>2, RankIsStrict
    <3> QED BY <2>1, <2>2, <3>1
  <2>3. CASE b < e
    <3>1. Rank(S, b) > n
      BY <1>0, <1>1, <2>1, <2>3, RankIsStrict
    <3> QED BY <1>0, <2>1, <2>3, <3>1
  <2> QED BY <1>0, <2>1, <2>2, <2>3
<1>3. Newest(n, S) = {b \in S : b >= e}
  BY <1>2 DEF Newest
<1> QED BY <1>1, <1>3 DEF Rank

\* What is asked of the older half does not matter while the newer has enough.
LEMMA NewestOfATail ==
  ASSUME NEW S \in SUBSET Int, IsFiniteSet(S), NEW T \in SUBSET S, NEW n \in Nat,
         n <= Cardinality(T),
         \A b \in T, c \in S : c >= b => c \in T
  PROVE  Newest(n, T) = Newest(n, S)
<1>0. \A c \in S : c \in Int
  OBVIOUS
<1>1. ASSUME NEW b \in T PROVE {c \in S : c > b} = {c \in T : c > b}
  <2> SUFFICES ASSUME NEW c \in S, c > b PROVE c \in T
    OBVIOUS
  <2> QED BY <1>0
<1>2. ASSUME NEW b \in S, b \notin T PROVE ~(Cardinality({c \in S : c > b}) < n)
  <2>1. T \subseteq {c \in S : c > b}
    <3> SUFFICES ASSUME NEW c \in T PROVE c > b
      OBVIOUS
    <3>1. ~(b >= c)
      BY <1>2
    <3> QED BY <1>0, <3>1
  <2> DEFINE A == {c \in S : c > b}
  <2>2. IsFiniteSet(A)
    BY FS_Subset
  <2>3. Cardinality(T) <= Cardinality(A) /\ Cardinality(A) \in Nat /\ Cardinality(T) \in Nat
    BY <2>1, <2>2, FS_Subset, FS_CardinalityType
  <2> QED BY <2>3
<1> QED BY <1>1, <1>2 DEF Newest

LEMMA NumbersInSeq ==
  ASSUME NEW S \in SUBSET Int, NEW h \in Seq(S)
  PROVE  h \in Seq(Int) /\ Len(h) \in Nat
<1>1. Len(h) \in Nat /\ h = [i \in 1 .. Len(h) |-> h[i]] /\ \A i \in 1 .. Len(h) : h[i] \in S
  OBVIOUS
<1>2. \A i \in 1 .. Len(h) : h[i] \in Int
  BY <1>1
<1>3. h \in [1 .. Len(h) -> Int]
  BY <1>1, <1>2
<1> QED BY <1>1, <1>3

\* InOrder lists a set, each member once, the oldest first.
LEMMA InOrderIs ==
  ASSUME NEW S \in SUBSET Int, IsFiniteSet(S)
  PROVE  LET s == InOrder(S) IN
         /\ s \in Seq(S) /\ Len(s) = Cardinality(S)
         /\ \A i \in 1 .. Len(s) : Rank(S, s[i]) = Len(s) - i + 1
         /\ \A b \in S : \E i \in 1 .. Len(s) : s[i] = b
<1> DEFINE n == Cardinality(S)
           s == InOrder(S)
<1>1. n \in Nat
  BY FS_CardinalityType
<1>2. ASSUME NEW i \in 1 .. n PROVE s[i] \in S /\ Rank(S, s[i]) = n - i + 1
  <2> DEFINE At(b) == Cardinality({c \in S : c < b}) = i - 1
  <2>1. s[i] = CHOOSE b \in S : At(b)
    BY DEF InOrder
  <2>2. PICK e \in S : Rank(S, e) = n - i + 1
    <3>1. n - i + 1 \in Nat /\ 1 <= n - i + 1 /\ n - i + 1 <= n
      BY <1>1, <1>2
    <3> QED BY <3>1, RankExists
  <2>3. At(e)
    <3>1. Cardinality({c \in S : c < e}) = n - Rank(S, e)
      BY AboveAndBelow
    <3> QED BY <1>1, <2>2, <3>1
  <2>4. \A b \in S : At(b) => Rank(S, b) = n - i + 1
    <3> SUFFICES ASSUME NEW b \in S, At(b) PROVE Rank(S, b) = n - i + 1
      OBVIOUS
    <3>1. Cardinality({c \in S : c < b}) = n - Rank(S, b) /\ Rank(S, b) \in Nat
      BY AboveAndBelow, RankIsStrict
    <3> QED BY <1>1, <3>1
  <2> HIDE DEF At, s, n
  <2>5. s[i] \in S /\ At(s[i])
    BY <2>1, <2>3
  <2> QED BY <2>4, <2>5
<1>3. s = [i \in 1 .. n |-> s[i]] /\ DOMAIN s = 1 .. n
  <2> DEFINE member(i) == CHOOSE b \in S : Cardinality({c \in S : c < b}) = i - 1
  <2>1. s = [i \in 1 .. n |-> member(i)]
    BY DEF InOrder
  <2> HIDE DEF member, s, n
  <2> QED BY <2>1
<1> HIDE DEF s, n
<1>4. s \in Seq(S) /\ Len(s) = n
  <2>1. s \in [1 .. n -> S]
    BY <1>2, <1>3
  <2> QED BY <1>1, <1>3, <2>1
<1>5. ASSUME NEW b \in S PROVE \E i \in 1 .. n : s[i] = b
  <2>1. Rank(S, b) \in Nat /\ Rank(S, b) >= 1 /\ Rank(S, b) <= n
    <3> DEFINE A == {c \in S : c >= b}
    <3>1. A \in SUBSET S /\ Rank(S, b) = Cardinality(A)
      BY DEF Rank
    <3> HIDE DEF A
    <3>2. Cardinality(A) <= n
      BY <3>1, FS_Subset DEF n
    <3>3. b \in Int
      OBVIOUS
    <3> QED BY <3>1, <3>2, <3>3, RankIsStrict
  <2> DEFINE i == n - Rank(S, b) + 1
  <2>2. i \in 1 .. n /\ n - i + 1 = Rank(S, b)
    BY <1>1, <2>1
  <2> HIDE DEF i
  <2>3. s[i] \in S /\ Rank(S, s[i]) = Rank(S, b)
    BY <1>2, <2>2
  <2>4. s[i] = b
    <3> DEFINE x == s[i]
    <3> HIDE DEF x
    <3>1. x \in S /\ Rank(S, x) = Rank(S, b)
      BY <2>3 DEF x
    <3>2. x = b
      BY <3>1, RankIsUnique, Zenon
    <3> QED BY <3>2 DEF x
  <2> QED BY <2>2, <2>4
<1> QED BY <1>2, <1>4, <1>5 DEF s, n

\* A listed set rises.
LEMMA InOrderRises ==
  ASSUME NEW S \in SUBSET Int, IsFiniteSet(S)
  PROVE  LET s == InOrder(S) IN
         \A i, j \in 1 .. Len(s) : i < j => s[i] < s[j]
<1> DEFINE s == InOrder(S)
<1> SUFFICES ASSUME NEW i \in 1 .. Len(s), NEW j \in 1 .. Len(s), i < j PROVE s[i] < s[j]
  OBVIOUS
<1>1. Len(s) \in Nat /\ s[i] \in S /\ s[j] \in S
      /\ Rank(S, s[i]) = Len(s) - i + 1 /\ Rank(S, s[j]) = Len(s) - j + 1
  BY InOrderIs
<1> HIDE DEF s
<1>2. s[i] \in Int /\ s[j] \in Int
  BY <1>1
<1>3. Rank(S, s[j]) < Rank(S, s[i])
  BY <1>1
<1>4. s[i] # s[j]
  BY <1>1, <1>3
<1>5. ~(s[j] < s[i])
  <2> SUFFICES ASSUME s[j] < s[i] PROVE FALSE
    OBVIOUS
  <2>1. Rank(S, s[i]) < Rank(S, s[j])
    BY <1>1, <1>2, RankIsStrict
  <2> QED BY <1>1, <2>1
<1> QED BY <1>2, <1>4, <1>5

\* A rising sequence that ends with the members of a set ends with the set in order.
LEMMA EndsInOrder ==
  ASSUME NEW h \in Seq(Int), \A i, j \in 1 .. Len(h) : i < j => h[i] < h[j],
         NEW E \in SUBSET Int, IsFiniteSet(E), NEW e \in E, \A b \in E : b >= e,
         \A b \in E : \E i \in 1 .. Len(h) : h[i] = b,
         \A i \in 1 .. Len(h) : h[i] >= e => h[i] \in E
  PROVE  /\ Cardinality(E) <= Len(h)
         /\ SubSeq(h, Len(h) - Cardinality(E) + 1, Len(h)) = InOrder(E)
<1> DEFINE m == Len(h)
           n == Cardinality(E)
           s == InOrder(E)
<1>1. m \in Nat /\ n \in Nat /\ n >= 1
  BY FS_CardinalityType, FS_EmptySet
<1>2. s \in Seq(E) /\ Len(s) = n
  BY InOrderIs
<1>0. \A b \in E : b \in Int
  OBVIOUS
<1>3. ASSUME NEW i \in 1 .. n PROVE m - n + i \in 1 .. m /\ h[m - n + i] = s[i]
  <2>1. s[i] \in E /\ Rank(E, s[i]) = n - i + 1
    BY InOrderIs
  <2>2. PICK q \in 1 .. m : h[q] = s[i]
    BY <2>1
  <2> DEFINE A == {c \in E : c >= h[q]}
             f == [j \in q .. m |-> h[j]]
  <2>3. q \in Int /\ h[q] \in Int /\ h[q] \in E
    BY <1>1, <2>1, <2>2
  <2>4. ASSUME NEW j \in q .. m PROVE h[j] \in A
    <3>1. j \in 1 .. m /\ h[j] \in Int
      BY <1>1, <2>2
    <3>2. h[j] >= h[q]
      <4>1. j \in Int /\ (j = q \/ q < j)
        BY <1>1, <2>3
      <4>2. q < j => h[q] < h[j]
        BY <3>1
      <4> QED BY <2>3, <3>1, <4>1, <4>2
    <3>3. h[q] >= e /\ e \in Int
      BY <2>3
    <3>4. h[j] >= e
      BY <2>3, <3>1, <3>2, <3>3
    <3> QED BY <3>1, <3>2, <3>4
  <2>5. ASSUME NEW c \in A PROVE \E j \in q .. m : h[j] = c
    <3>1. PICK j \in 1 .. m : h[j] = c
      OBVIOUS
    <3>2. ~(j < q)
      <4> SUFFICES ASSUME j < q PROVE FALSE
        OBVIOUS
      <4>1. h[j] < h[q] /\ h[j] >= h[q] /\ h[j] \in Int
        BY <2>2, <3>1
      <4> QED BY <2>3, <4>1
    <3> QED BY <1>1, <2>2, <3>1, <3>2
  <2>6. ASSUME NEW j \in q .. m, NEW k \in q .. m, h[j] = h[k] PROVE j = k
    <3>1. j \in 1 .. m /\ k \in 1 .. m /\ h[j] \in Int
      BY <1>1, <2>2
    <3>2. ~(j < k) /\ ~(k < j)
      BY <2>6, <3>1
    <3> QED BY <3>1, <3>2
  <2>7. ExistsBijection(q .. m, A)
    <3>1. f \in [q .. m -> A]
      BY <2>4
    <3>3. \A j \in q .. m : f[j] = h[j]
      OBVIOUS
    <3> HIDE DEF f, A
    <3>4. f \in Injection(q .. m, A)
      BY <3>1, <3>3, <2>6 DEF Injection, IsInjective
    <3>5. f \in Surjection(q .. m, A)
      BY <3>1, <3>3, <2>5 DEF Surjection
    <3>2. f \in Bijection(q .. m, A)
      BY <3>4, <3>5 DEF Bijection
    <3> QED BY <3>2 DEF ExistsBijection
  <2>8. IsFiniteSet(q .. m) /\ Cardinality(q .. m) = m - q + 1
    BY <1>1, <2>2, FS_Interval
  <2>9. Rank(E, h[q]) = Cardinality(A)
    BY DEF Rank
  <2> HIDE DEF A
  <2>10. Cardinality(A) = m - q + 1
    BY <2>7, <2>8, FS_Bijection
  <2>11. m - q + 1 = n - i + 1
    BY <2>1, <2>2, <2>9, <2>10
  <2>12. q = m - n + i
    <3>1. i \in Int
      OBVIOUS
    <3> HIDE DEF m, n
    <3> QED BY <1>1, <2>3, <2>11, <3>1
  <2> QED BY <2>2, <2>12
<1>4. n <= m
  <2>1. m - n + 1 \in 1 .. m
    BY <1>1, <1>3
  <2> QED BY <1>1, <2>1
<1> DEFINE r == SubSeq(h, m - n + 1, m)
<1>5. /\ r \in Seq(Int) /\ Len(r) = n
      /\ \A i \in 1 .. n : r[i] = h[m - n + i]
  <2>1. \A i \in m - n + 1 .. m : h[i] \in Int
    BY <1>1, <1>4
  <2>2. m - n + 1 \in Int /\ m \in Int /\ m - n + 1 <= m /\ m - (m - n + 1) + 1 = n
    BY <1>1
  <2>3. /\ r \in Seq(Int) /\ Len(r) = m - (m - n + 1) + 1
        /\ \A i \in 1 .. m - (m - n + 1) + 1 : r[i] = h[m - n + 1 + i - 1]
    BY <2>1, <2>2, SubSeqProperties
  <2> HIDE DEF r, m, n
  <2>4. \A i \in 1 .. n : m - n + 1 + i - 1 = m - n + i
    BY <1>1
  <2> QED BY <2>2, <2>3, <2>4
<1> HIDE DEF r, s, m, n
<1>6. r = s
  <2>1. r \in [1 .. n -> Int] /\ s \in [1 .. n -> E]
    BY <1>1, <1>2, <1>5
  <2>2. \A i \in 1 .. n : r[i] = s[i]
    BY <1>3, <1>5
  <2>3. r = [i \in 1 .. n |-> r[i]] /\ s = [i \in 1 .. n |-> s[i]]
    BY <2>1
  <2> QED BY <2>2, <2>3
<1> QED BY <1>4, <1>6 DEF r, s, m, n

-----------------------------------------------------------------------------
(* The calendar.                                                             *)
LEMMA CalendarTypes ==
  /\ Interval \in Nat /\ Interval > 0 /\ DayLength \in Nat /\ DayLength > 0
  /\ SessionStart \in Nat /\ SquareOffAt \in Nat /\ SquareOffAt < DayLength /\ SessionStart <= SquareOffAt
  /\ Today \in Nat /\ Today \in TradingDays /\ TradingDays \subseteq Nat
  /\ DayLength % Interval = 0
BY WarmUpAssumption

\* A minute is one minute of one day.
LEMMA DayAndClock ==
  ASSUME NEW b \in Int
  PROVE  /\ DayOf(b) \in Int /\ ClockOf(b) \in Nat /\ ClockOf(b) < DayLength
         /\ b = DayOf(b) * DayLength + ClockOf(b)
<1>1. b = DayLength * (b \div DayLength) + (b % DayLength)
      /\ b % DayLength < DayLength /\ b % DayLength >= 0 /\ b \div DayLength \in Int /\ b % DayLength \in Int
  BY CalendarTypes, FloorDivision
<1> QED BY <1>1, CalendarTypes DEF DayOf, ClockOf

\* A later day is at least a whole day later.
LEMMA DaysAreApart ==
  ASSUME NEW d \in Int, NEW e \in Int, d < e
  PROVE  d * DayLength \in Int /\ e * DayLength \in Int /\ d * DayLength + DayLength <= e * DayLength
<1>1. e * DayLength = d * DayLength + DayLength + (e - d - 1) * DayLength
  BY CalendarTypes
<1>2. e - d - 1 \in Nat /\ (e - d - 1) * DayLength \in Int /\ (e - d - 1) * DayLength >= 0
  BY CalendarTypes
<1>3. d * DayLength \in Int /\ e * DayLength \in Int
  BY CalendarTypes
<1> QED BY <1>1, <1>2, <1>3, CalendarTypes

LEMMA OfThatDay ==
  ASSUME NEW d \in Int, NEW o \in Nat, o < DayLength
  PROVE  d * DayLength + o \in Int /\ DayOf(d * DayLength + o) = d /\ ClockOf(d * DayLength + o) = o
<1> DEFINE b == d * DayLength + o
           e == DayOf(b)
           c == ClockOf(b)
           x == d * DayLength
           y == e * DayLength
<1>1. b \in Int /\ x \in Int
  BY CalendarTypes
<1>2. e \in Int /\ c \in Nat /\ c < DayLength /\ b = y + c
  BY <1>1, DayAndClock
<1>3. y \in Int /\ b = x + o
  BY <1>2, CalendarTypes
<1>4. d < e => x + DayLength <= y
  BY <1>2, DaysAreApart
<1>5. e < d => y + DayLength <= x
  BY <1>2, DaysAreApart
<1> HIDE DEF x, y, c, b
<1>6. DayLength \in Nat
  BY CalendarTypes
<1>7. ~(d < e) /\ ~(e < d)
  BY <1>2, <1>3, <1>4, <1>5, <1>6, <1>1
<1>8. d = e
  BY <1>2, <1>7
<1>9. x = y
  BY <1>8 DEF x, y
<1>10. c = o
  BY <1>1, <1>2, <1>3, <1>9
<1> QED BY <1>1, <1>8, <1>10 DEF b, c

\* Days come in the order of their minutes.
LEMMA DaysRise ==
  ASSUME NEW b \in Int, NEW c \in Int
  PROVE  /\ b <= c => DayOf(b) <= DayOf(c)
         /\ DayOf(b) = DayOf(c) => ClockOf(c) - ClockOf(b) = c - b
<1> DEFINE x == DayOf(b) * DayLength
           y == DayOf(c) * DayLength
<1>1. /\ DayOf(b) \in Int /\ ClockOf(b) \in Nat /\ ClockOf(b) < DayLength /\ b = x + ClockOf(b)
      /\ DayOf(c) \in Int /\ ClockOf(c) \in Nat /\ ClockOf(c) < DayLength /\ c = y + ClockOf(c)
  BY DayAndClock
<1>2. x \in Int /\ y \in Int /\ DayLength \in Nat
  BY <1>1, CalendarTypes
<1>3. DayOf(c) < DayOf(b) => y + DayLength <= x
  BY <1>1, DaysAreApart
<1>4. DayOf(b) = DayOf(c) => x = y
  OBVIOUS
<1> HIDE DEF x, y
<1> QED BY <1>1, <1>2, <1>3, <1>4

\* Buckets are the multiples of the interval.
LEMMA Buckets ==
  /\ \A b \in Int : Bucket(b) <=> b % Interval = 0
  /\ \A a, b \in Int : Bucket(a) /\ Bucket(b) => Bucket(a + b) /\ Bucket(a - b)
  /\ \A d \in Int : Bucket(d * DayLength)
  /\ Bucket(Interval)
<1>1. ASSUME NEW b \in Int PROVE Bucket(b) <=> b % Interval = 0
  <2>1. b = Interval * (b \div Interval) + (b % Interval) /\ b \div Interval \in Int
        /\ b % Interval < Interval /\ b % Interval >= 0 /\ b % Interval \in Int
    BY CalendarTypes, FloorDivision
  <2>2. ASSUME b % Interval = 0 PROVE Bucket(b)
    <3> DEFINE k == b \div Interval
    <3>1. k \in Int /\ b = Interval * k
      BY <2>1, <2>2, CalendarTypes
    <3> HIDE DEF k
    <3>2. b = k * Interval
      BY <3>1, CalendarTypes
    <3> QED BY <3>1, <3>2 DEF Bucket
  <2>3. ASSUME Bucket(b) PROVE b % Interval = 0
    <3> DEFINE q == Interval * (b \div Interval)
    <3>1. q \in Int /\ Bucket(q)
      BY <2>1, CalendarTypes DEF Bucket
    <3>2. q < b => q + Interval <= b
      BY <2>3, <3>1, NextBucket
    <3> HIDE DEF q
    <3>3. b = q + (b % Interval)
      BY <2>1 DEF q
    <3> QED BY <2>1, <3>1, <3>2, <3>3, CalendarTypes
  <2> QED BY <2>2, <2>3
<1>2. ASSUME NEW a \in Int, NEW b \in Int, Bucket(a), Bucket(b)
      PROVE Bucket(a + b) /\ Bucket(a - b)
  <2>1. PICK j \in Int : a = j * Interval
    BY <1>2 DEF Bucket
  <2>2. PICK k \in Int : b = k * Interval
    BY <1>2 DEF Bucket
  <2>3. a + b = (j + k) * Interval /\ a - b = (j - k) * Interval
    BY <2>1, <2>2, CalendarTypes
  <2> QED BY <2>3 DEF Bucket
<1>3. ASSUME NEW d \in Int PROVE Bucket(d * DayLength)
  <2>1. Bucket(DayLength)
    BY <1>1, CalendarTypes
  <2>2. PICK k \in Int : DayLength = k * Interval
    BY <2>1 DEF Bucket
  <2>3. d * DayLength = (d * k) * Interval /\ d * k \in Int
    BY <2>2, CalendarTypes
  <2> QED BY <2>3 DEF Bucket
<1>4. Bucket(Interval)
  <2>1. Interval = 1 * Interval
    BY CalendarTypes
  <2> QED BY <2>1 DEF Bucket
<1> QED BY <1>1, <1>2, <1>3, <1>4

\* A day's offsets are the buckets that lie in the session.
LEMMA OffsetsAre ==
  ASSUME NEW o \in Int
  PROVE  o \in BucketOffsets <=> Bucket(o) /\ SessionStart <= o /\ o + Interval <= SquareOffAt
<1> DEFINE n == SessionStart + Interval - 1
           first == (n \div Interval) * Interval
<1>1. n \in Int /\ n = Interval * (n \div Interval) + (n % Interval) /\ n \div Interval \in Int
      /\ n % Interval < Interval /\ n % Interval >= 0 /\ n % Interval \in Int
  BY CalendarTypes, FloorDivision
<1>2. first \in Int /\ Bucket(first)
  BY <1>1, CalendarTypes DEF Bucket
<1>3. first = n - (n % Interval)
  BY <1>1, CalendarTypes
<1>4. SessionStart <= first /\ first < SessionStart + Interval
  <2> HIDE DEF first
  <2> QED BY <1>1, <1>2, <1>3, CalendarTypes
<1>5. o \in BucketOffsets <=> first <= o /\ o <= SquareOffAt - Interval /\ o % Interval = 0
  BY <1>2, CalendarTypes DEF BucketOffsets
<1> HIDE DEF first, n
<1>6. o % Interval = 0 <=> Bucket(o)
  BY Buckets
<1>7. Bucket(o) /\ SessionStart <= o => first <= o
  <2> SUFFICES ASSUME Bucket(o), SessionStart <= o, o < first PROVE FALSE
    BY <1>2
  <2>1. o + Interval <= first
    BY <1>2, NextBucket
  <2> QED BY <1>2, <1>4, <2>1, CalendarTypes
<1> QED BY <1>2, <1>4, <1>5, <1>6, <1>7, CalendarTypes

\* The buckets of a session, and whose it is.
LEMMA ApplicableIs ==
  ASSUME NEW b \in Int
  PROVE  IsApplicable(b) <=> /\ DayOf(b) \in TradingDays /\ Bucket(b)
                             /\ SessionStart <= ClockOf(b) /\ ClockOf(b) + Interval <= SquareOffAt
<1>1. DayOf(b) \in Int /\ ClockOf(b) \in Nat /\ ClockOf(b) < DayLength /\ b = DayOf(b) * DayLength + ClockOf(b)
  BY DayAndClock
<1> DEFINE x == DayOf(b) * DayLength
<1>2. x \in Int /\ Bucket(x)
  <2>1. x \in Int
    BY <1>1, CalendarTypes
  <2>2. Bucket(DayOf(b) * DayLength)
    BY <1>1, Buckets
  <2> QED BY <2>1, <2>2
<1> HIDE DEF x
<1>3. b = x + ClockOf(b) /\ ClockOf(b) = b - x
  BY <1>1, <1>2 DEF x
<1>4. Bucket(b) <=> Bucket(ClockOf(b))
  <2> DEFINE c == ClockOf(b)
  <2>1. c \in Int /\ b = x + c /\ c = b - x
    BY <1>1, <1>3
  <2> HIDE DEF c
  <2>2. Bucket(b) => Bucket(b - x)
    BY <1>2, Buckets
  <2>3. Bucket(c) => Bucket(x + c)
    BY <1>2, <2>1, Buckets
  <2>4. Bucket(b) <=> Bucket(c)
    BY <2>1, <2>2, <2>3
  <2> QED BY <2>4 DEF c
<1>5. ASSUME NEW o \in BucketOffsets, b = x + o PROVE o = ClockOf(b)
  <2>1. o \in Int
    BY <1>5 DEF BucketOffsets
  <2> QED BY <1>1, <1>2, <1>3, <1>5, <2>1
<1>6. IsApplicable(b) <=> DayOf(b) \in TradingDays /\ ClockOf(b) \in BucketOffsets
  BY <1>3, <1>5 DEF IsApplicable, SessionBucketStarts, x
<1> QED BY <1>1, <1>4, <1>6, OffsetsAre

LEMMA StartsAre ==
  ASSUME NEW d \in Int
  PROVE  SessionBucketStarts(d) = {b \in Int : IsApplicable(b) /\ DayOf(b) = d}
<1>1. ASSUME NEW b \in Int, IsApplicable(b), DayOf(b) = d PROVE b \in SessionBucketStarts(d)
  BY <1>1 DEF IsApplicable
<1>2. ASSUME NEW b \in SessionBucketStarts(d)
      PROVE b \in Int /\ IsApplicable(b) /\ DayOf(b) = d
  <2>1. d \in TradingDays /\ \E o \in BucketOffsets : b = d * DayLength + o
    BY <1>2 DEF SessionBucketStarts
  <2>2. PICK o \in BucketOffsets : b = d * DayLength + o
    BY <2>1
  <2>3. o \in Int
    BY DEF BucketOffsets
  <2>4. SessionStart <= o /\ o + Interval <= SquareOffAt
    BY <2>3, OffsetsAre
  <2>5. o \in Nat /\ o < DayLength
    BY <2>3, <2>4, CalendarTypes
  <2>6. b \in Int /\ DayOf(b) = d
    BY <2>2, <2>5, OfThatDay
  <2> QED BY <1>2, <2>6 DEF IsApplicable
<1> QED BY <1>1, <1>2

\* The buckets of sessions that are over by t.
CompleteBy(t) == {b \in 0 .. t : IsApplicable(b) /\ b < FloorToInterval(t)}

LEMMA ApplicableIsNatural ==
  ASSUME NEW b \in Int, IsApplicable(b)
  PROVE  b \in Nat /\ DayOf(b) \in TradingDays /\ DayOf(b) \in Nat
<1>1. DayOf(b) \in TradingDays /\ DayOf(b) \in Nat
  BY ApplicableIs, CalendarTypes
<1>2. DayOf(b) * DayLength \in Nat
  BY <1>1, CalendarTypes
<1>3. ClockOf(b) \in Nat /\ b = DayOf(b) * DayLength + ClockOf(b)
  BY DayAndClock
<1> DEFINE x == DayOf(b) * DayLength
<1> HIDE DEF x
<1>4. x \in Nat /\ b = x + ClockOf(b)
  BY <1>2, <1>3 DEF x
<1> QED BY <1>1, <1>3, <1>4

LEMMA CompleteIs ==
  ASSUME NEW t \in Int
  PROVE  /\ CompleteBy(t) \in SUBSET Int /\ IsFiniteSet(CompleteBy(t))
         /\ \A b \in Int : b \in CompleteBy(t) <=> IsApplicable(b) /\ b < FloorToInterval(t)
<1>1. CompleteBy(t) \in SUBSET (0 .. t) /\ IsFiniteSet(0 .. t)
  BY FS_Interval DEF CompleteBy
<1>2. IsFiniteSet(CompleteBy(t))
  BY <1>1, FS_Subset
<1>3. FloorToInterval(t) \in Int /\ FloorToInterval(t) <= t
  BY FloorIsBucket
<1>4. ASSUME NEW b \in Int, IsApplicable(b), b < FloorToInterval(t)
      PROVE b \in CompleteBy(t)
  <2>1. b \in Nat
    BY <1>4, ApplicableIsNatural
  <2> QED BY <1>3, <1>4, <2>1 DEF CompleteBy
<1> QED BY <1>1, <1>2, <1>4 DEF CompleteBy

\* The whole buckets of the exchange's sessions are the same ones.
LEMMA WholeAreComplete ==
  ASSUME NEW t \in Nat, NEW n
  PROVE  WholeBuckets(n, t) = Newest(n, CompleteBy(t))
<1> DEFINE W == {b \in 0 .. t : /\ b % Interval = 0 /\ b + Interval <= t
                                /\ DayOf(b) \in TradingDays
                                /\ SessionStart <= ClockOf(b) /\ ClockOf(b) + Interval <= SquareOffAt}
           f == FloorToInterval(t)
<1>1. f \in Int /\ Bucket(f) /\ f <= t /\ t < f + Interval
  BY FloorIsBucket
<1> HIDE DEF f
<1>2. ASSUME NEW b \in Int, Bucket(b) PROVE b + Interval <= t <=> b < f
  <2>1. b < f => b + Interval <= f
    BY <1>1, <1>2, NextBucket
  <2> QED BY <1>1, <2>1, CalendarTypes
<1>3. ASSUME NEW b \in 0 .. t
      PROVE  (/\ b % Interval = 0 /\ b + Interval <= t
              /\ DayOf(b) \in TradingDays
              /\ SessionStart <= ClockOf(b) /\ ClockOf(b) + Interval <= SquareOffAt)
             <=> IsApplicable(b) /\ b < f
  <2>1. b \in Int
    OBVIOUS
  <2>2. b % Interval = 0 <=> Bucket(b)
    BY <2>1, Buckets
  <2> QED BY <1>2, <2>1, <2>2, ApplicableIs
<1>4. W = CompleteBy(t)
  BY <1>3 DEF CompleteBy, f
<1> QED BY <1>4 DEF WholeBuckets

\* Trading days before a day, counted back from it.
LEMMA PriorDaysAre ==
  ASSUME NEW d \in Nat
  PROVE  /\ PriorDays(d) \in SUBSET Int /\ IsFiniteSet(PriorDays(d))
         /\ \A j \in Nat : 1 <= j /\ j <= Cardinality(PriorDays(d)) =>
              PriorTradingDay(d, j) \in PriorDays(d) /\ Rank(PriorDays(d), PriorTradingDay(d, j)) = j
<1> DEFINE P == PriorDays(d)
<1>1. P \in SUBSET Int /\ P \in SUBSET (0 .. d)
  <2> SUFFICES ASSUME NEW e \in P PROVE e \in Int /\ e \in 0 .. d
    OBVIOUS
  <2>1. e \in Nat /\ e < d
    BY CalendarTypes DEF PriorDays
  <2> QED BY <2>1
<1>2. IsFiniteSet(P)
  <2>1. IsFiniteSet(0 .. d)
    BY FS_Interval
  <2> HIDE DEF P
  <2> QED BY <1>1, <2>1, FS_Subset
<1>3. ASSUME NEW j \in Nat, 1 <= j, j <= Cardinality(P)
      PROVE  PriorTradingDay(d, j) \in P /\ Rank(P, PriorTradingDay(d, j)) = j
  <2>1. PriorTradingDay(d, j) = CHOOSE e \in P : Rank(P, e) = j
    BY DEF PriorTradingDay, Rank
  <2> HIDE DEF P
  <2>2. \E e \in P : Rank(P, e) = j
    BY <1>1, <1>2, <1>3, RankExists
  <2> QED BY <2>1, <2>2
<1> QED BY <1>1, <1>2, <1>3

\* Their least and greatest, where a finite set of numbers has them.
LEMMA MinAndMax ==
  ASSUME NEW S \in SUBSET Int, IsFiniteSet(S), S # {}
  PROVE  /\ Min(S) \in S /\ \A x \in S : Min(S) <= x
         /\ Max(S) \in S /\ \A x \in S : x <= Max(S)
<1>1. \E m \in S : \A x \in S : m <= x
  BY SmallestOf
<1>2. \E m \in S : \A x \in S : x <= m
  BY LargestOf
<1>3. \A m \in S : (\A x \in S : x <= m) <=> (\A x \in S : m >= x)
  OBVIOUS
<1> QED BY <1>1, <1>2, <1>3 DEF Min, Max

LEMMA MinOfTwo ==
  ASSUME NEW a \in Int, NEW b \in Int
  PROVE  Min({a, b}) = IF a <= b THEN a ELSE b
<1> DEFINE m == IF a <= b THEN a ELSE b
<1>1. m \in {a, b} /\ \A x \in {a, b} : m <= x
  OBVIOUS
<1>2. \A n \in {a, b} : (\A x \in {a, b} : n <= x) => n = m
  OBVIOUS
<1> HIDE DEF m
<1>3. Min({a, b}) = m
  BY <1>1, <1>2 DEF Min
<1> QED BY <1>3 DEF m

LEMMA StartsAreFinite ==
  ASSUME NEW d \in TradingDays, BucketOffsets # {}
  PROVE  /\ SessionBucketStarts(d) \in SUBSET Int
         /\ IsFiniteSet(SessionBucketStarts(d)) /\ SessionBucketStarts(d) # {}
<1>1. d \in Int /\ d * DayLength \in Int
  BY CalendarTypes
<1> DEFINE x == d * DayLength
           S == SessionBucketStarts(d)
<1>2. S \in SUBSET (x .. x + DayLength)
  <2> SUFFICES ASSUME NEW o \in BucketOffsets PROVE x + o \in x .. x + DayLength
    BY DEF SessionBucketStarts
  <2>1. o \in Int
    BY DEF BucketOffsets
  <2>2. SessionStart <= o /\ o + Interval <= SquareOffAt
    BY <2>1, OffsetsAre
  <2> HIDE DEF x
  <2>3. x \in Int
    BY <1>1 DEF x
  <2> QED BY <2>1, <2>2, <2>3, CalendarTypes
<1>3. IsFiniteSet(x .. x + DayLength)
  BY <1>1, FS_Interval, CalendarTypes
<1>4. S # {}
  BY DEF SessionBucketStarts
<1>5. S \in SUBSET Int
  BY <1>1, StartsAre
<1> HIDE DEF S, x
<1>6. IsFiniteSet(S)
  BY <1>2, <1>3, FS_Subset
<1> QED BY <1>4, <1>5, <1>6 DEF S

-----------------------------------------------------------------------------
(* What the manager expects.                                                 *)
LEMMA TimesAre ==
  ASSUME NEW t \in Times
  PROVE  /\ t \in Nat /\ DayOf(t) = Today /\ Today * DayLength \in Nat
         /\ Today * DayLength <= FloorToInterval(t) /\ FloorToInterval(t) <= t
<1> DEFINE x == Today * DayLength
           y == (Today + 1) * DayLength
<1>1. x \in Nat /\ Bucket(x)
  <2>1. x \in Nat
    BY CalendarTypes
  <2> QED BY <2>1, Buckets, CalendarTypes
<1>2. y \in Int /\ y = x + DayLength
  BY CalendarTypes
<1> HIDE DEF x, y
<1>3. t \in x .. y - 1
  BY DEF Times, x, y
<1>4. t \in Nat /\ t - x \in Nat /\ t - x < DayLength
  BY <1>1, <1>2, <1>3, CalendarTypes
<1>5. DayOf(t) = Today
  <2> DEFINE o == t - x
  <2>1. o \in Nat /\ o < DayLength /\ t = x + o
    BY <1>1, <1>4
  <2> HIDE DEF o
  <2>2. DayOf(Today * DayLength + o) = Today
    BY <2>1, OfThatDay, CalendarTypes
  <2> QED BY <2>1, <2>2 DEF x
<1>6. FloorToInterval(t) \in Int /\ Bucket(FloorToInterval(t)) /\ FloorToInterval(t) <= t
      /\ t < FloorToInterval(t) + Interval
  BY <1>4, FloorIsBucket
<1>7. x <= FloorToInterval(t)
  <2> SUFFICES ASSUME FloorToInterval(t) < x PROVE FALSE
    BY <1>1, <1>6
  <2>1. FloorToInterval(t) + Interval <= x
    BY <1>1, <1>6, NextBucket
  <2> QED BY <1>1, <1>3, <1>2, <1>6, <2>1, CalendarTypes
<1> QED BY <1>1, <1>4, <1>5, <1>6, <1>7 DEF x

\* The days of complete buckets are not after today, and before today in today's first ones.
LEMMA CompleteDays ==
  ASSUME NEW t \in Times, NEW b \in CompleteBy(t)
  PROVE  /\ b \in Int /\ IsApplicable(b) /\ b < FloorToInterval(t)
         /\ DayOf(b) \in TradingDays /\ DayOf(b) \in Nat
         /\ Bucket(b) /\ b + Interval <= FloorToInterval(t)
         /\ DayOf(b) <= Today /\ b \in SessionBucketStarts(DayOf(b))
<1>1. t \in Int /\ DayOf(t) = Today /\ FloorToInterval(t) <= t
  BY TimesAre
<1>2. b \in Int /\ IsApplicable(b) /\ b < FloorToInterval(t)
  BY <1>1, CompleteIs
<1>3. DayOf(b) \in TradingDays /\ DayOf(b) \in Nat /\ Bucket(b)
  BY <1>2, ApplicableIsNatural, ApplicableIs
<1>4. FloorToInterval(t) \in Int /\ Bucket(FloorToInterval(t))
  BY <1>1, FloorIsBucket
<1>5. b + Interval <= FloorToInterval(t)
  BY <1>2, <1>3, <1>4, NextBucket
<1>6. DayOf(b) <= DayOf(t)
  BY <1>1, <1>2, <1>4, DaysRise
<1> QED BY <1>1, <1>2, <1>3, <1>5, <1>6 DEF IsApplicable

\* The boundary is the newest complete bucket.
LEMMA LatestIsNewest ==
  ASSUME CalendarReaches, NEW t \in Times
  PROVE  /\ RequiredLatest[t] \in CompleteBy(t)
         /\ \A b \in CompleteBy(t) : b <= RequiredLatest[t]
         /\ DayOf(RequiredLatest[t]) = Today \/ DayOf(RequiredLatest[t]) = PriorTradingDay(Today, 1)
<1> DEFINE S == SessionBucketStarts(Today)
           f == FloorToInterval(t)
           last == f - Interval
           L == RequiredLatest[t]
           x == Today * DayLength
<1>1. t \in Nat /\ x \in Nat /\ x <= f /\ f <= t /\ f \in Int /\ Bucket(f)
  BY TimesAre, FloorIsBucket
<1>2. S \in SUBSET Int /\ IsFiniteSet(S) /\ S # {}
  BY StartsAreFinite, CalendarTypes DEF CalendarReaches
<1>3. L = IF last >= Min(S) THEN Min({last, Max(S)})
                            ELSE Max(SessionBucketStarts(PriorTradingDay(Today, 1)))
  BY DEF RequiredLatest
<1>4. /\ Min(S) \in S /\ \A b \in S : Min(S) <= b
      /\ Max(S) \in S /\ \A b \in S : b <= Max(S)
  BY <1>2, MinAndMax
<1>5. last \in Int /\ Interval \in Nat /\ Interval > 0
  BY <1>1, CalendarTypes
<1>6. \A b \in Int : b \in S <=> IsApplicable(b) /\ DayOf(b) = Today
  BY StartsAre, CalendarTypes
<1>7. ASSUME NEW b \in CompleteBy(t), DayOf(b) # Today PROVE b < x
  <2>1. DayOf(b) \in Int /\ DayOf(b) < Today /\ ClockOf(b) < DayLength /\ ClockOf(b) \in Nat
        /\ b = DayOf(b) * DayLength + ClockOf(b)
    BY <1>7, CompleteDays, CalendarTypes, DayAndClock
  <2>2. DayOf(b) * DayLength \in Int /\ DayOf(b) * DayLength + DayLength <= x
    BY <2>1, DaysAreApart, CalendarTypes
  <2> DEFINE z == DayOf(b) * DayLength
  <2> HIDE DEF z, x
  <2>3. z \in Int /\ z + DayLength <= x /\ b = z + ClockOf(b) /\ b \in Int /\ x \in Int
    BY <1>1, <2>1, <2>2, CompleteDays DEF z
  <2> QED BY <2>1, <2>3, CalendarTypes
<1>8. ASSUME NEW b \in S PROVE b \in Int /\ x <= b /\ IsApplicable(b) /\ DayOf(b) = Today
  <2>1. b \in Int /\ DayOf(b) = Today /\ IsApplicable(b)
    BY <1>2, <1>6
  <2>2. ClockOf(b) \in Nat /\ b = DayOf(b) * DayLength + ClockOf(b)
    BY <2>1, DayAndClock
  <2>3. b = x + ClockOf(b)
    BY <2>1, <2>2
  <2> HIDE DEF x
  <2> QED BY <1>1, <2>1, <2>2, <2>3
<1>11. Min(S) \in Int /\ Max(S) \in Int
  BY <1>4, <1>8
<1> HIDE DEF S, f, L, x
<1>9. CASE last >= Min(S)
  <2>1. CASE last <= Max(S)
    <3>1. L = last
      <4>1. Min({last, Max(S)}) = last
        BY <2>1, <1>5, <1>11, MinOfTwo
      <4> QED BY <1>3, <1>9, <4>1
    <3>2. DayOf(last) = Today /\ SessionStart <= ClockOf(last) /\ ClockOf(last) + Interval <= SquareOffAt
      <4>1. /\ Min(S) \in Int /\ DayOf(Min(S)) = Today /\ IsApplicable(Min(S))
            /\ Max(S) \in Int /\ DayOf(Max(S)) = Today /\ IsApplicable(Max(S))
        BY <1>4, <1>8
      <4>2. DayOf(last) = Today
        <5>1. DayOf(Min(S)) <= DayOf(last) /\ DayOf(last) <= DayOf(Max(S))
          BY <1>5, <1>9, <2>1, <4>1, DaysRise
        <5>2. DayOf(last) \in Int
          BY <1>5, DayAndClock
        <5> QED BY <4>1, <5>1, <5>2, CalendarTypes
      <4>3. ClockOf(last) - ClockOf(Min(S)) = last - Min(S) /\ ClockOf(Max(S)) - ClockOf(last) = Max(S) - last
        BY <1>5, <4>1, <4>2, DaysRise
      <4>4. SessionStart <= ClockOf(Min(S)) /\ ClockOf(Max(S)) + Interval <= SquareOffAt
        BY <4>1, ApplicableIs
      <4>5. ClockOf(last) \in Int /\ ClockOf(Min(S)) \in Int /\ ClockOf(Max(S)) \in Int
        BY <1>5, <4>1, DayAndClock
      <4> HIDE DEF last
      <4> QED BY <1>5, <1>9, <2>1, <4>1, <4>2, <4>3, <4>4, <4>5, CalendarTypes
    <3>3. Bucket(last)
      BY <1>1, <1>5, Buckets
    <3>4. IsApplicable(last)
      BY <1>5, <3>2, <3>3, ApplicableIs, CalendarTypes
    <3>5. L \in CompleteBy(t)
      BY <1>1, <1>5, <3>1, <3>4, CompleteIs DEF f
    <3>6. ASSUME NEW b \in CompleteBy(t) PROVE b <= L
      <4>1. b \in Int /\ b + Interval <= f
        BY CompleteDays DEF f
      <4> QED BY <1>1, <1>5, <3>1, <4>1
    <3> QED BY <3>1, <3>2, <3>5, <3>6 DEF L
  <2>2. CASE last > Max(S)
    <3>1. Max(S) \in Int /\ x <= Max(S) /\ IsApplicable(Max(S)) /\ DayOf(Max(S)) = Today
      BY <1>4, <1>8
    <3>2. L = Max(S)
      <4>1. Min({last, Max(S)}) = Max(S)
        BY <2>2, <1>5, <1>11, MinOfTwo
      <4> QED BY <1>3, <1>9, <4>1
    <3>3. L \in CompleteBy(t)
      <4>1. Max(S) < f
        BY <1>1, <1>5, <2>2, <3>1
      <4> QED BY <1>1, <3>1, <3>2, <4>1, CompleteIs DEF f
    <3>4. ASSUME NEW b \in CompleteBy(t) PROVE b <= L
      <4>1. b \in Int /\ IsApplicable(b)
        BY CompleteDays
      <4>2. CASE DayOf(b) = Today
        BY <1>4, <1>6, <3>2, <4>1, <4>2
      <4>3. CASE DayOf(b) # Today
        BY <1>1, <1>7, <3>1, <3>2, <4>1, <4>3
      <4> QED BY <4>2, <4>3
    <3> QED BY <3>1, <3>2, <3>3, <3>4 DEF L
  <2> HIDE DEF last
  <2> QED BY <1>5, <1>11, <2>1, <2>2
<1>10. CASE ~(last >= Min(S))
  <2> DEFINE p == PriorTradingDay(Today, 1)
             P == SessionBucketStarts(p)
  <2>1. p \in PriorDays(Today) /\ Rank(PriorDays(Today), p) = 1
    <3>1. Cardinality(PriorDays(Today)) \in Nat
      BY PriorDaysAre, FS_CardinalityType, CalendarTypes
    <3>2. Cardinality(PriorDays(Today)) >= 1
      BY <3>1, WarmUpAssumption DEF CalendarReaches
    <3> QED BY <3>2, PriorDaysAre, CalendarTypes
  <2>2. p \in TradingDays /\ p \in Nat /\ p < Today
    BY <2>1, CalendarTypes DEF PriorDays
  <2>3. \A d \in PriorDays(Today) : d <= p
    <3> SUFFICES ASSUME NEW d \in PriorDays(Today), p < d PROVE FALSE
      BY <2>2, CalendarTypes DEF PriorDays
    <3>1. d \in Int /\ Rank(PriorDays(Today), d) < 1 /\ Rank(PriorDays(Today), d) >= 1
      BY <2>1, PriorDaysAre, RankIsStrict, CalendarTypes
    <3>2. Rank(PriorDays(Today), d) \in Nat
      BY <3>1, PriorDaysAre, RankIsStrict, CalendarTypes
    <3> QED BY <3>1, <3>2
  <2> HIDE DEF p
  <2>4. P \in SUBSET Int /\ IsFiniteSet(P) /\ P # {}
    BY <2>2, StartsAreFinite DEF CalendarReaches
  <2>5. Max(P) \in P /\ \A b \in P : b <= Max(P)
    BY <2>4, MinAndMax
  <2>6. \A b \in Int : b \in P <=> IsApplicable(b) /\ DayOf(b) = p
    BY <2>2, StartsAre
  <2> HIDE DEF P
  <2>7. L = Max(P)
    BY <1>3, <1>10 DEF p, P
  <2>8. L \in Int /\ IsApplicable(L) /\ DayOf(L) = p
    BY <2>4, <2>5, <2>6, <2>7
  <2> DEFINE z == p * DayLength
  <2>9. z \in Int /\ z + DayLength <= x /\ L = z + ClockOf(L) /\ ClockOf(L) \in Nat /\ ClockOf(L) < DayLength
    <3>1. z \in Int /\ z + DayLength <= x
      BY <2>2, DaysAreApart, CalendarTypes DEF x
    <3>2. L = DayOf(L) * DayLength + ClockOf(L) /\ ClockOf(L) \in Nat /\ ClockOf(L) < DayLength
      BY <2>8, DayAndClock
    <3> QED BY <2>8, <3>1, <3>2
  <2> HIDE DEF z
  <2>10. L < f
    BY <1>1, <2>8, <2>9, CalendarTypes
  <2>11. L \in CompleteBy(t)
    BY <1>1, <2>8, <2>10, CompleteIs DEF f
  <2>12. ASSUME NEW b \in CompleteBy(t) PROVE b <= L
    <3>1. b \in Int /\ IsApplicable(b) /\ b + Interval <= f /\ DayOf(b) <= Today /\ DayOf(b) \in TradingDays
          /\ DayOf(b) \in Nat
      BY CompleteDays DEF f
    <3>2. DayOf(b) # Today
      <4> SUFFICES ASSUME DayOf(b) = Today PROVE FALSE
        OBVIOUS
      <4>1. b \in S
        BY <1>6, <3>1
      <4>2. Min(S) <= b /\ Min(S) \in Int
        BY <1>2, <1>4, <4>1
      <4> QED BY <1>1, <1>5, <1>10, <3>1, <4>2
    <3>3. DayOf(b) \in PriorDays(Today)
      BY <3>1, <3>2, CalendarTypes DEF PriorDays
    <3>4. DayOf(b) <= p
      BY <2>3, <3>3
    <3>5. CASE DayOf(b) = p
      BY <2>5, <2>6, <2>7, <3>1, <3>5
    <3>6. CASE DayOf(b) < p
      <4>1. b <= L
        <5>1. ~(L <= b)
          <6>1. L <= b => DayOf(L) <= DayOf(b)
            BY <2>8, <3>1, DaysRise
          <6> QED BY <2>2, <2>8, <3>1, <3>6, <6>1
        <5> QED BY <2>8, <3>1, <5>1
      <4> QED BY <4>1
    <3> QED BY <2>2, <3>1, <3>4, <3>5, <3>6
  <2> QED BY <2>8, <2>11, <2>12 DEF L, p
<1> QED BY <1>9, <1>10

\* How far back a bucket is: its day is the boundary's, or among the k trading
\* days before it.
Reaches(day, k, b) ==
  DayOf(b) = day \/ (DayOf(b) \in PriorDays(day) /\ Rank(PriorDays(day), DayOf(b)) <= k)

LEMMA BackFromIs ==
  ASSUME CalendarReaches, NEW t \in Times, NEW k \in Nat,
         k <= Cardinality(PriorDays(DayOf(RequiredLatest[t])))
  PROVE  BackFrom(RequiredLatest[t], k) = {b \in CompleteBy(t) : Reaches(DayOf(RequiredLatest[t]), k, b)}
<1> DEFINE L == RequiredLatest[t]
           day == DayOf(L)
           P == PriorDays(day)
           days == {day} \cup {PriorTradingDay(day, j) : j \in 1 .. k}
<1>1. L \in CompleteBy(t) /\ \A b \in CompleteBy(t) : b <= L
  BY LatestIsNewest
<1>2. L \in Int /\ L < FloorToInterval(t) /\ day \in Nat /\ FloorToInterval(t) \in Int /\ t \in Int
  <2>1. t \in Int
    BY TimesAre
  <2> QED BY <1>1, <2>1, CompleteDays, FloorIsBucket
<1>3. P \in SUBSET Int /\ IsFiniteSet(P) /\ Cardinality(P) \in Nat
  BY <1>2, PriorDaysAre, FS_CardinalityType
<1>4. \A j \in 1 .. k : PriorTradingDay(day, j) \in P /\ Rank(P, PriorTradingDay(day, j)) = j
  <2> SUFFICES ASSUME NEW j \in 1 .. k
               PROVE  PriorTradingDay(day, j) \in P /\ Rank(P, PriorTradingDay(day, j)) = j
    OBVIOUS
  <2>1. j \in Nat /\ 1 <= j /\ j <= Cardinality(P)
    BY <1>3
  <2> QED BY <1>2, <2>1, PriorDaysAre
<1> HIDE DEF L, day, P
<1>5. ASSUME NEW d PROVE d \in days <=> d = day \/ (d \in P /\ Rank(P, d) <= k)
  <2>1. ASSUME d \in P, Rank(P, d) <= k PROVE d \in days
    <3>1. Rank(P, d) \in 1 .. k
      BY <1>3, <2>1, RankIsStrict
    <3> DEFINE e == PriorTradingDay(day, Rank(P, d))
    <3>2. e \in P /\ Rank(P, e) = Rank(P, d)
      BY <1>4, <3>1
    <3> HIDE DEF e
    <3>3. e = d
      BY <1>3, <2>1, <3>2, RankIsUnique, Zenon
    <3> QED BY <3>1, <3>3 DEF e
  <2>2. ASSUME d \in days PROVE d = day \/ (d \in P /\ Rank(P, d) <= k)
    BY <1>4, <2>2
  <2> QED BY <2>1, <2>2
<1>6. days \subseteq Int
  <2>1. \A j \in 1 .. k : PriorTradingDay(day, j) \in Int
    BY <1>3, <1>4
  <2> QED BY <1>2, <2>1
<1>7. BackFrom(L, k) = {b \in UNION {SessionBucketStarts(d) : d \in days} : b <= L}
  BY DEF BackFrom, day
<1> HIDE DEF days
<1>8. ASSUME NEW b \in BackFrom(L, k) PROVE b \in CompleteBy(t) /\ Reaches(day, k, b)
  <2>1. PICK d \in days : b \in SessionBucketStarts(d)
    BY <1>7, <1>8
  <2>2. b \in Int /\ IsApplicable(b) /\ DayOf(b) = d
    BY <1>6, <2>1, StartsAre
  <2>3. b <= L
    BY <1>7, <1>8
  <2>4. b \in CompleteBy(t)
    BY <1>2, <2>2, <2>3, CompleteIs
  <2> QED BY <1>5, <2>1, <2>2, <2>4 DEF Reaches, P
<1>9. ASSUME NEW b \in CompleteBy(t), Reaches(day, k, b) PROVE b \in BackFrom(L, k)
  <2>1. DayOf(b) \in days
    BY <1>5, <1>9 DEF Reaches, P
  <2>2. b \in SessionBucketStarts(DayOf(b)) /\ b <= L
    BY <1>1, CompleteDays
  <2> QED BY <1>7, <2>1, <2>2
<1>10. BackFrom(L, k) = {b \in CompleteBy(t) : Reaches(day, k, b)}
  BY <1>8, <1>9
<1> QED BY <1>10 DEF day, L

\* What is reached by going back is a newer part of what is complete.
LEMMA ReachingIsATail ==
  ASSUME CalendarReaches, NEW t \in Times, NEW k \in Nat,
         NEW b \in CompleteBy(t), Reaches(DayOf(RequiredLatest[t]), k, b),
         NEW c \in CompleteBy(t), c >= b
  PROVE  Reaches(DayOf(RequiredLatest[t]), k, c)
<1> DEFINE day == DayOf(RequiredLatest[t])
           P == PriorDays(day)
<1>1. /\ b \in Int /\ DayOf(b) \in Nat /\ DayOf(b) \in TradingDays
      /\ c \in Int /\ DayOf(c) \in Nat /\ DayOf(c) \in TradingDays
  BY CompleteDays
<1>2. RequiredLatest[t] \in CompleteBy(t) /\ c <= RequiredLatest[t]
  BY LatestIsNewest
<1>3. RequiredLatest[t] \in Int /\ day \in Nat
  BY <1>2, CompleteDays
<1>4. DayOf(b) <= DayOf(c) /\ DayOf(c) <= day
  BY <1>1, <1>2, <1>3, DaysRise
<1>5. P \in SUBSET Int /\ IsFiniteSet(P)
  BY <1>3, PriorDaysAre
<1> HIDE DEF day
<1>6. CASE DayOf(c) = day
  BY <1>6 DEF Reaches, day
<1>7. CASE DayOf(c) # day
  <2>1. DayOf(c) < day /\ DayOf(b) # day
    BY <1>1, <1>3, <1>4, <1>7
  <2>2. DayOf(c) \in P /\ DayOf(b) \in P /\ Rank(P, DayOf(b)) <= k
    BY <1>1, <2>1 DEF Reaches, PriorDays, day
  <2> HIDE DEF P
  <2>3. Rank(P, DayOf(c)) \in Nat /\ Rank(P, DayOf(b)) \in Nat
    BY <1>1, <1>5, RankIsStrict
  <2>4. DayOf(b) < DayOf(c) => Rank(P, DayOf(c)) < Rank(P, DayOf(b))
    BY <1>1, <1>5, <2>2, RankIsStrict
  <2>5. Rank(P, DayOf(c)) <= k
    BY <1>1, <1>4, <2>2, <2>3, <2>4
  <2> QED BY <2>2, <2>5 DEF Reaches, P, day
<1> QED BY <1>6, <1>7

\* The buckets expected are the newest complete ones, when going back reaches enough.
Budget(t) == Min({MaxLookback, Cardinality(PriorDays(DayOf(RequiredLatest[t])))})

LEMMA ExpectedIs ==
  ASSUME CalendarReaches, NEW t \in Times, NEW n \in BarCounts, n \in Nat, n >= 1
  PROVE  LET E == ExpectedRecentBuckets[n][t] IN
         /\ E # {} => n <= Cardinality(CompleteBy(t)) /\ E = Newest(n, CompleteBy(t))
         /\ (\E k \in 0 .. Budget(t) : Cardinality(BackFrom(RequiredLatest[t], k)) >= n) => E # {}
<1> DEFINE L == RequiredLatest[t]
           size == Cardinality(PriorDays(DayOf(L)))
           enough == {k \in 0 .. Budget(t) : Cardinality(BackFrom(L, k)) >= n}
           E == ExpectedRecentBuckets[n][t]
           C == CompleteBy(t)
<1>1. E = IF enough = {} THEN {} ELSE Newest(n, BackFrom(L, Min(enough)))
  BY DEF ExpectedRecentBuckets, Budget
<1>2. DayOf(L) \in Nat
  BY LatestIsNewest, CompleteDays
<1>3. size \in Nat
  BY <1>2, PriorDaysAre, FS_CardinalityType
<1>4. Budget(t) \in Nat /\ Budget(t) <= size
  <2>1. MaxLookback \in Nat
    BY WarmUpAssumption
  <2> HIDE DEF size
  <2>2. Budget(t) = IF MaxLookback <= size THEN MaxLookback ELSE size
    BY <1>3, <2>1, MinOfTwo DEF Budget, size
  <2> QED BY <1>3, <2>1, <2>2
<1>5. C \in SUBSET Int /\ IsFiniteSet(C)
  BY TimesAre, CompleteIs
<1>6. ASSUME enough # {} PROVE n <= Cardinality(C) /\ E = Newest(n, C)
  <2>1. enough \in SUBSET Int /\ IsFiniteSet(enough)
    <3>1. enough \in SUBSET (0 .. Budget(t)) /\ IsFiniteSet(0 .. Budget(t))
      BY <1>4, FS_Interval
    <3>2. \A k \in enough : k \in Int
      OBVIOUS
    <3> HIDE DEF enough
    <3>3. IsFiniteSet(enough)
      BY <3>1, FS_Subset
    <3> QED BY <3>2, <3>3
  <2> DEFINE k == Min(enough)
             T == BackFrom(L, k)
  <2>2. k \in enough
    <3> HIDE DEF enough
    <3> QED BY <1>6, <2>1, MinAndMax
  <2>3. k \in Nat /\ k <= size /\ Cardinality(T) >= n
    BY <1>3, <1>4, <2>2
  <2>4. E = Newest(n, T)
    BY <1>1, <1>6
  <2> HIDE DEF k, enough
  <2>5. T = {b \in C : Reaches(DayOf(L), k, b)}
    BY <2>3, BackFromIs
  <2> HIDE DEF T
  <2>6. T \in SUBSET C /\ \A b \in T, c \in C : c >= b => c \in T
    <3>1. T \in SUBSET C
      BY <2>5
    <3>2. ASSUME NEW b \in T, NEW c \in C, c >= b PROVE c \in T
      <4>1. b \in CompleteBy(t) /\ Reaches(DayOf(RequiredLatest[t]), k, b)
        BY <2>5
      <4>2. Reaches(DayOf(RequiredLatest[t]), k, c)
        BY <2>3, <3>2, <4>1, ReachingIsATail
      <4> QED BY <2>5, <4>2
    <3> QED BY <3>1, <3>2
  <2> HIDE DEF T, C, E
  <2>7. Cardinality(T) <= Cardinality(C) /\ Cardinality(C) \in Nat /\ Cardinality(T) \in Nat
    BY <1>5, <2>6, FS_Subset, FS_CardinalityType
  <2>8. n <= Cardinality(T)
    BY <2>3, <2>7
  <2>9. Newest(n, T) = Newest(n, C)
    BY <1>5, <2>6, <2>8, NewestOfATail
  <2> QED BY <2>4, <2>7, <2>8, <2>9
<1>7. ASSUME enough # {} PROVE E # {}
  <2>1. n <= Cardinality(C) /\ E = Newest(n, C)
    BY <1>6, <1>7
  <2> HIDE DEF C, E, enough
  <2>2. Cardinality(Newest(n, C)) = n
    BY <1>5, <2>1, NewestIsATail
  <2>3. Cardinality(E) # 0
    BY <2>1, <2>2
  <2> QED BY <2>3, FS_EmptySet
<1>8. E # {} => enough # {}
  BY <1>1
<1> QED BY <1>6, <1>7, <1>8

\* A verified list ends with the newest complete buckets, in order.
LEMMA VerifiedEndsInOrder ==
  ASSUME CalendarReaches, NEW t \in Times, NEW s, s.bars \in BarCounts, s.bars \in Nat,
         s.bars >= 1,
         NEW S \in SUBSET CompleteBy(t), Verified(s, t, InOrder(S)) = "WARMED"
  PROVE  LET h == InOrder(S) IN
         /\ s.bars <= Len(h)
         /\ SubSeq(h, Len(h) - s.bars + 1, Len(h)) = InOrder(WholeBuckets(s.bars, t))
<1> DEFINE n == s.bars
           h == InOrder(S)
           C == CompleteBy(t)
           E == ExpectedRecentBuckets[n][t]
<1>1. C \in SUBSET Int /\ IsFiniteSet(C) /\ S \in SUBSET Int /\ IsFiniteSet(S)
  BY TimesAre, CompleteIs, FS_Subset
<1>2. h \in Seq(S) /\ h \in Seq(Int) /\ \A b \in S : \E i \in 1 .. Len(h) : h[i] = b
  <2>1. h \in Seq(S) /\ \A b \in S : \E i \in 1 .. Len(h) : h[i] = b
    BY <1>1, InOrderIs
  <2> HIDE DEF h
  <2>2. h \in Seq(Int)
    BY <1>1, <2>1, NumbersInSeq
  <2> QED BY <2>1, <2>2
<1>3. \A i, j \in 1 .. Len(h) : i < j => h[i] < h[j]
  BY <1>1, InOrderRises
<1>4. E # {} /\ {b \in ToSet(h) : Min(E) <= b /\ b <= Max(E)} = E
  BY DEF Verified
<1>5. n <= Cardinality(C) /\ E = Newest(n, C)
  BY <1>4, ExpectedIs
<1>6. ToSet(h) = S
  <2> HIDE DEF h
  <2>1. h \in Seq(S)
    BY <1>2
  <2>2. DOMAIN h = 1 .. Len(h)
    BY <2>1
  <2>3. \A i \in 1 .. Len(h) : h[i] \in S
    BY <2>1
  <2>4. ToSet(h) = {h[i] : i \in 1 .. Len(h)}
    BY <2>2 DEF ToSet
  <2>5. \A b \in S : \E i \in 1 .. Len(h) : h[i] = b
    BY <1>2
  <2> QED BY <2>3, <2>4, <2>5
<1> HIDE DEF h, C, E
<1>7. Cardinality(E) = n /\ \E e \in C : E = {b \in C : b >= e}
  BY <1>1, <1>5, NewestIsATail
<1>8. PICK e \in C : E = {b \in C : b >= e}
  BY <1>7
<1>9. E \in SUBSET Int /\ IsFiniteSet(E) /\ E \in SUBSET C
  BY <1>1, <1>8, FS_Subset
<1>10. Min(E) \in E /\ \A b \in E : Min(E) <= b
  BY <1>4, <1>9, MinAndMax
<1>11. \A b \in E : b \in S
  BY <1>4, <1>6
<1>12. \A b \in E : \E i \in 1 .. Len(h) : h[i] = b
  BY <1>2, <1>11
<1>13. ASSUME NEW i \in 1 .. Len(h), h[i] >= Min(E) PROVE h[i] \in E
  <2>1. h[i] \in S /\ h[i] \in Int /\ Min(E) \in Int /\ e \in Int /\ Min(E) >= e
    BY <1>1, <1>2, <1>8, <1>9, <1>10
  <2>2. h[i] \in C /\ h[i] >= e
    BY <1>13, <2>1 DEF C
  <2> QED BY <1>8, <2>2
<1>14. Cardinality(E) <= Len(h) /\ SubSeq(h, Len(h) - Cardinality(E) + 1, Len(h)) = InOrder(E)
  <2> DEFINE m == Min(E)
  <2>1. m \in E /\ \A b \in E : b >= m
    BY <1>9, <1>10
  <2>2. \A i \in 1 .. Len(h) : h[i] >= m => h[i] \in E
    BY <1>13
  <2> HIDE DEF m
  <2> QED BY <1>2, <1>3, <1>9, <1>12, <2>1, <2>2, EndsInOrder
<1>15. WholeBuckets(n, t) = E
  <2>1. t \in Nat
    BY TimesAre
  <2> QED BY <1>5, <2>1, WholeAreComplete DEF C
<1> QED BY <1>7, <1>14, <1>15 DEF h

-----------------------------------------------------------------------------
(* What is fetched.                                                          *)
FetchedSet(rows) == {b \in AggregateCandles(rows) : IsApplicable(b) /\ b < FloorToInterval(asOf)}

LEMMA FetchedIs ==
  ASSUME asOf \in Times, NEW rows \in Holdings(FetchRange)
  PROVE  Fetched(rows) = InOrder(FetchedSet(rows)) /\ FetchedSet(rows) \in SUBSET CompleteBy(asOf)
<1>1. rows \in SUBSET FetchRange
  BY DEF Holdings
<1>2. \A m \in FetchRange : m \in Int
  BY DEF FetchRange, TradedMinutes
<1>3. \A m \in Int : FloorToInterval(m) \in Int
  BY FloorIsBucket
<1>4. asOf \in Int
  BY TimesAre
<1>5. ASSUME NEW b \in FetchedSet(rows) PROVE b \in CompleteBy(asOf)
  <2>1. IsApplicable(b) /\ b < FloorToInterval(asOf) /\ \E m \in rows : b = FloorToInterval(m)
    BY DEF FetchedSet, AggregateCandles
  <2>2. b \in Int
    BY <1>1, <1>2, <1>3, <2>1
  <2> QED BY <1>4, <2>1, <2>2, CompleteIs
<1> QED BY <1>5 DEF Fetched, FetchedSet

\* A history with nothing left out holds every complete bucket from the first day asked for.
LEMMA WholeFetchIs ==
  ASSUME asOf \in Times, NEW first \in Nat, first = PriorTradingDay(Today,
         LookbackSessions(spec.bars))
  PROVE  FetchedSet(FetchRange) = {b \in CompleteBy(asOf) : DayOf(b) >= first}
<1> DEFINE x == first * DayLength
<1>1. x \in Int /\ DayOf(x) = first /\ Bucket(x)
  <2>1. x \in Int /\ Bucket(x)
    <3>1. x \in Int
      BY CalendarTypes
    <3>2. \A d \in Int : Bucket(d * DayLength)
      BY Buckets
    <3> QED BY <3>1, <3>2
  <2>2. DayOf(first * DayLength + 0) = first
    BY OfThatDay, CalendarTypes
  <2>3. first * DayLength + 0 = x
    BY <2>1
  <2> QED BY <2>1, <2>2, <2>3
<1>2. FetchRange = {m \in x .. asOf : IsOpen(m)}
  BY DEF FetchRange, TradedMinutes
<1> HIDE DEF x
<1>3. asOf \in Int /\ FloorToInterval(asOf) \in Int /\ FloorToInterval(asOf) <= asOf
  BY TimesAre, FloorIsBucket
<1>4. FetchRange \in Holdings(FetchRange)
  BY DEF Holdings
<1>5. ASSUME NEW b \in FetchedSet(FetchRange)
      PROVE b \in CompleteBy(asOf) /\ DayOf(b) >= first
  <2>1. b \in CompleteBy(asOf)
    BY <1>4, FetchedIs
  <2>2. PICK m \in FetchRange : b = FloorToInterval(m)
    BY DEF FetchedSet, AggregateCandles
  <2>3. m \in Int /\ x <= m
    BY <1>1, <1>2, <1>3
  <2>4. b \in Int /\ Bucket(b) /\ m < b + Interval
    BY <2>2, <2>3, FloorIsBucket
  <2>5. b < x => b + Interval <= x
    BY <1>1, <2>4, NextBucket
  <2>6. x <= b
    BY <1>1, <2>3, <2>4, <2>5, CalendarTypes
  <2>7. DayOf(x) <= DayOf(b)
    BY <1>1, <2>4, <2>6, DaysRise
  <2>8. DayOf(b) \in Int
    BY <2>4, DayAndClock
  <2> QED BY <1>1, <2>1, <2>7, <2>8
<1>6. ASSUME NEW b \in CompleteBy(asOf), DayOf(b) >= first
      PROVE b \in FetchedSet(FetchRange)
  <2>1. /\ b \in Int /\ IsApplicable(b) /\ b < FloorToInterval(asOf) /\ Bucket(b)
        /\ DayOf(b) \in TradingDays /\ DayOf(b) \in Nat
    BY CompleteDays
  <2>2. SessionStart <= ClockOf(b) /\ ClockOf(b) + Interval <= SquareOffAt /\ ClockOf(b) \in Nat
    BY <2>1, ApplicableIs, DayAndClock
  <2>3. IsOpen(b)
    BY <2>1, <2>2, CalendarTypes DEF IsOpen
  <2>4. x <= b
    <3> SUFFICES ASSUME b < x PROVE FALSE
      BY <1>1, <2>1
    <3>1. b + Interval <= x
      BY <1>1, <2>1, NextBucket
    <3> DEFINE y == DayOf(b) * DayLength
    <3>2. y \in Int /\ b = y + ClockOf(b)
      BY <2>1, DayAndClock, CalendarTypes
    <3>3. x <= y
      <4>1. CASE first = DayOf(b)
        BY <3>2, <4>1 DEF x
      <4>2. CASE first < DayOf(b)
        <5>1. first * DayLength + DayLength <= DayOf(b) * DayLength
          BY <2>1, <4>2, DaysAreApart
        <5>2. x + DayLength <= y
          BY <5>1 DEF x
        <5> HIDE DEF y
        <5> QED BY <1>1, <3>2, <5>2, CalendarTypes
      <4> QED BY <1>6, <2>1, <4>1, <4>2
    <3> HIDE DEF y
    <3> QED BY <1>1, <2>1, <2>2, <3>1, <3>2, <3>3, CalendarTypes
  <2>5. b \in FetchRange
    BY <1>1, <1>2, <1>3, <2>1, <2>3, <2>4
  <2>6. FloorToInterval(b) = b
    <3>1. b % Interval = 0
      BY <2>1, Buckets
    <3> QED BY <2>1, <3>1 DEF FloorToInterval
  <2> QED BY <2>1, <2>5, <2>6 DEF FetchedSet, AggregateCandles
<1> QED BY <1>5, <1>6

-----------------------------------------------------------------------------
(* Enough of it.                                                             *)

\* As many buckets as the sessions asked for hold.
LEMMA SessionsSuffice ==
  ASSUME BucketOffsets # {}, NEW n \in Nat
  PROVE  /\ Cardinality(BucketOffsets) \in Nat /\ Cardinality(BucketOffsets) >= 1 /\ IsFiniteSet(BucketOffsets)
         /\ SessionsNeeded(n) \in Nat /\ SessionsNeeded(n) >= 1
         /\ SessionsNeeded(n) * Cardinality(BucketOffsets) >= n
<1> DEFINE N == Cardinality(BucketOffsets)
           c == CeilDiv(n, N)
           q == SessionsNeeded(n)
<1>1. IsFiniteSet(BucketOffsets)
  <2>1. BucketOffsets \in SUBSET (0 .. SquareOffAt)
    <3> SUFFICES ASSUME NEW o \in BucketOffsets PROVE o \in 0 .. SquareOffAt
      OBVIOUS
    <3>1. o \in Int
      BY DEF BucketOffsets
    <3>2. SessionStart <= o /\ o + Interval <= SquareOffAt
      BY <3>1, OffsetsAre
    <3> QED BY <3>1, <3>2, CalendarTypes
  <2>2. IsFiniteSet(0 .. SquareOffAt)
    BY FS_Interval, CalendarTypes
  <2> QED BY <2>1, <2>2, FS_Subset
<1>2. N \in Nat /\ N >= 1
  BY <1>1, FS_CardinalityType, FS_EmptySet
<1> HIDE DEF N
<1>3. c \in Int /\ N * c >= n
  <2> DEFINE m == n + N - 1
  <2>1. m \in Int /\ m = N * (m \div N) + (m % N) /\ m \div N \in Int /\ m % N \in Int /\ m % N < N
    BY <1>2, FloorDivision
  <2>2. c = m \div N
    BY DEF CeilDiv
  <2> DEFINE y == N * c
  <2>3. y \in Int /\ m = y + (m % N) /\ c \in Int
    BY <1>2, <2>1, <2>2
  <2> HIDE DEF c, y
  <2>4. y >= n
    BY <1>2, <2>1, <2>3
  <2> QED BY <2>3, <2>4 DEF y
<1> HIDE DEF c
<1>4. q = Max({1, c})
  BY DEF SessionsNeeded, N, c
<1>5. q \in {1, c} /\ 1 <= q /\ c <= q
  <2> DEFINE S == {1, c}
  <2>1. S \in SUBSET Int /\ IsFiniteSet(S) /\ S # {}
    <3>1. IsFiniteSet({1}) /\ IsFiniteSet({c})
      BY FS_Singleton
    <3>2. S = {1} \cup {c}
      OBVIOUS
    <3>3. IsFiniteSet(S)
      BY <3>1, <3>2, FS_Union
    <3> QED BY <1>3, <3>3
  <2>2. 1 \in S /\ c \in S /\ q = Max(S)
    BY <1>4
  <2> HIDE DEF S
  <2>3. q \in S /\ \A x \in S : x <= q
    BY <2>1, <2>2, MinAndMax
  <2> QED BY <2>2, <2>3 DEF S
<1> HIDE DEF q
<1>6. q \in Nat /\ q >= 1
  BY <1>3, <1>5
<1>7. q * N >= n
  <2>1. (q - c) * N \in Int /\ (q - c) * N >= 0
    <3> DEFINE d == q - c
    <3>1. d \in Nat
      BY <1>3, <1>5, <1>6
    <3> HIDE DEF d
    <3>2. d * N \in Int /\ d * N >= 0
      BY <1>2, <3>1
    <3> QED BY <3>2 DEF d
  <2>2. q * N = (q - c) * N + N * c
    BY <1>2, <1>3, <1>6
  <2> DEFINE y == N * c
             z == (q - c) * N
  <2>3. y \in Int /\ z \in Int /\ z >= 0 /\ y >= n /\ q * N = z + y
    BY <1>2, <1>3, <2>1, <2>2
  <2> HIDE DEF y, z
  <2> QED BY <2>3
<1> QED BY <1>1, <1>2, <1>6, <1>7 DEF N, q

\* q trading days hold q sessions' worth of buckets.
LEMMA DaysHoldBuckets ==
  ASSUME BucketOffsets # {}, NEW F \in SUBSET TradingDays, IsFiniteSet(F),
         NEW H \in SUBSET Int, IsFiniteSet(H), \A d \in F : SessionBucketStarts(d) \subseteq H
  PROVE  Cardinality(F) * Cardinality(BucketOffsets) <= Cardinality(H)
<1> DEFINE O == BucketOffsets
           D == F \X O
           f == [p \in D |-> p[1] * DayLength + p[2]]
<1>1. IsFiniteSet(O) /\ Cardinality(O) \in Nat
  BY SessionsSuffice
<1>2. IsFiniteSet(D) /\ Cardinality(D) = Cardinality(F) * Cardinality(O)
  BY <1>1, FS_Product
<1>3. ASSUME NEW d \in F, NEW o \in O
      PROVE  /\ d * DayLength + o \in H
             /\ DayOf(d * DayLength + o) = d /\ ClockOf(d * DayLength + o) = o
  <2>1. o \in Int
    BY DEF BucketOffsets
  <2>2. SessionStart <= o /\ o + Interval <= SquareOffAt
    BY <2>1, OffsetsAre
  <2>3. o \in Nat /\ o < DayLength /\ d \in Int /\ d \in TradingDays
    BY <2>1, <2>2, CalendarTypes
  <2>4. d * DayLength + o \in SessionBucketStarts(d)
    BY <2>3 DEF SessionBucketStarts
  <2> QED BY <2>3, <2>4, OfThatDay
<1>4. f \in [D -> H]
  <2> SUFFICES ASSUME NEW p \in D PROVE p[1] * DayLength + p[2] \in H
    OBVIOUS
  <2> QED BY <1>3
<1>5. ASSUME NEW p \in D, NEW r \in D, f[p] = f[r] PROVE p = r
  <2>1. p[1] \in F /\ p[2] \in O /\ r[1] \in F /\ r[2] \in O /\ p = <<p[1], p[2]>> /\ r = <<r[1], r[2]>>
    OBVIOUS
  <2>2. f[p] = p[1] * DayLength + p[2] /\ f[r] = r[1] * DayLength + r[2]
    OBVIOUS
  <2> HIDE DEF f, O
  <2>3. DayOf(f[p]) = p[1] /\ ClockOf(f[p]) = p[2] /\ DayOf(f[r]) = r[1] /\ ClockOf(f[r]) = r[2]
    BY <1>3, <2>1, <2>2
  <2> QED BY <1>5, <2>1, <2>3
<1> HIDE DEF f, D, O
<1>6. f \in Injection(D, H)
  BY <1>4, <1>5 DEF Injection, IsInjective
<1>7. Cardinality(D) <= Cardinality(H)
  BY <1>6, FS_Injection
<1> QED BY <1>2, <1>7 DEF O

\* The complete buckets of the sessions asked for.
AskedFor(n, t) == {b \in CompleteBy(t) : DayOf(b) >= PriorTradingDay(Today, LookbackSessions(n))}

\* They are a newer part of what is complete, and enough.
LEMMA AskedForIs ==
  ASSUME CalendarReaches, NEW t \in Times, NEW n \in Nat, n >= 1,
         SessionsNeeded(n) <= MaxLookback
  PROVE  LET first == PriorTradingDay(Today, SessionsNeeded(n)) IN
         /\ LookbackSessions(n) = SessionsNeeded(n)
         /\ SessionsNeeded(n) \in 1 .. MaxLookback
         /\ first \in PriorDays(Today) /\ first \in Nat
         /\ Rank(PriorDays(Today), first) = SessionsNeeded(n)
         /\ AskedFor(n, t) \in SUBSET CompleteBy(t)
         /\ \A b \in AskedFor(n, t), c \in CompleteBy(t) : c >= b => c \in AskedFor(n, t)
         /\ Cardinality(AskedFor(n, t)) \in Nat /\ n <= Cardinality(AskedFor(n, t))
<1> DEFINE q == SessionsNeeded(n)
           P == PriorDays(Today)
           first == PriorTradingDay(Today, q)
           H == AskedFor(n, t)
           N == Cardinality(BucketOffsets)
           C == CompleteBy(t)
           F == {d \in P : d >= first}
<1>1. q \in Nat /\ q >= 1 /\ N \in Nat /\ q * N >= n
  BY SessionsSuffice DEF CalendarReaches
<1>2. MaxLookback \in Nat /\ Cardinality(P) >= MaxLookback /\ P \in SUBSET Int /\ IsFiniteSet(P)
      /\ Cardinality(P) \in Nat
  BY WarmUpAssumption, PriorDaysAre, CalendarTypes, FS_CardinalityType DEF CalendarReaches
<1>3. LookbackSessions(n) = q
  BY <1>1, <1>2, MinOfTwo DEF LookbackSessions
<1>4. first \in P /\ Rank(P, first) = q
  <2> HIDE DEF q
  <2>1. q <= Cardinality(P)
    BY <1>1, <1>2 DEF q
  <2> QED BY <1>1, <2>1, PriorDaysAre, CalendarTypes
<1>5. first \in Nat /\ first < Today
  BY <1>4, CalendarTypes DEF PriorDays
<1>6. H = {b \in C : DayOf(b) >= first}
  BY <1>3 DEF AskedFor
<1>7. C \in SUBSET Int /\ IsFiniteSet(C)
  BY TimesAre, CompleteIs
<1> HIDE DEF first, H, C
<1>8. H \in SUBSET C /\ H \in SUBSET Int /\ IsFiniteSet(H) /\ Cardinality(H) \in Nat
  BY <1>6, <1>7, FS_Subset, FS_CardinalityType
<1>9. ASSUME NEW b \in H, NEW c \in C, c >= b PROVE c \in H
  <2>1. b \in Int /\ c \in Int /\ DayOf(b) >= first
    BY <1>6, <1>7
  <2>2. DayOf(b) <= DayOf(c) /\ DayOf(b) \in Int /\ DayOf(c) \in Int
    BY <1>9, <2>1, DaysRise, DayAndClock
  <2> QED BY <1>5, <1>6, <2>1, <2>2
<1>10. F \in SUBSET TradingDays /\ IsFiniteSet(F) /\ Cardinality(F) = q
  <2>1. IsFiniteSet(F)
    BY <1>2, FS_Subset
  <2>2. F \in SUBSET TradingDays
    BY DEF PriorDays
  <2> QED BY <1>4, <2>1, <2>2 DEF Rank
<1>11. \A d \in F : SessionBucketStarts(d) \subseteq H
  <2> SUFFICES ASSUME NEW d \in F, NEW b \in SessionBucketStarts(d) PROVE b \in H
    OBVIOUS
  <2>1. d \in Nat /\ d < Today /\ d >= first
    BY CalendarTypes DEF PriorDays
  <2>2. b \in Int /\ IsApplicable(b) /\ DayOf(b) = d
    BY <2>1, StartsAre
  <2>3. t \in Int /\ DayOf(t) = Today /\ FloorToInterval(t) \in Int /\ Today * DayLength \in Nat
        /\ Today * DayLength <= FloorToInterval(t)
    BY TimesAre, FloorIsBucket
  <2>4. b < FloorToInterval(t)
    <3> SUFFICES ASSUME FloorToInterval(t) <= b PROVE FALSE
      BY <2>2, <2>3
    <3>1. Today * DayLength <= b
      BY <2>2, <2>3
    <3>2. DayOf(Today * DayLength + 0) = Today
      <4>1. Today \in Int /\ 0 \in Nat /\ 0 < DayLength
        BY CalendarTypes
      <4> QED BY <4>1, OfThatDay, Zenon
    <3>3. Today * DayLength + 0 = Today * DayLength
      BY <2>3
    <3>4. DayOf(Today * DayLength) <= DayOf(b)
      BY <2>2, <2>3, <3>1, DaysRise
    <3> QED BY <2>1, <2>2, <3>2, <3>3, <3>4, CalendarTypes
  <2>5. b \in C
    BY <2>2, <2>3, <2>4, CompleteIs DEF C
  <2> QED BY <1>6, <2>1, <2>2, <2>5
<1>12. Cardinality(F) * N <= Cardinality(H)
  <2> HIDE DEF F
  <2> QED BY <1>8, <1>10, <1>11, DaysHoldBuckets DEF CalendarReaches
<1>13. n <= Cardinality(H)
  <2> DEFINE y == q * N
  <2>1. y \in Int /\ y >= n /\ y <= Cardinality(H)
    BY <1>1, <1>10, <1>12
  <2> HIDE DEF y
  <2> QED BY <1>8, <2>1
<1> QED BY <1>1, <1>2, <1>3, <1>4, <1>5, <1>8, <1>9, <1>13 DEF first, H, C

\* Going back as far as the budget allows reaches all that was asked for.
LEMMA BackReachesAskedFor ==
  ASSUME CalendarReaches, NEW t \in Times, NEW n \in Nat, n >= 1,
         SessionsNeeded(n) <= MaxLookback
  PROVE  \E k \in 0 .. Budget(t) : Cardinality(BackFrom(RequiredLatest[t], k)) >= n
<1> DEFINE q == SessionsNeeded(n)
           P == PriorDays(Today)
           first == PriorTradingDay(Today, q)
           H == AskedFor(n, t)
           C == CompleteBy(t)
           L == RequiredLatest[t]
           day == DayOf(L)
           D == PriorDays(day)
<1>1. /\ q \in 1 .. MaxLookback /\ first \in P /\ first \in Nat /\ Rank(P, first) = q
      /\ H \in SUBSET C /\ Cardinality(H) \in Nat /\ n <= Cardinality(H)
  BY AskedForIs
<1>2. H = {b \in C : DayOf(b) >= first}
  BY AskedForIs DEF AskedFor
<1>3. L \in C /\ \A b \in C : b <= L
  BY LatestIsNewest
<1>4. day \in Nat /\ L \in Int /\ day \in TradingDays
  BY <1>3, CompleteDays
<1>5. day = Today \/ day = PriorTradingDay(Today, 1)
  BY LatestIsNewest
<1>6. /\ MaxLookback \in Nat /\ MaxLookback >= 1 /\ Cardinality(P) \in Nat /\ Cardinality(P) >= MaxLookback
      /\ P \in SUBSET Int /\ IsFiniteSet(P)
  <2>1. MaxLookback \in Nat /\ MaxLookback >= 1
    BY WarmUpAssumption
  <2>2. Cardinality(P) >= MaxLookback /\ P \in SUBSET Int /\ IsFiniteSet(P) /\ Cardinality(P) \in Nat
    BY PriorDaysAre, CalendarTypes, FS_CardinalityType DEF CalendarReaches
  <2> QED BY <2>1, <2>2
<1>7. D \in SUBSET Int /\ IsFiniteSet(D) /\ Cardinality(D) \in Nat
  BY <1>4, PriorDaysAre, FS_CardinalityType
<1> HIDE DEF first, H, C, L, q, day
<1>8. Budget(t) = IF MaxLookback <= Cardinality(D) THEN MaxLookback ELSE Cardinality(D)
  BY <1>6, <1>7, MinOfTwo DEF Budget, day, L
<1>9. \E k \in 0 .. Budget(t) : \A b \in H : DayOf(b) # day => DayOf(b) \in D /\ Rank(D, DayOf(b)) <= k
  <2>1. ASSUME NEW b \in H, DayOf(b) # day
        PROVE DayOf(b) \in D /\ DayOf(b) >= first /\ DayOf(b) \in Nat
    <3>1. b \in C /\ b \in CompleteBy(t) /\ DayOf(b) >= first /\ b <= L
      BY <1>1, <1>2, <1>3 DEF C
    <3>2. b \in Int /\ DayOf(b) \in Nat /\ DayOf(b) \in TradingDays
      BY <3>1, CompleteDays
    <3>3. DayOf(b) <= DayOf(L)
      BY <1>4, <3>1, <3>2, DaysRise
    <3> QED BY <1>4, <2>1, <3>1, <3>2, <3>3 DEF day, PriorDays
  <2>2. ASSUME NEW e \in P, e >= first PROVE Rank(P, e) \in Nat /\ Rank(P, e) <= q
    <3>1. e \in Int /\ Rank(P, e) \in Nat
      BY <1>6, RankIsStrict
    <3>2. first < e => Rank(P, e) < Rank(P, first)
      BY <1>1, <1>6, <3>1, RankIsStrict
    <3>3. first = e => Rank(P, e) = q
      BY <1>1
    <3> QED BY <1>1, <2>2, <3>1, <3>2, <3>3
  <2>3. CASE day = Today
    <3>1. D = P
      BY <2>3
    <3>2. q \in 0 .. Budget(t)
      BY <1>1, <1>6, <1>8, <3>1
    <3> QED BY <2>1, <2>2, <3>1, <3>2
  <2>4. CASE day = PriorTradingDay(Today, 1)
    <3>1. day \in P /\ Rank(P, day) = 1
      BY <1>6, <2>4, PriorDaysAre, CalendarTypes
    <3>2. D = P \ {day}
      <4>1. ASSUME NEW e \in P, e # day PROVE e \in D
        <5>1. e \in TradingDays /\ e \in Nat /\ Rank(P, e) \in Nat /\ Rank(P, e) >= 1
          BY <1>6, CalendarTypes, RankIsStrict DEF PriorDays
        <5>2. ~(day < e)
          <6>1. day < e => Rank(P, e) < Rank(P, day)
            BY <1>4, <1>6, <3>1, <5>1, RankIsStrict
          <6> QED BY <3>1, <5>1, <6>1
        <5> QED BY <1>4, <4>1, <5>1, <5>2 DEF PriorDays
      <4>2. ASSUME NEW e \in D PROVE e \in P /\ e # day
        BY <1>4, <3>1, CalendarTypes DEF PriorDays
      <4> QED BY <4>1, <4>2
    <3>3. Cardinality(D) = Cardinality(P) - 1
      BY <1>6, <3>1, <3>2, FS_RemoveElement
    <3>4. q - 1 \in 0 .. Budget(t)
      BY <1>1, <1>6, <1>7, <1>8, <3>3
    <3>5. ASSUME NEW e \in D, e >= first PROVE Rank(D, e) <= q - 1
      <4>1. e \in P /\ e \in Int /\ e <= day
        <5>1. e < day
          BY DEF PriorDays
        <5> QED BY <1>4, <1>7, <3>2, <5>1
      <4> DEFINE A == {f \in P : f >= e}
                 B == {f \in D : f >= e}
      <4>2. IsFiniteSet(A) /\ day \in A
        BY <1>4, <1>6, <3>1, <4>1, FS_Subset
      <4>3. B = A \ {day}
        BY <3>2
      <4> HIDE DEF A, B
      <4>4. Cardinality(B) = Cardinality(A) - 1
        BY <4>2, <4>3, FS_RemoveElement
      <4>5. Cardinality(A) = Rank(P, e) /\ Cardinality(B) = Rank(D, e)
        BY DEF Rank, A, B
      <4>6. Rank(P, e) \in Nat /\ Rank(P, e) <= q
        BY <2>2, <3>5, <4>1
      <4> QED BY <1>1, <4>4, <4>5, <4>6
    <3> QED BY <2>1, <3>4, <3>5
  <2> QED BY <1>5, <2>3, <2>4
<1>10. PICK k \in 0 .. Budget(t) : \A b \in H : DayOf(b) # day => DayOf(b) \in D /\ Rank(D, DayOf(b)) <= k
  BY <1>9
<1>11. k \in Nat /\ k <= Cardinality(D)
  BY <1>6, <1>7, <1>8, <1>10
<1> DEFINE T == BackFrom(L, k)
<1>12. T = {b \in C : Reaches(day, k, b)}
  <2>1. k <= Cardinality(PriorDays(DayOf(RequiredLatest[t])))
    BY <1>11 DEF day, L
  <2> QED BY <1>11, <2>1, BackFromIs DEF L, C, day
<1> HIDE DEF T
<1>13. H \subseteq T
  BY <1>1, <1>10, <1>12 DEF Reaches
<1>14. IsFiniteSet(C) /\ T \in SUBSET C
  BY <1>12, TimesAre, CompleteIs DEF C
<1>15. Cardinality(H) <= Cardinality(T) /\ Cardinality(T) \in Nat
  BY <1>13, <1>14, FS_Subset, FS_CardinalityType
<1>16. Cardinality(T) >= n
  BY <1>1, <1>15
<1> QED BY <1>10, <1>16 DEF T, L

\* A whole fetch has no gap inside a day.
LEMMA WholeHasNoGap ==
  ASSUME NEW t \in Times, NEW H \in SUBSET CompleteBy(t),
         \A b \in H, c \in CompleteBy(t) : c >= b => c \in H
  PROVE  ~HasInternalGaps(InOrder(H))
<1> DEFINE h == InOrder(H)
           C == CompleteBy(t)
<1>1. H \in SUBSET Int /\ IsFiniteSet(H)
  BY TimesAre, CompleteIs, FS_Subset
<1>2. h \in Seq(H) /\ \A b \in H : \E i \in 1 .. Len(h) : h[i] = b
  BY <1>1, InOrderIs
<1>3. \A i, j \in 1 .. Len(h) : i < j => h[i] < h[j]
  BY <1>1, InOrderRises
<1> HIDE DEF h
<1> SUFFICES ASSUME NEW i \in 1 .. Len(h) - 1, DayOf(h[i]) = DayOf(h[i + 1]), h[i + 1] - h[i] # Interval
             PROVE  FALSE
  BY DEF HasInternalGaps, h
<1>4. i \in 1 .. Len(h) /\ i + 1 \in 1 .. Len(h) /\ i \in Int /\ Len(h) \in Nat
  BY <1>2
<1> DEFINE a == h[i]
           z == h[i + 1]
           c == a + Interval
<1>5. a \in H /\ z \in H /\ a < z /\ DayOf(a) = DayOf(z) /\ z - a # Interval
  <2>1. h[i] \in H /\ h[i + 1] \in H
    <3>1. \A k \in 1 .. Len(h) : h[k] \in H
      BY <1>2
    <3> QED BY <1>4, <3>1
  <2>2. h[i] < h[i + 1]
    BY <1>3, <1>4
  <2> QED BY <2>1, <2>2
<1> HIDE DEF a, z
<1>6. /\ a \in Int /\ Bucket(a) /\ DayOf(a) \in TradingDays /\ DayOf(a) \in Nat /\ IsApplicable(a)
      /\ z \in Int /\ Bucket(z) /\ z < FloorToInterval(t) /\ IsApplicable(z)
  BY <1>5, CompleteDays
<1>7. c \in Int /\ Bucket(c) /\ a < c
  BY <1>6, Buckets, CalendarTypes
<1>8. c < z
  <2>1. c <= z
    BY <1>5, <1>6, NextBucket
  <2> QED BY <1>5, <1>6, <1>7, <2>1, CalendarTypes
<1>9. IsApplicable(c)
  <2>1. DayOf(a) <= DayOf(c) /\ DayOf(c) <= DayOf(z) /\ DayOf(c) \in Int
    BY <1>6, <1>7, <1>8, DaysRise, DayAndClock
  <2>2. DayOf(c) = DayOf(a)
    BY <1>5, <1>6, <2>1
  <2>3. ClockOf(c) - ClockOf(a) = c - a /\ ClockOf(z) - ClockOf(c) = z - c
    BY <1>5, <1>6, <1>7, <2>2, DaysRise
  <2>4. ClockOf(a) \in Int /\ ClockOf(c) \in Int /\ ClockOf(z) \in Int
    BY <1>6, <1>7, DayAndClock
  <2>5. SessionStart <= ClockOf(a) /\ ClockOf(z) + Interval <= SquareOffAt
    BY <1>6, ApplicableIs
  <2> HIDE DEF c
  <2>6. SessionStart <= ClockOf(c) /\ ClockOf(c) + Interval <= SquareOffAt
    <3>1. ClockOf(a) <= ClockOf(c)
      BY <1>6, <1>7, <2>3, <2>4
    <3>2. ClockOf(c) <= ClockOf(z)
      BY <1>6, <1>7, <1>8, <2>3, <2>4
    <3>3. Interval \in Nat /\ SessionStart \in Nat /\ SquareOffAt \in Nat
      BY CalendarTypes
    <3> QED BY <2>4, <2>5, <3>1, <3>2, <3>3
  <2> QED BY <1>6, <1>7, <2>2, <2>6, ApplicableIs
<1>10. c \in H
  <2>1. FloorToInterval(t) \in Int /\ t \in Int
    BY TimesAre, FloorIsBucket
  <2>2. c < FloorToInterval(t)
    BY <1>6, <1>7, <1>8, <2>1
  <2>3. c \in C
    BY <1>7, <1>9, <2>1, <2>2, CompleteIs
  <2>4. c >= a
    BY <1>6, <1>7
  <2> QED BY <1>5, <2>3, <2>4
<1>11. PICK j \in 1 .. Len(h) : h[j] = c
  BY <1>2, <1>10
<1> HIDE DEF c
<1>12. j \in Int
  BY <1>4
<1>13. ~(j <= i)
  <2>1. j < i => c < a
    BY <1>3, <1>4, <1>11 DEF a
  <2>2. j = i => c = a
    BY <1>11 DEF a
  <2> QED BY <1>4, <1>6, <1>7, <1>12, <2>1, <2>2
<1>14. ~(i + 1 <= j)
  <2>1. i + 1 < j => z < c
    BY <1>3, <1>4, <1>11 DEF z
  <2>2. i + 1 = j => z = c
    BY <1>11 DEF z
  <2> QED BY <1>4, <1>6, <1>7, <1>8, <1>12, <2>1, <2>2
<1> QED BY <1>4, <1>12, <1>13, <1>14

\* A fetch that left nothing out is verified.
LEMMA WholeFetchWarms ==
  ASSUME CalendarReaches, NEW t \in Times, NEW s, s.bars \in BarCounts, s.bars \in Nat,
         s.bars >= 1,
         SessionsNeeded(s.bars) <= MaxLookback
  PROVE  Verified(s, t, InOrder(AskedFor(s.bars, t))) = "WARMED"
<1> DEFINE n == s.bars
           H == AskedFor(n, t)
           h == InOrder(H)
           C == CompleteBy(t)
           E == ExpectedRecentBuckets[n][t]
<1>1. /\ H \in SUBSET C /\ \A b \in H, c \in C : c >= b => c \in H
      /\ n <= Cardinality(H)
  BY AskedForIs
<1>2. C \in SUBSET Int /\ IsFiniteSet(C) /\ H \in SUBSET Int /\ IsFiniteSet(H)
  <2>1. C \in SUBSET Int /\ IsFiniteSet(C)
    BY TimesAre, CompleteIs
  <2> HIDE DEF C, H
  <2> QED BY <1>1, <2>1, FS_Subset
<1>3. E # {} /\ n <= Cardinality(C) /\ E = Newest(n, C)
  <2>1. E # {}
    BY BackReachesAskedFor, ExpectedIs
  <2> QED BY <2>1, ExpectedIs
<1>4. ~HasInternalGaps(h)
  <2> HIDE DEF H
  <2> QED BY <1>1, WholeHasNoGap
<1> HIDE DEF H, C, E, n
<1>5. h \in Seq(H) /\ (\A b \in H : \E i \in 1 .. Len(h) : h[i] = b) /\ Len(h) = Cardinality(H)
      /\ \A i, j \in 1 .. Len(h) : i < j => h[i] < h[j]
  BY <1>2, InOrderIs, InOrderRises
<1> HIDE DEF h
<1>6. ToSet(h) = H
  <2>1. ToSet(h) = {h[i] : i \in 1 .. Len(h)} /\ \A i \in 1 .. Len(h) : h[i] \in H
    BY <1>5 DEF ToSet
  <2> QED BY <1>5, <2>1
<1>7. PICK e \in C : E = {b \in C : b >= e}
  BY <1>2, <1>3, NewestIsATail DEF n
<1>8. E \subseteq H
  <2>1. Newest(n, H) = Newest(n, C)
    BY <1>1, <1>2, NewestOfATail DEF n
  <2>2. Newest(n, H) \subseteq H
    BY DEF Newest
  <2> QED BY <1>3, <2>1, <2>2
<1>9. E \in SUBSET Int /\ IsFiniteSet(E)
  BY <1>2, <1>8, FS_Subset
<1>10. Min(E) \in E /\ Max(E) \in E /\ \A b \in E : Min(E) <= b /\ b <= Max(E)
  BY <1>3, <1>9, MinAndMax
<1>11. {b \in ToSet(h) : Min(E) <= b /\ b <= Max(E)} = E
  <2>1. ASSUME NEW b \in H, Min(E) <= b PROVE b \in E
    <3>1. b \in C /\ b \in Int /\ Min(E) \in Int /\ e \in Int /\ Min(E) >= e
      BY <1>1, <1>2, <1>7, <1>9, <1>10
    <3>2. b >= e
      BY <2>1, <3>1
    <3> QED BY <1>7, <3>1, <3>2
  <2> QED BY <1>6, <1>8, <1>10, <2>1
<1>12. \A i \in 1 .. Len(h) : IsApplicable(h[i])
  <2>1. \A b \in C : IsApplicable(b)
    BY CompleteDays DEF C
  <2> QED BY <1>1, <1>5, <2>1
<1>13. \A i \in 1 .. Len(h) - 1 : h[i] < h[i + 1]
  <2> SUFFICES ASSUME NEW i \in 1 .. Len(h) - 1 PROVE h[i] < h[i + 1]
    OBVIOUS
  <2>1. i \in 1 .. Len(h) /\ i + 1 \in 1 .. Len(h) /\ i < i + 1
    BY <1>5
  <2> QED BY <1>5, <2>1
<1> QED BY <1>3, <1>4, <1>11, <1>12, <1>13 DEF Verified, E, h, H, n

-----------------------------------------------------------------------------
(* The inductive invariant.                                                  *)

Statuses == {"none", "WARMED", "PARTIAL", "COLD_START",
             "SKIPPED_EMPTY", "SKIPPED_SESSION_LOCAL", "SKIPPED_VOLUME"}

EngineTypes ==
  /\ spec \in Specs \cup {NoSpec, RaisingSpec} /\ path \in {"manager", "fallback", "none"}
  /\ at \in {"new", "fetch", "ask", "replay", "warmed", "live", "over", "dead"}
  /\ asOf \in {None} \cup Nat /\ attempt \in 0 .. MaxAttempts
  /\ replayed \in Nat /\ toReplay \in Seq(Int) /\ (at = "replay" => replayed <= Len(toReplay))
  /\ status \in Statuses
  /\ trusted \in BOOLEAN /\ entryBlocked \in BOOLEAN /\ entered \in BOOLEAN /\ wholeHistory \in BOOLEAN
ClockInv == clock \in Times /\ tickAt \in Int
StrategyInv ==
  /\ emaCount \in 0 .. Slow
  /\ cross \in CrossType /\ cross.count \in 0 .. Confirm - 1

\* Nothing is concluded before the end.
NothingYet ==
  /\ at \in {"new", "fetch", "ask"} => ~wholeHistory /\ replayed = 0
  /\ at \in {"new", "fetch", "ask", "replay"} => ~trusted

\* The manager is asked for what a strategy needs, at a time of today.
ManagerAsks == HasSpec /\ spec.bars >= 1 /\ asOf \in Times

\* What it replays are complete buckets in order, and all asked for if nothing was left out.
ManagerReplays ==
  /\ \E S \in SUBSET CompleteBy(asOf) : toReplay = InOrder(S)
  /\ wholeHistory /\ SessionsNeeded(spec.bars) <= MaxLookback => toReplay = InOrder(AskedFor(spec.bars, asOf))

FetchInv ==
  /\ at = "fetch" => path = "manager"
  /\ at \in {"fetch", "replay"} /\ path = "manager" => ManagerAsks
  /\ at = "replay" /\ path = "manager" => ManagerReplays
  /\ wholeHistory => path = "manager" /\ at \in {"replay", "warmed"}

\* Entries that are not blocked are of a known requirement, and a met one.
BlockInv ==
  /\ Constructible(spec, path)
  /\ path = "fallback" \/ at \notin {"ask", "replay"} \/ (at = "replay" /\ path = "manager")
  /\ spec = RaisingSpec => at \in {"new", "warmed", "live", "over", "dead"}
  /\ at \in {"warmed", "live", "over"} /\ ~entryBlocked =>
       spec # RaisingSpec /\ (HasSpec /\ spec.continuity => status = "WARMED")
  /\ entered => at \in {"live", "over"} /\ ~entryBlocked

SoundInv ==
  /\ EngineTypes /\ ClockInv /\ StrategyInv /\ NothingYet /\ FetchInv /\ BlockInv
  /\ TrustedIsCurrent /\ CompleteHistoryWarms

LEMMA SpecsAre ==
  ASSUME NEW s \in Specs
  PROVE  s.bars \in BarCounts /\ s.bars \in Nat
<1>1. PICK indicators \in IndicatorSets : s = FromIndicators(indicators)
  BY DEF Specs
<1> DEFINE spanning == {i \in indicators : ~i.local}
           needs == {i.bars : i \in spanning}
           f == [i \in spanning |-> i.bars]
           S == {0} \cup needs
<1>2. IsFiniteSet(indicators) /\ \A i \in indicators : i.bars \in Nat
  BY WarmUpAssumption
<1>3. s.bars = Max(S)
  BY <1>1 DEF FromIndicators
<1>4. IsFiniteSet(spanning)
  <2>1. spanning \subseteq indicators
    OBVIOUS
  <2> HIDE DEF spanning
  <2> QED BY <1>2, <2>1, FS_Subset
<1>5. f \in Surjection(spanning, needs)
  <2>1. f \in [spanning -> needs] /\ \A b \in needs : \E i \in spanning : f[i] = b
    OBVIOUS
  <2> HIDE DEF f, needs, spanning
  <2> QED BY <2>1 DEF Surjection
<1>6. needs \subseteq Nat
  BY <1>2
<1> HIDE DEF f, needs, spanning
<1>7. IsFiniteSet(needs)
  BY <1>4, <1>5, FS_Surjection
<1>8. IsFiniteSet(S) /\ S \in SUBSET Nat /\ S # {}
  BY <1>6, <1>7, FS_AddElement
<1> HIDE DEF S
<1>9. Max(S) \in S
  BY <1>8, MinAndMax
<1> QED BY <1>3, <1>8, <1>9 DEF BarCounts

LEMMA SpecIs ==
  ASSUME EngineTypes, HasSpec
  PROVE  spec \in Specs /\ spec.bars \in BarCounts /\ spec.bars \in Nat
BY SpecsAre DEF EngineTypes, HasSpec

LEMMA SoundInitInv == WarmUpInit => SoundInv
<1> SUFFICES ASSUME WarmUpInit PROVE SoundInv
  OBVIOUS
<1>0. /\ at = "new" /\ asOf = None /\ attempt = 0 /\ toReplay = <<>> /\ replayed = 0
      /\ status = "none" /\ trusted = FALSE /\ entryBlocked = FALSE
      /\ emaCount = 0 /\ cross = FreshCross /\ tickAt = clock
      /\ entered = FALSE /\ wholeHistory = FALSE /\ Constructible(spec, path)
      /\ spec \in Specs \cup {NoSpec, RaisingSpec}
  BY DEF WarmUpInit
<1>1. path \in {"manager", "fallback", "none"}
  BY DEF WarmUpInit
<1>2. EngineTypes
  <2>1. 0 \in 0 .. MaxAttempts
    BY WarmUpAssumption
  <2>2. replayed \in Nat /\ toReplay \in Seq(Int) /\ at # "replay"
    BY <1>0
  <2>3. trusted \in BOOLEAN /\ entryBlocked \in BOOLEAN /\ entered \in BOOLEAN /\ wholeHistory \in BOOLEAN
    BY <1>0
  <2> QED BY <1>0, <1>1, <2>1, <2>2, <2>3 DEF EngineTypes, Statuses
<1>3. ClockInv
  <2>1. PICK m \in Boots : clock = Today * DayLength + m
    BY DEF WarmUpInit
  <2>2. m \in Nat /\ m < DayLength
    BY WarmUpAssumption
  <2>3. (Today + 1) * DayLength = Today * DayLength + DayLength /\ Today * DayLength \in Int
    BY CalendarTypes
  <2> DEFINE x == Today * DayLength
             y == (Today + 1) * DayLength
  <2> HIDE DEF x, y
  <2>4. x \in Int /\ y = x + DayLength /\ clock = x + m
    BY <2>1, <2>3 DEF x, y
  <2>5. clock \in x .. y - 1
    BY <2>2, <2>4, CalendarTypes
  <2> QED BY <1>0, <2>4, <2>5 DEF ClockInv, Times, x, y
<1>4. StrategyInv
  BY <1>0, WarmUpAssumption DEF StrategyInv, FreshCross, CrossType, Sides
<1>5. NothingYet /\ FetchInv /\ BlockInv /\ TrustedIsCurrent /\ CompleteHistoryWarms
  BY <1>0 DEF NothingYet, FetchInv, BlockInv, TrustedIsCurrent, CompleteHistoryWarms
<1> QED BY <1>2, <1>3, <1>4, <1>5 DEF SoundInv

\* What the head of _warm_up decides.
LEMMA BeginIs ==
  ASSUME BeginWarmUp
  PROVE  /\ at = "new" /\ UNCHANGED <<spec, path, toReplay, replayed, clock, strategy, live, past>>
         /\ \/ /\ spec = RaisingSpec /\ at' = "warmed" /\ entryBlocked' = TRUE
               /\ UNCHANGED <<asOf, attempt, status, trusted>>
            \/ /\ path = "manager" /\ HasSpec /\ Gate(spec) = "FETCH" /\ asOf' = clock
               /\ at' = "fetch" /\ attempt' = 1 /\ UNCHANGED <<status, trusted, entryBlocked>>
            \/ /\ path = "manager" /\ HasSpec /\ Gate(spec) # "FETCH" /\ asOf' = clock
               /\ Concludes(Gate(spec)) /\ UNCHANGED attempt
            \/ /\ path = "fallback" /\ spec # RaisingSpec /\ at' = "ask"
               /\ UNCHANGED <<asOf, attempt, status, trusted, entryBlocked>>
            \/ /\ path # "fallback" /\ spec # RaisingSpec /\ ~(path = "manager" /\ HasSpec) /\ at' = "warmed"
               /\ UNCHANGED <<asOf, attempt, status, trusted, entryBlocked>>
<1>1. at = "new" /\ UNCHANGED <<spec, path, toReplay, replayed, clock, strategy, live, past>>
  BY DEF BeginWarmUp
<1>2. CASE spec = RaisingSpec
  BY <1>1, <1>2 DEF BeginWarmUp, HasSpec
<1>3. CASE path = "manager" /\ HasSpec
  BY <1>1, <1>3 DEF BeginWarmUp, HasSpec
<1>4. CASE path = "fallback" /\ spec # RaisingSpec
  BY <1>1, <1>4 DEF BeginWarmUp, HasSpec
<1>5. CASE path # "fallback" /\ spec # RaisingSpec /\ ~(path = "manager" /\ HasSpec)
  BY <1>1, <1>5 DEF BeginWarmUp, HasSpec
<1> QED BY <1>2, <1>3, <1>4, <1>5

LEMMA GateIs ==
  ASSUME NEW s, s.bars \in Nat
  PROVE  /\ Gate(s) \in {"SKIPPED_EMPTY", "SKIPPED_SESSION_LOCAL", "SKIPPED_VOLUME", "FETCH"}
         /\ Gate(s) = "FETCH" => s.bars >= 1
BY DEF Gate

\* Not worth keeping: nothing was replayed in full.
LEMMA NotTrusted ==
  ASSUME ~trusted', ~wholeHistory'
  PROVE  TrustedIsCurrent' /\ CompleteHistoryWarms'
BY DEF TrustedIsCurrent, CompleteHistoryWarms

LEMMA BeginKeeps == SoundInv /\ BeginWarmUp => SoundInv'
<1> SUFFICES ASSUME SoundInv, BeginWarmUp PROVE SoundInv'
  OBVIOUS
<1>1. /\ at = "new" /\ UNCHANGED <<spec, path, toReplay, replayed, clock>>
      /\ UNCHANGED <<emaCount, cross, tickAt, wholeHistory, entered>>
  BY BeginIs DEF strategy, live, past
<1>2. EngineTypes /\ ClockInv /\ StrategyInv /\ NothingYet /\ BlockInv
  BY DEF SoundInv
<1>3. /\ ~wholeHistory /\ replayed = 0 /\ ~trusted /\ ~entered /\ Constructible(spec, path)
      /\ entered' = entered
  BY <1>1, <1>2 DEF NothingYet, BlockInv
<1>4. clock \in Nat /\ clock \in Times /\ 1 \in 0 .. MaxAttempts
  BY <1>2, TimesAre, WarmUpAssumption DEF ClockInv
<1>5. ClockInv' /\ StrategyInv'
  BY <1>1, <1>2 DEF ClockInv, StrategyInv
<1>6. Constructible(spec, path)'
  BY <1>1, <1>3
<1>7. ASSUME at' = "warmed", asOf' \in {None} \cup Nat, UNCHANGED attempt, trusted' = FALSE,
             status' \in Statuses,
             entryBlocked' \in BOOLEAN,
             ~entryBlocked' => spec # RaisingSpec /\ (HasSpec /\ spec.continuity => status' = "WARMED")
      PROVE  SoundInv'
  <2>1. EngineTypes'
    BY <1>1, <1>2, <1>7 DEF EngineTypes
  <2>2. NothingYet' /\ FetchInv'
    BY <1>1, <1>3, <1>7 DEF NothingYet, FetchInv
  <2>3. BlockInv'
    BY <1>1, <1>3, <1>6, <1>7 DEF BlockInv, HasSpec
  <2>4. TrustedIsCurrent' /\ CompleteHistoryWarms'
    BY <1>1, <1>3, <1>7, NotTrusted
  <2> QED BY <1>5, <2>1, <2>2, <2>3, <2>4 DEF SoundInv
<1>8. ASSUME at' \in {"fetch", "ask"}, asOf' \in {None} \cup Nat, attempt' \in 0 .. MaxAttempts,
             UNCHANGED <<status, trusted, entryBlocked>>, spec # RaisingSpec,
             at' = "fetch" => path = "manager" /\ HasSpec /\ spec.bars >= 1 /\ asOf' = clock,
             at' = "ask" => path = "fallback"
      PROVE  SoundInv'
  <2>1. EngineTypes'
    BY <1>1, <1>2, <1>8 DEF EngineTypes
  <2>2. NothingYet'
    BY <1>1, <1>3, <1>8 DEF NothingYet
  <2>3. FetchInv'
    <3>1. (at' = "fetch" => path' = "manager") /\ ~wholeHistory' /\ at' # "replay"
      BY <1>1, <1>3, <1>8
    <3>2. at' = "fetch" => ManagerAsks'
      BY <1>1, <1>4, <1>8 DEF ManagerAsks, HasSpec
    <3> QED BY <3>1, <3>2 DEF FetchInv
  <2>4. BlockInv'
    BY <1>1, <1>3, <1>6, <1>8 DEF BlockInv
  <2>5. TrustedIsCurrent' /\ CompleteHistoryWarms'
    BY <1>1, <1>3, <1>8, NotTrusted
  <2> QED BY <1>5, <2>1, <2>2, <2>3, <2>4, <2>5 DEF SoundInv
<1>9. CASE spec = RaisingSpec /\ at' = "warmed" /\ entryBlocked' = TRUE
           /\ UNCHANGED <<asOf, attempt, status, trusted>>
  <2>1. asOf' \in {None} \cup Nat /\ trusted' = FALSE
    BY <1>2, <1>3, <1>9 DEF EngineTypes
  <2>2. status' \in Statuses
    BY <1>2, <1>9 DEF EngineTypes
  <2> QED BY <1>7, <1>9, <2>1, <2>2
<1>10. CASE /\ path = "manager" /\ HasSpec /\ Gate(spec) = "FETCH" /\ asOf' = clock
            /\ at' = "fetch" /\ attempt' = 1 /\ UNCHANGED <<status, trusted, entryBlocked>>
  <2>1. spec.bars >= 1 /\ spec # RaisingSpec
    BY <1>2, <1>10, SpecIs, GateIs DEF HasSpec
  <2>2. at' \in {"fetch", "ask"} /\ at' # "ask" /\ asOf' \in {None} \cup Nat /\ attempt' \in 0 .. MaxAttempts
    BY <1>4, <1>10
  <2> QED BY <1>8, <1>10, <2>1, <2>2
<1>11. CASE /\ path = "manager" /\ HasSpec /\ Gate(spec) # "FETCH" /\ asOf' = clock
            /\ Concludes(Gate(spec)) /\ UNCHANGED attempt
  <2>1. /\ at' = "warmed" /\ status' = Gate(spec) /\ trusted' = (Gate(spec) = "WARMED")
        /\ entryBlocked' = EntryBlockedBy(spec, Gate(spec))
    BY <1>11 DEF Concludes
  <2>2. Gate(spec) \in {"SKIPPED_EMPTY", "SKIPPED_SESSION_LOCAL", "SKIPPED_VOLUME", "FETCH"}
    BY <1>2, <1>11, SpecIs, GateIs
  <2>3. trusted' = FALSE /\ status' \in Statuses
    BY <1>11, <2>1, <2>2 DEF Statuses
  <2>4. entryBlocked' \in BOOLEAN /\ (~entryBlocked' => (spec.continuity => status' = "WARMED"))
    BY <2>1 DEF EntryBlockedBy
  <2>5. spec # RaisingSpec /\ asOf' \in {None} \cup Nat
    BY <1>4, <1>11 DEF HasSpec
  <2> QED BY <1>7, <1>11, <2>1, <2>3, <2>4, <2>5
<1>12. CASE /\ path = "fallback" /\ spec # RaisingSpec /\ at' = "ask"
            /\ UNCHANGED <<asOf, attempt, status, trusted, entryBlocked>>
  <2>1. asOf' \in {None} \cup Nat /\ attempt' \in 0 .. MaxAttempts
    BY <1>2, <1>12 DEF EngineTypes
  <2> QED BY <1>8, <1>12, <2>1
<1>13. CASE /\ path # "fallback" /\ spec # RaisingSpec /\ ~(path = "manager" /\ HasSpec) /\ at' = "warmed"
            /\ UNCHANGED <<asOf, attempt, status, trusted, entryBlocked>>
  <2>1. asOf' \in {None} \cup Nat /\ trusted' = FALSE /\ status' \in Statuses /\ entryBlocked' \in BOOLEAN
    BY <1>2, <1>3, <1>13 DEF EngineTypes
  <2>2. ~(HasSpec /\ spec.continuity)
    BY <1>3, <1>13 DEF Constructible, HasSpec
  <2> QED BY <1>7, <1>13, <2>1, <2>2
<1> QED BY <1>9, <1>10, <1>11, <1>12, <1>13, BeginIs

\* The manager gives up: an outcome that is not WARMED blocks what needs continuity.
LEMMA GivingUpKeeps ==
  ASSUME SoundInv, at \in {"fetch", "replay"}, path = "manager",
         NEW result \in Statuses, result # "WARMED", Concludes(result), wholeHistory' = FALSE,
         UNCHANGED <<spec, path, asOf, attempt, toReplay, replayed, clock, emaCount, cross, tickAt, entered>>
  PROVE  SoundInv'
<1>1. EngineTypes /\ ClockInv /\ StrategyInv /\ FetchInv /\ BlockInv
  BY DEF SoundInv
<1>2. /\ at' = "warmed" /\ status' = result /\ trusted' = FALSE
      /\ entryBlocked' = EntryBlockedBy(spec, result)
  BY DEF Concludes
<1>3. HasSpec /\ ~entered
  BY <1>1 DEF FetchInv, ManagerAsks, BlockInv
<1>4. EngineTypes'
  <2>1. entryBlocked' \in BOOLEAN
    BY <1>2 DEF EntryBlockedBy
  <2> QED BY <1>1, <1>2, <2>1 DEF EngineTypes
<1>5. ClockInv' /\ StrategyInv'
  BY <1>1 DEF ClockInv, StrategyInv
<1>6. NothingYet' /\ FetchInv'
  BY <1>2 DEF NothingYet, FetchInv
<1>7. BlockInv'
  <2>1. Constructible(spec, path)'
    BY <1>1 DEF BlockInv
  <2>2. ~entryBlocked' => (spec.continuity => status' = "WARMED")
    BY <1>2 DEF EntryBlockedBy
  <2>3. spec' # RaisingSpec
    BY <1>3 DEF HasSpec
  <2>4. (HasSpec /\ spec.continuity)' => spec.continuity
    OBVIOUS
  <2> QED BY <1>2, <1>3, <2>1, <2>2, <2>3, <2>4 DEF BlockInv
<1>8. TrustedIsCurrent' /\ CompleteHistoryWarms'
  BY <1>2, NotTrusted
<1> QED BY <1>4, <1>5, <1>6, <1>7, <1>8 DEF SoundInv

LEMMA FailingKeeps == SoundInv /\ FetchFails => SoundInv'
<1> SUFFICES ASSUME SoundInv, FetchFails PROVE SoundInv'
  OBVIOUS
<1>1. /\ at = "fetch" /\ UNCHANGED <<spec, path, asOf, toReplay, replayed, clock>>
      /\ UNCHANGED <<emaCount, cross, tickAt, wholeHistory, entered>>
  BY DEF FetchFails, strategy, live, past
<1>2. EngineTypes /\ ClockInv /\ StrategyInv /\ NothingYet /\ FetchInv /\ BlockInv
  BY DEF SoundInv
<1>3. path = "manager" /\ ~wholeHistory /\ ~trusted
  BY <1>1, <1>2 DEF FetchInv, NothingYet
<1>4. CASE TriesAgain /\ UNCHANGED <<at, status, trusted, entryBlocked>>
  <2>1. attempt' \in 0 .. MaxAttempts
    BY <1>2, <1>4, WarmUpAssumption DEF TriesAgain, EngineTypes
  <2>2. EngineTypes'
    BY <1>1, <1>2, <1>4, <2>1 DEF EngineTypes
  <2>3. ClockInv' /\ StrategyInv' /\ NothingYet'
    BY <1>1, <1>2, <1>4 DEF ClockInv, StrategyInv, NothingYet
  <2>4. FetchInv'
    <3>1. ManagerAsks'
      BY <1>1, <1>2, <1>3 DEF FetchInv, ManagerAsks, HasSpec
    <3> QED BY <1>1, <1>3, <1>4, <3>1 DEF FetchInv
  <2>5. BlockInv'
    BY <1>1, <1>2, <1>4 DEF BlockInv, Constructible, HasSpec
  <2>6. TrustedIsCurrent' /\ CompleteHistoryWarms'
    BY <1>1, <1>3, <1>4, NotTrusted
  <2> QED BY <2>2, <2>3, <2>4, <2>5, <2>6 DEF SoundInv
<1>5. CASE Concludes("COLD_START") /\ UNCHANGED attempt
  <2>1. wholeHistory' = FALSE /\ "COLD_START" \in Statuses /\ "COLD_START" # "WARMED"
    BY <1>1, <1>2, <1>3 DEF EngineTypes, Statuses
  <2> QED BY <1>1, <1>3, <1>5, <2>1, GivingUpKeeps
<1> QED BY <1>4, <1>5 DEF FetchFails

\* The fetch: what is replayed are complete buckets in order.
LEMMA FetchingKeeps == CalendarReaches /\ SoundInv /\ FetchAnswers => SoundInv'
<1> SUFFICES ASSUME CalendarReaches, SoundInv, FetchAnswers PROVE SoundInv'
  OBVIOUS
<1>1. /\ at = "fetch" /\ UNCHANGED <<spec, path, asOf, attempt, replayed, clock>>
      /\ UNCHANGED <<emaCount, cross, tickAt, entered>>
  BY DEF FetchAnswers, strategy, live
<1>2. EngineTypes /\ ClockInv /\ StrategyInv /\ NothingYet /\ FetchInv /\ BlockInv
  BY DEF SoundInv
<1>3. path = "manager" /\ ~wholeHistory /\ ~trusted /\ replayed = 0 /\ ManagerAsks /\ ~entered
  BY <1>1, <1>2 DEF FetchInv, NothingYet, BlockInv
<1>4. spec.bars \in Nat /\ spec.bars >= 1 /\ asOf \in Times /\ HasSpec
  BY <1>2, <1>3, SpecIs DEF ManagerAsks
<1>5. PICK rows \in Holdings(FetchRange) :
        IF Fetched(rows) = <<>>
         THEN Concludes("COLD_START") /\ UNCHANGED <<toReplay, wholeHistory>>
         ELSE /\ at' = "replay" /\ toReplay' = Fetched(rows) /\ wholeHistory' = (rows = FetchRange)
              /\ UNCHANGED <<status, trusted, entryBlocked>>
  BY DEF FetchAnswers
<1>6. CASE Fetched(rows) = <<>>
  <2>1. wholeHistory' = FALSE /\ "COLD_START" \in Statuses /\ "COLD_START" # "WARMED"
    BY <1>2, <1>3, <1>5, <1>6 DEF EngineTypes, Statuses
  <2> QED BY <1>1, <1>3, <1>5, <1>6, <2>1, GivingUpKeeps
<1>7. CASE Fetched(rows) # <<>>
  <2>1. /\ at' = "replay" /\ toReplay' = Fetched(rows) /\ wholeHistory' = (rows = FetchRange)
        /\ UNCHANGED <<status, trusted, entryBlocked>>
    BY <1>5, <1>7
  <2> DEFINE S == FetchedSet(rows)
  <2>2. Fetched(rows) = InOrder(S) /\ S \in SUBSET CompleteBy(asOf)
    BY <1>4, FetchedIs
  <2> HIDE DEF S
  <2>3. S \in SUBSET Int /\ IsFiniteSet(S)
    BY <1>4, <2>2, TimesAre, CompleteIs, FS_Subset
  <2>4. toReplay' \in Seq(Int) /\ Len(toReplay') \in Nat
    <3> DEFINE h == InOrder(S)
    <3>1. h \in Seq(S)
      BY <2>3, InOrderIs
    <3>2. toReplay' = h
      BY <2>1, <2>2
    <3> HIDE DEF h
    <3> QED BY <2>3, <3>1, <3>2, NumbersInSeq
  <2>5. EngineTypes'
    <3>1. wholeHistory' \in BOOLEAN
      BY <2>1
    <3>2. replayed' <= Len(toReplay')
      BY <1>1, <1>3, <2>4
    <3> QED BY <1>1, <1>2, <2>1, <2>4, <3>1, <3>2 DEF EngineTypes
  <2>6. ClockInv' /\ StrategyInv' /\ NothingYet'
    BY <1>1, <1>2, <1>3, <2>1 DEF ClockInv, StrategyInv, NothingYet
  <2>7. FetchInv'
    <3>1. ManagerAsks'
      BY <1>1, <1>3 DEF ManagerAsks, HasSpec
    <3>2. \E T \in SUBSET CompleteBy(asOf') : toReplay' = InOrder(T)
      BY <1>1, <2>1, <2>2
    <3>3. ASSUME rows = FetchRange, SessionsNeeded(spec.bars) <= MaxLookback
          PROVE  toReplay' = InOrder(AskedFor(spec.bars, asOf))
      <4> DEFINE first == PriorTradingDay(Today, LookbackSessions(spec.bars))
      <4>1. first \in Nat
        BY <1>4, <3>3, AskedForIs
      <4>2. FetchedSet(FetchRange) = {b \in CompleteBy(asOf) : DayOf(b) >= first}
        <5> HIDE DEF first
        <5> QED BY <1>4, <4>1, WholeFetchIs DEF first
      <4> QED BY <2>1, <2>2, <3>3, <4>2 DEF S, AskedFor
    <3>4. ManagerReplays'
      BY <1>1, <2>1, <3>2, <3>3 DEF ManagerReplays
    <3> QED BY <1>1, <1>3, <2>1, <3>1, <3>4 DEF FetchInv
  <2>8. BlockInv'
    BY <1>1, <1>2, <1>3, <2>1 DEF BlockInv, Constructible, HasSpec
  <2>9. TrustedIsCurrent' /\ CompleteHistoryWarms'
    BY <2>1 DEF TrustedIsCurrent, CompleteHistoryWarms
  <2> QED BY <2>5, <2>6, <2>7, <2>8, <2>9 DEF SoundInv
<1> QED BY <1>6, <1>7

LEMMA CountIsBounded ==
  ASSUME NEW c \in CrossType, c.count \in 0 .. Confirm - 1, NEW raw \in Sides
  PROVE  Update(c, raw).count \in 0 .. Confirm - 1
<1>1. Confirm \in Nat /\ Confirm >= 1 /\ c.count \in Nat
  BY WarmUpAssumption
<1>2. CASE ~c.known
  BY <1>1, <1>2 DEF Update, FreshCross
<1>3. CASE c.known /\ raw \in {0, c.side}
  BY <1>1, <1>3 DEF Update, CrossType
<1>4. CASE c.known /\ raw \notin {0, c.side}
  <2>1. Update(c, raw) = TowardsConfirmation(c, raw)
    BY <1>4 DEF Update
  <2> DEFINE n == IF raw = c.candidate THEN c.count + 1 ELSE 1
  <2>2. n \in Nat
    BY <1>1
  <2>3. CASE n < Confirm
    <3>1. TowardsConfirmation(c, raw).count = n
      BY <2>3 DEF TowardsConfirmation, CrossType
    <3> HIDE DEF n
    <3> QED BY <1>1, <2>1, <2>2, <2>3, <3>1
  <2>4. CASE ~(n < Confirm)
    <3>1. TowardsConfirmation(c, raw).count = 0
      BY <2>4 DEF TowardsConfirmation, FreshCross
    <3> QED BY <1>1, <2>1, <3>1
  <2> QED BY <2>3, <2>4
<1> QED BY <1>2, <1>3, <1>4

LEMMA CandleKeepsTypes ==
  ASSUME StrategyInv, NEW raw \in Sides, OnCandle(raw, observed)
  PROVE  StrategyInv'
<1>1. emaCount' \in 0 .. Slow
  <2>1. Slow \in Nat /\ emaCount \in Nat /\ emaCount + 1 \in Int
    BY WarmUpAssumption DEF StrategyInv
  <2>2. emaCount' = IF emaCount + 1 <= Slow THEN emaCount + 1 ELSE Slow
    BY <2>1, MinOfTwo DEF OnCandle, CountClose
  <2> QED BY <2>1, <2>2
<1>2. CASE emaCount' < Slow
  <2>1. cross' = [cross EXCEPT !.signal = 0]
    BY <1>2 DEF OnCandle
  <2>2. cross' \in CrossType /\ cross'.count = cross.count
    BY <2>1 DEF StrategyInv, CrossType, Sides
  <2> QED BY <1>1, <2>2 DEF StrategyInv
<1>3. CASE ~(emaCount' < Slow)
  <2>1. cross' = Update(cross, raw)
    BY <1>3 DEF OnCandle
  <2>2. Update(cross, raw) \in CrossType /\ Update(cross, raw).count \in 0 .. Confirm - 1
    BY UpdateIs, CountIsBounded DEF StrategyInv
  <2> QED BY <1>1, <2>1, <2>2 DEF StrategyInv
<1> QED BY <1>2, <1>3

\* The fallback's candles of the day.
LEMMA ProviderListIs ==
  ASSUME clock \in Times, NEW rows \in Holdings(TradedMinutes(Today,
         FloorToInterval(clock) - 1))
  PROVE  InOrder(AggregateCandles(rows)) \in Seq(Int)
<1> DEFINE x == Today * DayLength
           y == FloorToInterval(clock) - 1
           S == AggregateCandles(rows)
           h == InOrder(S)
<1>1. x \in Int /\ y \in Int
  BY TimesAre, FloorIsBucket
<1>2. rows \in SUBSET (x .. y)
  BY DEF Holdings, TradedMinutes
<1> HIDE DEF x, y
<1>3. S \in SUBSET (x - Interval .. y)
  <2> SUFFICES ASSUME NEW m \in rows PROVE FloorToInterval(m) \in x - Interval .. y
    BY DEF AggregateCandles
  <2>1. m \in Int /\ x <= m /\ m <= y
    BY <1>1, <1>2
  <2>2. FloorToInterval(m) \in Int /\ FloorToInterval(m) <= m /\ m < FloorToInterval(m) + Interval
    BY <2>1, FloorIsBucket
  <2> QED BY <1>1, <2>1, <2>2, CalendarTypes
<1> HIDE DEF S
<1>4. S \in SUBSET Int /\ IsFiniteSet(S)
  <2>1. IsFiniteSet(x - Interval .. y)
    BY <1>1, FS_Interval, CalendarTypes
  <2>2. IsFiniteSet(S)
    BY <1>3, <2>1, FS_Subset
  <2> QED BY <1>1, <1>3, <2>2, CalendarTypes
<1>5. h \in Seq(S)
  BY <1>4, InOrderIs
<1> HIDE DEF h
<1>6. h \in Seq(Int)
  BY <1>4, <1>5, NumbersInSeq
<1> QED BY <1>6 DEF h, S

LEMMA ProvidingKeeps == SoundInv /\ ProviderAnswers => SoundInv'
<1> SUFFICES ASSUME SoundInv, ProviderAnswers PROVE SoundInv'
  OBVIOUS
<1>1. /\ at = "ask"
      /\ UNCHANGED <<spec, path, asOf, attempt, replayed, status, trusted, entryBlocked, clock>>
      /\ UNCHANGED <<emaCount, cross, tickAt, entered, wholeHistory>>
  BY DEF ProviderAnswers, strategy, live, past
<1>2. EngineTypes /\ ClockInv /\ StrategyInv /\ NothingYet /\ FetchInv /\ BlockInv
  BY DEF SoundInv
<1>3. /\ path = "fallback" /\ ~wholeHistory /\ ~trusted /\ replayed = 0 /\ ~entered /\ spec # RaisingSpec
      /\ Constructible(spec, path)
  BY <1>1, <1>2 DEF NothingYet, BlockInv
<1>4. toReplay' \in Seq(Int) /\ at' \in {"warmed", "replay"}
  <2>1. clock \in Times /\ toReplay \in Seq(Int)
    BY <1>2 DEF ClockInv, EngineTypes
  <2>2. PICK rows \in Holdings(TradedMinutes(Today, FloorToInterval(clock) - 1)) :
          IF rows = {} THEN at' = "warmed" /\ UNCHANGED toReplay
                       ELSE at' = "replay" /\ toReplay' = InOrder(AggregateCandles(rows))
    BY DEF ProviderAnswers
  <2>3. InOrder(AggregateCandles(rows)) \in Seq(Int)
    BY <2>1, ProviderListIs
  <2> QED BY <2>1, <2>2, <2>3
<1>5. EngineTypes'
  <2>1. Len(toReplay') \in Nat
    BY <1>4
  <2>2. replayed' <= Len(toReplay')
    BY <1>1, <1>3, <2>1
  <2> QED BY <1>1, <1>2, <1>4, <2>2 DEF EngineTypes
<1>6. ClockInv' /\ StrategyInv' /\ NothingYet'
  BY <1>1, <1>2, <1>3, <1>4 DEF ClockInv, StrategyInv, NothingYet
<1>7. FetchInv'
  BY <1>1, <1>3, <1>4 DEF FetchInv
<1>8. BlockInv'
  <2>1. ~(HasSpec /\ spec.continuity) /\ spec' # RaisingSpec /\ path' = "fallback" /\ ~entered'
    BY <1>1, <1>3 DEF Constructible, HasSpec
  <2>2. ~(HasSpec /\ spec.continuity)' /\ Constructible(spec, path)'
    BY <1>1, <1>3, <2>1 DEF HasSpec
  <2> QED BY <1>4, <2>1, <2>2 DEF BlockInv
<1>9. TrustedIsCurrent' /\ CompleteHistoryWarms'
  BY <1>1, <1>3, NotTrusted
<1> QED BY <1>5, <1>6, <1>7, <1>8, <1>9 DEF SoundInv

LEMMA ReplayingKeeps == SoundInv /\ ReplayCandle => SoundInv'
<1> SUFFICES ASSUME SoundInv, ReplayCandle PROVE SoundInv'
  OBVIOUS
<1>1. /\ at = "replay" /\ at' = "replay" /\ replayed < Len(toReplay) /\ replayed' = replayed + 1
      /\ UNCHANGED <<spec, path, asOf, attempt, toReplay, status, trusted, entryBlocked, clock, wholeHistory>>
      /\ UNCHANGED <<tickAt, entered>>
  BY DEF ReplayCandle, live
<1>2. EngineTypes /\ ClockInv /\ StrategyInv /\ NothingYet /\ FetchInv /\ BlockInv
  BY DEF SoundInv
<1>3. EngineTypes'
  <2>1. replayed' \in Nat /\ replayed' <= Len(toReplay')
    <3>1. replayed \in Nat /\ Len(toReplay) \in Nat
      BY <1>2 DEF EngineTypes
    <3> QED BY <1>1, <3>1
  <2> QED BY <1>1, <1>2, <2>1 DEF EngineTypes
<1>4. StrategyInv'
  BY <1>2, CandleKeepsTypes DEF ReplayCandle
<1>5. ClockInv' /\ NothingYet'
  BY <1>1, <1>2 DEF ClockInv, NothingYet
<1>6. FetchInv'
  <2>1. path = "manager" => ManagerAsks' /\ ManagerReplays'
    BY <1>1, <1>2 DEF FetchInv, ManagerAsks, ManagerReplays, HasSpec
  <2> QED BY <1>1, <1>2, <2>1 DEF FetchInv
<1>7. BlockInv'
  BY <1>1, <1>2 DEF BlockInv, Constructible, HasSpec
<1>8. TrustedIsCurrent' /\ CompleteHistoryWarms'
  BY <1>1 DEF TrustedIsCurrent, CompleteHistoryWarms
<1> QED BY <1>3, <1>4, <1>5, <1>6, <1>7, <1>8 DEF SoundInv

LEMMA RaisingKeeps == SoundInv /\ ReplayRaises => SoundInv'
<1> SUFFICES ASSUME SoundInv, ReplayRaises PROVE SoundInv'
  OBVIOUS
<1>1. /\ at = "replay" /\ wholeHistory' = FALSE
      /\ UNCHANGED <<spec, path, asOf, attempt, toReplay, replayed, clock>>
      /\ UNCHANGED <<emaCount, cross, tickAt, entered>>
  BY DEF ReplayRaises, strategy, live
<1>2. EngineTypes /\ ClockInv /\ StrategyInv /\ NothingYet /\ FetchInv /\ BlockInv
  BY DEF SoundInv
<1>3. CASE path = "manager"
  <2>1. Concludes("PARTIAL")
    BY <1>3 DEF ReplayRaises
  <2>2. "PARTIAL" \in Statuses /\ "PARTIAL" # "WARMED"
    BY DEF Statuses
  <2> QED BY <1>1, <1>3, <2>1, <2>2, GivingUpKeeps
<1>4. CASE path # "manager"
  <2>1. at' = "dead" /\ UNCHANGED <<status, trusted, entryBlocked>> /\ ~trusted /\ ~entered
    BY <1>1, <1>2, <1>4 DEF ReplayRaises, NothingYet, BlockInv
  <2>2. EngineTypes'
    BY <1>1, <1>2, <2>1 DEF EngineTypes
  <2>3. ClockInv' /\ StrategyInv' /\ NothingYet' /\ FetchInv'
    BY <1>1, <1>2, <2>1 DEF ClockInv, StrategyInv, NothingYet, FetchInv
  <2>4. BlockInv'
    BY <1>1, <1>2, <2>1 DEF BlockInv, Constructible
  <2>5. TrustedIsCurrent' /\ CompleteHistoryWarms'
    BY <1>1, <2>1, NotTrusted
  <2> QED BY <2>2, <2>3, <2>4, <2>5 DEF SoundInv
<1> QED BY <1>3, <1>4

\* The end of the replay: what is believed was verified.
LEMMA EndingKeeps == CalendarReaches /\ SoundInv /\ ReplayEnds => SoundInv'
<1> SUFFICES ASSUME CalendarReaches, SoundInv, ReplayEnds PROVE SoundInv'
  OBVIOUS
<1>1. /\ at = "replay" /\ at' = "warmed" /\ replayed = Len(toReplay)
      /\ UNCHANGED <<spec, path, asOf, attempt, toReplay, replayed, clock>>
      /\ UNCHANGED <<emaCount, cross, tickAt, entered, wholeHistory>>
  BY DEF ReplayEnds, Concludes, strategy, live, past
<1>2. EngineTypes /\ ClockInv /\ StrategyInv /\ NothingYet /\ FetchInv /\ BlockInv
  BY DEF SoundInv
<1>3. ~entered /\ spec # RaisingSpec /\ Constructible(spec, path) /\ (path = "manager" \/ path = "fallback")
  BY <1>1, <1>2 DEF BlockInv
<1>4. ClockInv' /\ StrategyInv'
  BY <1>1, <1>2 DEF ClockInv, StrategyInv
<1>5. NothingYet' /\ FetchInv' /\ Constructible(spec, path)'
  BY <1>1, <1>2, <1>3 DEF NothingYet, FetchInv
<1>6. ASSUME status' \in Statuses, trusted' \in BOOLEAN, entryBlocked' \in BOOLEAN,
             ~entryBlocked' => (HasSpec /\ spec.continuity => status' = "WARMED")
      PROVE  EngineTypes' /\ BlockInv'
  <2>1. EngineTypes'
    BY <1>1, <1>2, <1>6 DEF EngineTypes
  <2>2. (HasSpec /\ spec.continuity)' => HasSpec /\ spec.continuity
    BY <1>1 DEF HasSpec
  <2> QED BY <1>1, <1>3, <1>5, <1>6, <2>1, <2>2 DEF BlockInv
<1>7. CASE path = "manager"
  <2> DEFINE result == Verified(spec, asOf, toReplay)
  <2>1. Concludes(result) /\ ManagerAsks /\ ManagerReplays
    BY <1>1, <1>2, <1>7 DEF ReplayEnds, FetchInv
  <2>2. HasSpec /\ spec.bars \in BarCounts /\ spec.bars \in Nat /\ spec.bars >= 1 /\ asOf \in Times
    BY <1>2, <2>1, SpecIs DEF ManagerAsks
  <2>3. result \in Statuses
    BY DEF Verified, Statuses
  <2>4. TrustedIsCurrent'
    <3>1. PICK S \in SUBSET CompleteBy(asOf) : toReplay = InOrder(S)
      BY <2>1 DEF ManagerReplays
    <3>2. trusted' => result = "WARMED"
      BY <2>1 DEF Concludes
    <3>3. ASSUME trusted'
          PROVE  /\ spec.bars <= Len(toReplay)
                 /\ SubSeq(toReplay, Len(toReplay) - spec.bars + 1, Len(toReplay))
                      = InOrder(WholeBuckets(spec.bars, asOf))
      <4>1. Verified(spec, asOf, InOrder(S)) = "WARMED"
        BY <3>1, <3>2, <3>3
      <4> QED BY <2>2, <3>1, <4>1, VerifiedEndsInOrder
    <3> QED BY <1>1, <3>3 DEF TrustedIsCurrent
  <2>5. CompleteHistoryWarms'
    <3> SUFFICES ASSUME wholeHistory, SessionsNeeded(spec.bars) <= MaxLookback PROVE trusted'
      BY <1>1 DEF CompleteHistoryWarms
    <3>1. toReplay = InOrder(AskedFor(spec.bars, asOf))
      BY <2>1 DEF ManagerReplays
    <3>2. Verified(spec, asOf, InOrder(AskedFor(spec.bars, asOf))) = "WARMED"
      BY <2>2, WholeFetchWarms
    <3> QED BY <2>1, <3>1, <3>2 DEF Concludes
  <2> HIDE DEF result
  <2>6. /\ status' = result /\ trusted' = (result = "WARMED") /\ entryBlocked' = EntryBlockedBy(spec, result)
    BY <2>1 DEF Concludes
  <2>7. /\ trusted' \in BOOLEAN /\ entryBlocked' \in BOOLEAN
        /\ ~entryBlocked' => (spec.continuity => status' = "WARMED")
    BY <2>6 DEF EntryBlockedBy
  <2>8. EngineTypes' /\ BlockInv'
    BY <1>6, <2>3, <2>6, <2>7
  <2> QED BY <1>4, <1>5, <2>4, <2>5, <2>8 DEF SoundInv
<1>8. CASE path # "manager"
  <2>1. trusted' = (Last(toReplay) + Interval >= FloorToInterval(clock)) /\ UNCHANGED <<status, entryBlocked>>
    BY <1>8 DEF ReplayEnds
  <2>2. trusted' \in BOOLEAN /\ status' \in Statuses /\ entryBlocked' \in BOOLEAN
    BY <1>2, <2>1 DEF EngineTypes
  <2>3. ~(HasSpec /\ spec.continuity) /\ ~wholeHistory
    BY <1>2, <1>3, <1>8 DEF Constructible, HasSpec, FetchInv
  <2>4. EngineTypes' /\ BlockInv'
    BY <1>6, <2>2, <2>3
  <2>5. TrustedIsCurrent' /\ CompleteHistoryWarms'
    BY <1>1, <1>8, <2>3 DEF TrustedIsCurrent, CompleteHistoryWarms
  <2> QED BY <1>4, <1>5, <2>4, <2>5 DEF SoundInv
<1> QED BY <1>7, <1>8

LEMMA CompletingKeeps == SoundInv /\ WarmUpComplete => SoundInv'
<1> SUFFICES ASSUME SoundInv, WarmUpComplete PROVE SoundInv'
  OBVIOUS
<1>1. /\ at = "warmed" /\ at' = "live" /\ cross' = ContextKept
      /\ asOf' = None /\ attempt' = 0 /\ toReplay' = <<>> /\ replayed' = 0 /\ wholeHistory' = FALSE
      /\ UNCHANGED <<spec, path, status, trusted, entryBlocked, emaCount, clock, tickAt, entered>>
  BY DEF WarmUpComplete, live
<1>2. EngineTypes /\ ClockInv /\ StrategyInv /\ BlockInv
  BY DEF SoundInv
<1>3. EngineTypes'
  <2>1. 0 \in 0 .. MaxAttempts /\ toReplay' \in Seq(Int)
    BY <1>1, WarmUpAssumption
  <2> QED BY <1>1, <1>2, <2>1 DEF EngineTypes
<1>4. StrategyInv'
  <2>1. FreshCross \in CrossType /\ FreshCross.count \in 0 .. Confirm - 1
    BY WarmUpAssumption DEF FreshCross, CrossType, Sides
  <2> QED BY <1>1, <1>2, <2>1 DEF StrategyInv, ContextKept
<1>5. ClockInv' /\ NothingYet' /\ FetchInv'
  BY <1>1, <1>2 DEF ClockInv, NothingYet, FetchInv
<1>6. BlockInv'
  BY <1>1, <1>2 DEF BlockInv, Constructible, HasSpec
<1>7. TrustedIsCurrent' /\ CompleteHistoryWarms'
  BY <1>1 DEF TrustedIsCurrent, CompleteHistoryWarms
<1> QED BY <1>3, <1>4, <1>5, <1>6, <1>7 DEF SoundInv

LEMMA MaxOfTwo ==
  ASSUME NEW a \in Int, NEW b \in Int
  PROVE  Max({a, b}) = IF a >= b THEN a ELSE b
<1> DEFINE m == IF a >= b THEN a ELSE b
<1>1. m \in {a, b} /\ \A x \in {a, b} : m >= x
  OBVIOUS
<1>2. \A n \in {a, b} : (\A x \in {a, b} : n >= x) => n = m
  OBVIOUS
<1> HIDE DEF m
<1>3. Max({a, b}) = m
  BY <1>1, <1>2 DEF Max
<1> QED BY <1>3 DEF m

\* The clock stays within the day while a tick moves it.
LEMMA ClockStaysToday ==
  ASSUME clock \in Times, tickAt \in Int, NEW t \in tickAt - Interval .. Max(Times)
  PROVE  t \in Int /\ Max({clock, t}) \in Times
<1> DEFINE x == Today * DayLength
           y == (Today + 1) * DayLength - 1
<1>1. x \in Int /\ y \in Int /\ Times = x .. y
  BY CalendarTypes DEF Times
<1> HIDE DEF x, y
<1>2. Max(Times) \in Times
  <2>1. IsFiniteSet(x .. y)
    BY <1>1, FS_Interval
  <2>2. Times \in SUBSET Int /\ Times # {}
    <3>1. \A z \in x .. y : z \in Int
      BY <1>1
    <3> QED BY <1>1, <3>1
  <2> QED BY <1>1, <2>1, <2>2, MinAndMax
<1>3. t \in Int /\ t <= Max(Times) /\ Max(Times) <= y /\ clock \in Int /\ x <= clock
  BY <1>1, <1>2, CalendarTypes
<1>4. Max({clock, t}) = IF clock >= t THEN clock ELSE t
  BY <1>3, MaxOfTwo
<1>5. ~(clock >= t) => t \in x .. y
  BY <1>1, <1>2, <1>3
<1> QED BY <1>1, <1>3, <1>4, <1>5

LEMMA TickKeepsSound == SoundInv /\ UnderlyingTick => SoundInv'
<1> SUFFICES ASSUME SoundInv, UnderlyingTick PROVE SoundInv'
  OBVIOUS
<1>1. at = "live" /\ UNCHANGED <<spec, path, asOf, attempt, toReplay, replayed, status, trusted, entryBlocked,
                                 wholeHistory>>
  BY DEF UnderlyingTick
<1>2. EngineTypes /\ ClockInv /\ StrategyInv /\ NothingYet /\ FetchInv /\ BlockInv
  BY DEF SoundInv
<1>3. PICK t \in tickAt - Interval .. Max(Times) :
        /\ tickAt' = t /\ clock' = Max({clock, t})
        /\ IF ClockOf(t) >= SquareOffAt
             THEN at' = "over" /\ UNCHANGED <<bar, fed, strategy, observed, signalled, entered>>
             ELSE /\ UNCHANGED at
                  /\ IF IsOpen(t) THEN Absorbs(t) \/ Closes(t)
                                  ELSE UNCHANGED <<bar, fed, strategy, observed, signalled, entered>>
  BY DEF UnderlyingTick
<1>4. ClockInv'
  <2>1. clock \in Times /\ tickAt \in Int
    BY <1>2 DEF ClockInv
  <2>2. t \in Int /\ Max({clock, t}) \in Times
    BY <2>1, ClockStaysToday
  <2> QED BY <1>3, <2>2 DEF ClockInv
<1>5. at' \in {"live", "over"}
  BY <1>1, <1>3
<1>6. \/ UNCHANGED <<strategy, entered>>
      \/ (\E raw \in Sides : OnCandle(raw, observed))
         /\ entered' = (entered \/ (cross'.signal # 0 /\ CanEnter(t) /\ ~entryBlocked))
  BY <1>3 DEF Absorbs, Closes
<1>7. StrategyInv'
  <2>1. CASE UNCHANGED <<strategy, entered>>
    BY <1>2, <2>1 DEF StrategyInv, strategy
  <2>2. CASE \E raw \in Sides : OnCandle(raw, observed)
    BY <1>2, <2>2, CandleKeepsTypes
  <2> QED BY <1>6, <2>1, <2>2
<1>8. entered' \in BOOLEAN /\ (entered' => ~entryBlocked)
  <2>1. entered \in BOOLEAN /\ (entered => ~entryBlocked)
    BY <1>2 DEF EngineTypes, BlockInv
  <2>2. CASE UNCHANGED <<strategy, entered>>
    BY <2>1, <2>2
  <2>3. CASE entered' = (entered \/ (cross'.signal # 0 /\ CanEnter(t) /\ ~entryBlocked))
    BY <2>1, <2>3
  <2> QED BY <1>6, <2>2, <2>3
<1>9. EngineTypes'
  BY <1>1, <1>2, <1>5, <1>8 DEF EngineTypes
<1>10. NothingYet' /\ FetchInv'
  BY <1>1, <1>2, <1>5 DEF NothingYet, FetchInv
<1>11. BlockInv'
  BY <1>1, <1>2, <1>5, <1>8 DEF BlockInv, Constructible, HasSpec
<1>12. TrustedIsCurrent' /\ CompleteHistoryWarms'
  BY <1>5 DEF TrustedIsCurrent, CompleteHistoryWarms
<1> QED BY <1>4, <1>7, <1>9, <1>10, <1>11, <1>12 DEF SoundInv

\* What depends on neither the clock nor the strategy.
LEMMA EngineUnchangedKeeps ==
  ASSUME SoundInv, ClockInv', UNCHANGED <<engine, strategy, entered, wholeHistory>>
  PROVE  SoundInv'
<1>1. UNCHANGED <<spec, path, at, asOf, attempt, toReplay, replayed, status, trusted, entryBlocked>>
      /\ UNCHANGED <<emaCount, cross, entered, wholeHistory>>
  BY DEF engine, strategy
<1>2. EngineTypes'
  BY <1>1 DEF SoundInv, EngineTypes
<1>3. StrategyInv' /\ NothingYet'
  BY <1>1 DEF SoundInv, StrategyInv, NothingYet
<1>4. FetchInv'
  BY <1>1 DEF SoundInv, FetchInv, ManagerAsks, ManagerReplays, HasSpec
<1>5. BlockInv'
  BY <1>1 DEF SoundInv, BlockInv, Constructible, HasSpec
<1>6. TrustedIsCurrent' /\ CompleteHistoryWarms'
  BY <1>1 DEF SoundInv, TrustedIsCurrent, CompleteHistoryWarms
<1> QED BY <1>2, <1>3, <1>4, <1>5, <1>6 DEF SoundInv

LEMMA TimeKeeps == SoundInv /\ (TimePasses \/ UNCHANGED warmUpVars) => SoundInv'
<1> SUFFICES ASSUME SoundInv, TimePasses \/ UNCHANGED warmUpVars PROVE SoundInv'
  OBVIOUS
<1>1. UNCHANGED <<engine, strategy, entered, wholeHistory, tickAt>> /\ (clock' \in Times \/ clock' = clock)
  BY DEF TimePasses, warmUpVars, live, past
<1>2. ClockInv'
  BY <1>1 DEF SoundInv, ClockInv
<1> QED BY <1>1, <1>2, EngineUnchangedKeeps

LEMMA SoundInvHolds == ASSUME CalendarReaches PROVE WarmUpSpec => []SoundInv
<1>1. SoundInv /\ [WarmUpNext]_warmUpVars => SoundInv'
  BY BeginKeeps, FailingKeeps, FetchingKeeps, ProvidingKeeps, ReplayingKeeps, RaisingKeeps,
       EndingKeeps,
     CompletingKeeps, TickKeepsSound, TimeKeeps DEF WarmUpNext, WarmUpStep
<1> QED BY SoundInitInv, <1>1, PTL DEF WarmUpSpec

(* What the outcome of a warm-up is taken for is what was replayed: a trusted  *)
(* replay ends with the exchange's last whole buckets, a provider that left    *)
(* nothing out is believed, and no entry is queued on a context not verified.  *)
THEOREM WarmUpIsSoundHolds == ASSUME CalendarReaches PROVE WarmUpSpec => []WarmUpIsSound
<1>1. SoundInv => WarmUpIsSound
  <2> SUFFICES ASSUME SoundInv PROVE WarmUpIsSound
    OBVIOUS
  <2>1. DayOf(clock) = Today
    BY TimesAre DEF SoundInv, ClockInv
  <2>2. /\ cross.side \in Sides /\ cross.candidate \in Sides /\ cross.count \in 0 .. Confirm - 1
        /\ cross.signal \in Sides /\ emaCount \in 0 .. Slow
    BY DEF SoundInv, StrategyInv, CrossType
  <2>3. WarmUpTypeOK
    BY <2>1, <2>2 DEF SoundInv, EngineTypes, Statuses, WarmUpTypeOK
  <2>4. ContinuityNeedsWarmth
    BY DEF SoundInv, BlockInv, ContinuityNeedsWarmth
  <2> QED BY <2>3, <2>4 DEF SoundInv, WarmUpIsSound
<1> QED BY <1>1, SoundInvHolds, PTL
=============================================================================
