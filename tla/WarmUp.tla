-------------------------------- MODULE WarmUp --------------------------------
(***************************************************************************)
(* How a worker's indicators get the past: TradingEngine._warm_up and the  *)
(* WarmupManager behind it, the historical fetch with its retries, the     *)
(* calendar's bucket grid, and the strategy the replay is for, whose EMAs  *)
(* and ConfirmedCrossover then go on with the bars CandleBuilder makes of  *)
(* live ticks.                                                             *)
(*                                                                         *)
(* Time is in minutes since the midnight of day 0.  A candle is the start  *)
(* of its bucket, and what its close does to the EMA spread is any side:   *)
(* 1 above the separation, -1 below it, 0 inside the deadband.  Live ticks *)
(* wait in the worker's queue from the moment it was spawned.              *)
(***************************************************************************)
EXTENDS Integers, Sequences, FiniteSets, FiniteSetsExt, SequencesExt

CONSTANTS
  Interval, DayLength,             \* minutes; the bucket grid starts at midnight
  SessionStart, EntryEnd, SquareOffAt, \* MarketSession's clock times
  TradingDays, Today,              \* the calendar, and the day that is run
  Boots,                           \* clock times a worker may be spawned at
  IndicatorSets,                   \* the requirements of strategies' indicators
  NoSpec, RaisingSpec,             \* warmup_spec() returns None, or raises
  MaxLookback,                     \* max_lookback_sessions
  MaxAttempts,                     \* DhanHistoricalDataClient.max_attempts
  Slow, Confirm                    \* slow EMA period, confirmation_candles

ASSUME WarmUpAssumption ==
  /\ {Interval, DayLength} \subseteq Nat \ {0} /\ DayLength % Interval = 0
  /\ {SessionStart, EntryEnd, SquareOffAt} \subseteq Nat
  /\ SessionStart <= EntryEnd /\ EntryEnd <= SquareOffAt /\ SquareOffAt < DayLength
  /\ TradingDays \subseteq Nat /\ Today \in TradingDays /\ Boots \subseteq 0 .. DayLength - 1
  /\ \A indicators \in IndicatorSets :
       IsFiniteSet(indicators) /\ \A i \in indicators : i.bars \in Nat
  /\ {MaxLookback, MaxAttempts, Slow, Confirm} \subseteq Nat \ {0}

VARIABLES
  \* --- the run
  spec, path,   \* what the strategy needs, and where history comes from
  at,           \* where TradingEngine.run is
  clock,        \* the wall clock
  asOf,         \* _now(), read before the fetch
  attempt,      \* of the fetch
  toReplay,     \* the candles to replay, oldest first
  replayed,     \* how many of them were
  status,       \* WarmupResult.status
  trusted,      \* _warmup_context_trusted
  entryBlocked, \* _entry_blocked is set
  \* --- the strategy
  emaCount,     \* closes the slow EMA has seen, capped at Slow
  cross,        \* ConfirmedCrossover
  \* --- the live candles
  tickAt,       \* exchange time of the last tick handled; at first, when the queue was opened
  bar,          \* CandleBuilder._current
  fed,          \* the live bar last given to the strategy, and the bucket of the tick that closed it
  \* --- histories
  replayedTo,   \* the last bucket replayed into a trusted context
  observed,     \* sides seen since the crossover's context was established
  signalled,    \* the side of the last live signal
  entered,      \* an entry was queued
  wholeHistory  \* the provider held every bucket it was asked for, and replay did not raise

engine == <<spec, path, at, asOf, attempt, toReplay, replayed, status, trusted, entryBlocked>>
strategy == <<emaCount, cross>>
live == <<tickAt, bar, fed>>
past == <<replayedTo, observed, signalled, entered, wholeHistory>>
warmUpVars == <<engine, clock, strategy, live, past>>

None == -1
NoBar == [start |-> None, last |-> None, gap |-> FALSE]
NoFed == [start |-> None, closedBy |-> None]
FreshCross == [known |-> FALSE, side |-> 0, candidate |-> 0, count |-> 0, signal |-> 0]
Sides == {1, -1, 0}

-----------------------------------------------------------------------------
(* session_buckets and MarketSession: the calendar and its bucket grid.    *)

DayOf(t) == t \div DayLength
ClockOf(t) == t % DayLength
FloorToInterval(t) == t - (t % Interval)

IsOpen(t) == DayOf(t) \in TradingDays /\ SessionStart <= ClockOf(t) /\ ClockOf(t) <= SquareOffAt
CanEnter(t) == DayOf(t) \in TradingDays /\ SessionStart <= ClockOf(t) /\ ClockOf(t) < EntryEnd

PriorDays(d) == {e \in TradingDays : e < d}
PriorTradingDay(d, n) == CHOOSE e \in PriorDays(d) : Cardinality({f \in PriorDays(d) : f >= e}) = n

BucketOffsets ==
  LET first == ((SessionStart + Interval - 1) \div Interval) * Interval
  IN {o \in first .. SquareOffAt - Interval : o % Interval = 0}
SessionBucketStarts(d) == IF d \in TradingDays THEN {d * DayLength + o : o \in BucketOffsets} ELSE {}
IsApplicable(b) == b \in SessionBucketStarts(DayOf(b))

-----------------------------------------------------------------------------
(* requirements: what a strategy needs, from what its indicators do.       *)

\* StrategyWarmupSpec.from_indicators; an indicator is [bars, local, volume,
\* continuity].
FromIndicators(indicators) ==
  LET spanning == {i \in indicators : ~i.local} IN
  [bars |-> Max({0} \cup {i.bars : i \in spanning}),
   volume |-> \E i \in spanning : i.volume,
   sessionLocal |-> \E i \in indicators : i.local,
   continuity |-> \E i \in indicators : i.continuity]

Specs == {FromIndicators(indicators) : indicators \in IndicatorSets}

-----------------------------------------------------------------------------
(* WarmupManager: how much history a strategy needs, and whether what was  *)
(* replayed is it.                                                         *)

CeilDiv(n, k) == (n + k - 1) \div k
SessionsNeeded(n) == Max({1, CeilDiv(n, Cardinality(BucketOffsets))})
LookbackSessions(n) == Min({SessionsNeeded(n), MaxLookback})

BarCounts == {s.bars : s \in Specs}
Times == Today * DayLength .. (Today + 1) * DayLength - 1

\* _required_latest_boundary: today's last completed bucket, capped at the
\* session's last; before there is one, the previous session's last.
RequiredLatest ==
  [t \in Times |->
     LET today == SessionBucketStarts(Today)
         last == FloorToInterval(t) - Interval
     IN IF last >= Min(today) THEN Min({last, Max(today)})
                              ELSE Max(SessionBucketStarts(PriorTradingDay(Today, 1)))]

Newest(n, S) == {b \in S : Cardinality({c \in S : c > b}) < n}

\* What the boundary day and the k trading days before it hold, up to the boundary.
BackFrom(latest, k) ==
  LET day == DayOf(latest)
      days == {day} \cup {PriorTradingDay(day, j) : j \in 1 .. k}
  IN {b \in UNION {SessionBucketStarts(d) : d \in days} : b <= latest}

\* _expected_recent_buckets: back from the boundary day, one prior session at
\* a time; {} when the look-back budget is spent first.
ExpectedRecentBuckets ==
  [n \in BarCounts |-> [t \in Times |->
     LET latest == RequiredLatest[t]
         budget == Min({MaxLookback, Cardinality(PriorDays(DayOf(latest)))})
         enough == {k \in 0 .. budget : Cardinality(BackFrom(latest, k)) >= n}
     IN IF enough = {} THEN {} ELSE Newest(n, BackFrom(latest, Min(enough)))]]

HasInternalGaps(h) ==
  \E i \in 1 .. Len(h) - 1 : DayOf(h[i]) = DayOf(h[i + 1]) /\ h[i + 1] - h[i] # Interval

\* Seeded bug: every replay that did not raise is complete.
CompleteUnlessRaised(s, t, h) == "WARMED"

\* The completeness verification at the end of WarmupManager.warm.
Verified(s, t, h) ==
  LET expected == ExpectedRecentBuckets[s.bars][t]
      recent == {b \in ToSet(h) : Min(expected) <= b /\ b <= Max(expected)}
  IN IF /\ expected # {}
        /\ \A i \in 1 .. Len(h) : IsApplicable(h[i])
        /\ \A i \in 1 .. Len(h) - 1 : h[i] < h[i + 1]
        /\ ~HasInternalGaps(h)
        /\ recent = expected
       THEN "WARMED" ELSE "PARTIAL"

\* The gates before the fetch: refuse rather than corrupt.
Gate(s) ==
  IF s.bars <= 0 THEN "SKIPPED_EMPTY"
  ELSE IF s.sessionLocal THEN "SKIPPED_SESSION_LOCAL"
  ELSE IF s.volume THEN "SKIPPED_VOLUME"
  ELSE "FETCH"

EntryBlockedBy(s, result) == s.continuity /\ result # "WARMED"

-----------------------------------------------------------------------------
(* The strategy: EMA, ConfirmedCrossover, and what it does with a candle.  *)

\* One more close on side raw, away from the confirmed side: confirmed, and
\* returned as a signal, after Confirm of them in a row.
TowardsConfirmation(c, raw) ==
  LET n == IF raw = c.candidate THEN c.count + 1 ELSE 1
  IN IF n < Confirm
       THEN [c EXCEPT !.candidate = raw, !.count = n, !.signal = 0]
       ELSE [FreshCross EXCEPT !.known = TRUE, !.side = raw, !.signal = raw]

\* ConfirmedCrossover.update: the first observation is context only, and the
\* deadband cancels a candidate.
Update(c, raw) ==
  IF ~c.known THEN [FreshCross EXCEPT !.known = TRUE, !.side = raw]
  ELSE IF raw \in {0, c.side} THEN [c EXCEPT !.candidate = 0, !.count = 0, !.signal = 0]
  ELSE TowardsConfirmation(c, raw)

\* EMA.update; ready from Slow closes on.
CountClose == emaCount' = Min({emaCount + 1, Slow})

\* The strategy's on_candle: the crossover is fed once the slow EMA is ready.
\* `was` is what the crossover knew of sides before.
OnCandle(raw, was) ==
  /\ CountClose
  /\ IF emaCount' < Slow
       THEN cross' = [cross EXCEPT !.signal = 0] /\ observed' = was
       ELSE cross' = Update(cross, raw) /\ observed' = was \cup {raw}

-----------------------------------------------------------------------------
(* TradingEngine._warm_up.                                                 *)

HasSpec == spec \notin {NoSpec, RaisingSpec}

\* validate_warmup_config: a continuity-required strategy runs only with a
\* warm-up manager; a warmup_spec that raises is left to _warm_up.
Constructible(s, p) == (s \notin {NoSpec, RaisingSpec} /\ s.continuity) => p = "manager"

\* build_warmup_manager: asked for, the underlying looked up is the worker's
\* own, and credentials are at hand; anything less is no manager and no source.
ManagerBuilt(optedIn, sameUnderlying, credentials) == optedIn /\ sameUnderlying /\ credentials

WarmUpInit ==
  /\ spec \in Specs \cup {NoSpec, RaisingSpec}
  /\ \E optedIn, sameUnderlying, credentials, provider \in BOOLEAN :
       path = IF ManagerBuilt(optedIn, sameUnderlying, credentials) THEN "manager"
              ELSE IF provider THEN "fallback" ELSE "none"
  /\ Constructible(spec, path)
  /\ at = "new" /\ asOf = None /\ attempt = 0 /\ toReplay = <<>> /\ replayed = 0
  /\ status = "none" /\ trusted = FALSE /\ entryBlocked = FALSE
  /\ emaCount = 0 /\ cross = FreshCross
  /\ clock \in {Today * DayLength + m : m \in Boots} /\ tickAt = clock
  /\ bar = NoBar /\ fed = NoFed
  /\ replayedTo = None /\ observed = {} /\ signalled = 0
  /\ entered = FALSE /\ wholeHistory = FALSE

Concludes(result) ==
  /\ at' = "warmed" /\ status' = result /\ trusted' = (result = "WARMED")
  /\ entryBlocked' = EntryBlockedBy(spec, result)

\* _warm_up's head: the requirement, then the manager and its gates, or the
\* fallback, or a cold start.
BeginWarmUp ==
  /\ at = "new"
  /\ CASE spec = RaisingSpec ->
            /\ at' = "warmed" /\ entryBlocked' = TRUE /\ UNCHANGED <<asOf, attempt, status, trusted>>
       [] path = "manager" /\ HasSpec ->
            /\ asOf' = clock
            /\ IF Gate(spec) = "FETCH"
                 THEN at' = "fetch" /\ attempt' = 1 /\ UNCHANGED <<status, trusted, entryBlocked>>
                 ELSE Concludes(Gate(spec)) /\ UNCHANGED attempt
       [] path = "fallback" /\ spec # RaisingSpec ->
            at' = "ask" /\ UNCHANGED <<asOf, attempt, status, trusted, entryBlocked>>
       [] OTHER ->
            at' = "warmed" /\ UNCHANGED <<asOf, attempt, status, trusted, entryBlocked>>
  /\ UNCHANGED <<spec, path, toReplay, replayed, clock, strategy, live, past>>

TriesAgain == attempt < MaxAttempts /\ attempt' = attempt + 1

\* A network error, 429 or 5xx is tried again while attempts last; a rejected
\* request (400, 401, 403), or a body that cannot be parsed, is not.
FetchFails ==
  /\ at = "fetch"
  /\ \/ /\ TriesAgain
        /\ UNCHANGED <<at, status, trusted, entryBlocked>>
     \/ Concludes("COLD_START") /\ UNCHANGED attempt
  /\ UNCHANGED <<spec, path, asOf, toReplay, replayed, clock, strategy, live, past>>

\* What a provider may hold of the minutes traded: all of them, all but a
\* bucket's worth, or only the newer or the older ones.
Holdings(M) ==
  {M} \cup {M \ (m .. m + Interval - 1) : m \in M}
      \cup {{k \in M : k >= m} : m \in M} \cup {{k \in M : k < m} : m \in M}

TradedMinutes(first, t) == {m \in first * DayLength .. t : IsOpen(m)}

InOrder(S) == [i \in 1 .. Cardinality(S) |-> CHOOSE b \in S : Cardinality({c \in S : c < b}) = i - 1]

\* A bucket exists once it has a row.
AggregateCandles(rows) == {FloorToInterval(m) : m \in rows}

\* fetch_warmup_candles_range: less the bucket still forming and what lies
\* outside the session.
Fetched(rows) == InOrder({b \in AggregateCandles(rows) : IsApplicable(b) /\ b < FloorToInterval(asOf)})
FetchRange == TradedMinutes(PriorTradingDay(Today, LookbackSessions(spec.bars)), asOf)

FetchAnswers ==
  /\ at = "fetch"
  /\ \E rows \in Holdings(FetchRange) :
       LET candles == Fetched(rows) IN
       IF candles = <<>>
         THEN Concludes("COLD_START") /\ UNCHANGED <<toReplay, wholeHistory>>
         ELSE /\ at' = "replay" /\ toReplay' = candles /\ wholeHistory' = (rows = FetchRange)
              /\ UNCHANGED <<status, trusted, entryBlocked>>
  /\ UNCHANGED <<spec, path, asOf, attempt, replayed, clock, strategy, live,
                 replayedTo, observed, signalled, entered>>

\* The fallback's history_provider: today's closed candles, or some of them,
\* or none, or an exception.
ProviderAnswers ==
  /\ at = "ask"
  /\ \E rows \in Holdings(TradedMinutes(Today, FloorToInterval(clock) - 1)) :
       IF rows = {} THEN at' = "warmed" /\ UNCHANGED toReplay
                    ELSE at' = "replay" /\ toReplay' = InOrder(AggregateCandles(rows))
  /\ UNCHANGED <<spec, path, asOf, attempt, replayed, status, trusted, entryBlocked, clock, strategy,
                 live, past>>

\* A candle through the sink; the signal is discarded.
ReplayCandle ==
  /\ at = "replay" /\ replayed < Len(toReplay) /\ replayed' = replayed + 1
  /\ \E raw \in Sides : OnCandle(raw, observed)
  /\ UNCHANGED <<spec, path, at, asOf, attempt, toReplay, status, trusted, entryBlocked, clock, live,
                 replayedTo, signalled, entered, wholeHistory>>

\* The strategy raises: the manager settles for a partial replay, the fallback
\* lets the exception end the run.
ReplayRaises ==
  /\ at = "replay" /\ replayed < Len(toReplay)
  /\ IF path = "manager" THEN Concludes("PARTIAL")
                         ELSE at' = "dead" /\ UNCHANGED <<status, trusted, entryBlocked>>
  /\ wholeHistory' = FALSE
  /\ UNCHANGED <<spec, path, asOf, attempt, toReplay, replayed, clock, strategy, live,
                 replayedTo, observed, signalled, entered>>

\* The replay is over: the manager verifies it; the fallback only asks whether
\* its last candle reaches the bucket the clock is in by now.
ReplayEnds ==
  /\ at = "replay" /\ replayed = Len(toReplay)
  /\ IF path = "manager"
       THEN Concludes(Verified(spec, asOf, toReplay))
       ELSE /\ at' = "warmed" /\ trusted' = (Last(toReplay) + Interval >= FloorToInterval(clock))
            /\ UNCHANGED <<status, entryBlocked>>
  /\ UNCHANGED <<spec, path, asOf, attempt, toReplay, replayed, clock, strategy, live, past>>

\* Seeded bug: the context of an untrusted replay is kept.
KeptContext == cross

\* on_warmup_complete: an untrusted replay leaves no context.
ContextKept == IF trusted THEN cross ELSE FreshCross

WarmUpComplete ==
  /\ at = "warmed" /\ at' = "live"
  /\ cross' = ContextKept
  /\ observed' = IF trusted THEN observed ELSE {}
  /\ replayedTo' = IF trusted THEN Last(toReplay) ELSE None
  /\ asOf' = None /\ attempt' = 0 /\ toReplay' = <<>> /\ replayed' = 0 /\ wholeHistory' = FALSE
  /\ UNCHANGED <<spec, path, status, trusted, entryBlocked, emaCount, clock, live, signalled, entered>>

-----------------------------------------------------------------------------
(* Live ticks of the underlying: CandleBuilder.add, and a closed candle.   *)

NewBar(t) == [start |-> FloorToInterval(t), last |-> t, gap |-> FALSE]

\* More than one bucket from the last tick to this one.
Gapped(t) == FloorToInterval(t) - FloorToInterval(bar.last) > Interval
RollsOver(t) == bar # NoBar /\ FloorToInterval(t) > bar.start

\* Seeded bug: the hole is not seen when the bar closes.
OwnMarkOnly(t) == bar.gap
SpansGap(t) == bar.gap \/ Gapped(t)

\* A tick that closes no bar: the first one, one of the bar's own bucket, or a
\* late one, which the open bar absorbs.
Absorbs(t) ==
  /\ ~RollsOver(t)
  /\ bar' = IF bar = NoBar THEN NewBar(t) ELSE [bar EXCEPT !.last = t]
  /\ UNCHANGED <<fed, strategy, observed, signalled, entered>>

\* The bar that closes is fed to the strategy unless it spans a hole.
Closes(t) ==
  /\ RollsOver(t) /\ bar' = NewBar(t)
  /\ IF SpansGap(t)
       THEN UNCHANGED <<fed, strategy, observed, signalled, entered>>
       ELSE /\ fed' = [start |-> bar.start, closedBy |-> FloorToInterval(t)]
            /\ \E raw \in Sides : OnCandle(raw, observed)
            /\ signalled' = IF cross'.signal = 0 THEN signalled ELSE cross'.signal
            /\ entered' = (entered \/ (cross'.signal # 0 /\ CanEnter(t) /\ ~entryBlocked))

\* on_tick for the underlying: a tick that waited in the queue since before the
\* worker was ready, a late one, or one of this minute or a later one.
UnderlyingTick ==
  /\ at = "live"
  /\ \E t \in tickAt - Interval .. Max(Times) :
       /\ tickAt' = t /\ clock' = Max({clock, t})
       /\ IF ClockOf(t) >= SquareOffAt
            THEN at' = "over" /\ UNCHANGED <<bar, fed, strategy, observed, signalled, entered>>
            ELSE /\ UNCHANGED at
                 /\ IF IsOpen(t) THEN Absorbs(t) \/ Closes(t)
                                 ELSE UNCHANGED <<bar, fed, strategy, observed, signalled, entered>>
  /\ UNCHANGED <<spec, path, asOf, attempt, toReplay, replayed, status, trusted, entryBlocked, replayedTo,
                 wholeHistory>>

\* Time the warm-up takes.
TimePasses ==
  /\ at \in {"fetch", "replay"} /\ clock + 1 \in Times /\ clock' = clock + 1
  /\ UNCHANGED <<engine, strategy, live, past>>

WarmUpStep == BeginWarmUp \/ FetchFails \/ FetchAnswers \/ ProviderAnswers \/ ReplayCandle
              \/ ReplayRaises \/ ReplayEnds \/ WarmUpComplete
WarmUpNext == WarmUpStep \/ UnderlyingTick \/ TimePasses

WarmUpSpec == WarmUpInit /\ [][WarmUpNext]_warmUpVars
=============================================================================
