------------------------------- MODULE MCWarmUp -------------------------------
(***************************************************************************)
(* What warm-up promises, and the instance TLC explores: buckets of two    *)
(* minutes, days of twelve with a session of eight (three whole buckets, one  *)
(* begun before the open), a holiday between the last two trading days.    *)
(***************************************************************************)
EXTENDS WarmUp

CONSTANTS NoneNeeded, Raises
MCTradingDays == {0, 1, 3}
EMA(n) == [bars |-> n, local |-> FALSE, volume |-> FALSE, continuity |-> FALSE]
SuperTrend(n) == [EMA(n) EXCEPT !.continuity = TRUE]
VWAP == [EMA(0) EXCEPT !.local = TRUE, !.volume = TRUE]
VolumeEMA(n) == [EMA(n) EXCEPT !.volume = TRUE]
MCIndicatorSets == {{EMA(1), EMA(2)}, {EMA(2), SuperTrend(4)}, {SuperTrend(2), VWAP}, {VolumeEMA(2)},
                    {SuperTrend(0)}}

WarmUpTypeOK ==
  /\ spec \in Specs \cup {NoSpec, RaisingSpec} /\ path \in {"manager", "fallback", "none"}
  /\ at \in {"new", "fetch", "ask", "replay", "warmed", "live", "over", "dead"}
  /\ DayOf(clock) = Today /\ asOf \in {None} \cup Nat /\ attempt \in 0 .. MaxAttempts
  /\ replayed \in Nat /\ (at = "replay" => replayed <= Len(toReplay))
  /\ status \in {"none", "WARMED", "PARTIAL", "COLD_START",
                "SKIPPED_EMPTY", "SKIPPED_SESSION_LOCAL", "SKIPPED_VOLUME"}
  /\ trusted \in BOOLEAN /\ entryBlocked \in BOOLEAN /\ entered \in BOOLEAN /\ wholeHistory \in BOOLEAN
  /\ emaCount \in 0 .. Slow
  /\ cross.side \in Sides /\ cross.candidate \in Sides /\ cross.count \in 0 .. Confirm - 1
  /\ cross.signal \in Sides

\* The exchange's last n whole buckets inside a session that ended by t.
WholeBuckets(n, t) ==
  Newest(n, {b \in 0 .. t : /\ b % Interval = 0 /\ b + Interval <= t
                            /\ DayOf(b) \in TradingDays
                            /\ SessionStart <= ClockOf(b) /\ ClockOf(b) + Interval <= SquareOffAt})

\* A replay the manager trusts ends with exactly the exchange's last min_bars
\* whole buckets, each once and in order, whatever the provider left out:
\* WarmupManager's completeness verification.
TrustedIsCurrent ==
  at = "warmed" /\ trusted /\ path = "manager" =>
    /\ replayed = Len(toReplay) /\ spec.bars <= Len(toReplay)
    /\ SubSeq(toReplay, Len(toReplay) - spec.bars + 1, Len(toReplay))
         = InOrder(WholeBuckets(spec.bars, asOf))

\* A provider that left nothing out is believed, before the open, in the middle
\* of the session and after it, across a holiday: the look-back the manager asks
\* for reaches the buckets it then expects.
CompleteHistoryWarms ==
  at = "warmed" /\ wholeHistory /\ SessionsNeeded(spec.bars) <= MaxLookback => trusted

Signals == fed' # fed /\ cross'.signal # 0

\* No live signal on a side that was already in force when the process came to
\* know the market: one that differs was seen before, in a trusted replay or in
\* live bars ("must not enter a stale signal").
OnlyFreshCrossovers == [][Signals => observed \ {cross'.signal} # {}]_warmUpVars

\* A confirmed side is signalled once: the next signal is the opposite one.
SignalsAlternate == [][Signals => cross'.signal # signalled]_warmUpVars

\* What the crossover tells the engine is news, in both senses.
SignalsAreFresh == OnlyFreshCrossovers /\ SignalsAlternate

\* A strategy whose indicator is path-dependent queues no entry unless its
\* replay was verified complete, and one whose need is unknown queues none.
ContinuityNeedsWarmth ==
  entered => /\ spec # RaisingSpec
             /\ HasSpec /\ spec.continuity => status = "WARMED"

\* What the outcome of a warm-up is taken for is what was replayed.
WarmUpIsSound == WarmUpTypeOK /\ TrustedIsCurrent /\ CompleteHistoryWarms /\ ContinuityNeedsWarmth

\* A bar the strategy is given was closed from the next bucket: one with an
\* empty bucket behind it is kept from the indicators, late ticks or not.
FedBarsHaveNoHole == fed # NoFed => fed.closedBy = fed.start + Interval

\* A bucket is given to the strategy once: in the replay or by the live builder.
NeverDoubleCounted == fed # NoFed => fed.start > replayedTo
=============================================================================
