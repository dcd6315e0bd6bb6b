----------------------------- MODULE ExitPolicies -----------------------------
(***************************************************************************)
(* The exit rules of common/exit and their composite: each closed candle    *)
(* is shown to every configured rule, and the first in priority that fires *)
(* closes the position.  Three rules remember something of the trade (the  *)
(* best profit, the best close, a run of adverse closes); a snapshot of     *)
(* that memory survives the process, is restored by label, and may be      *)
(* older than the last candle or written under another configuration.      *)
(* The percentage trail and its activation are those of PremiumExit.       *)
(***************************************************************************)
EXTENDS Integers, Sequences

CONSTANTS Prices,           \* closes, lows and highs, premiums
          Times,
          StopPoints,       \* stoploss.points
          TargetPoints,     \* target.points
          ClosePoints,      \* highest_close.trail_points
          TrailPoints,      \* trailing.trail_points
          ReverseCandles,   \* consecutive.reverse_candles
          SquareOffTime,    \* square_off.time
          OnPremium,        \* momentum_close.price_stream is "premium"
          BySide            \* basis of momentum_low and highest_close is "side"

VARIABLES position,  \* the open position
          engines,   \* the rules configured in this process
          memory,    \* what the stateful rules remember
          history,   \* the candle before, in this process
          lastFired,
          saved,     \* the stored snapshot
          seen,      \* history: the candles each rule's memory stands for
          savedSeen  \* history: the same of the snapshot

vars == <<position, engines, memory, history, lastFired, saved, seen, savedSeen>>

Priority == [stoploss |-> 10, target |-> 20, momentum_close |-> 30, momentum_low |-> 40,
             highest_close |-> 50, consecutive |-> 60, supertrend |-> 70,
             trailing |-> 80, square_off |-> 90]
Keys == {"stoploss", "target", "momentum_close", "momentum_low", "highest_close",
         "consecutive", "supertrend", "trailing", "square_off"}

None == "none"
NoClose == -1

Candle == [close : Prices, low : Prices, high : Prices, price : Prices,
           trend : {"UP", "DOWN", "NotReady"}, time : Times]
Position == [side : {"BUY", "SELL"}, type : {"CE", "PE"}, entry : Prices]
NoPosition == [side |-> None, type |-> None, entry |-> 0]
HasPosition == position # NoPosition

\* build_exit_engine: the blocks that say so, and the one exit.mode names.
Selected(enabled, mode) == {k \in Keys : k \in enabled \/ k = mode}

-----------------------------------------------------------------------------
(* The rules.  `m` is the memory once it has taken the candle `c` in, `h`   *)
(* the candles before it in this process.                                  *)

Profit(p, c) == IF p.side = "BUY" THEN c.price - p.entry ELSE p.entry - c.price
IsLong(p) == IF BySide THEN p.side = "BUY" ELSE p.type = "CE"

\* A close that goes against a CE or PE, of the underlying.
Adverse(p, before, close) == IF p.type = "CE" THEN close < before ELSE close > before

StopLoss(p, c) == -Profit(p, c) >= StopPoints
FixedTarget(p, c) == Profit(p, c) >= TargetPoints

MomentumClose(h, p, c) ==
  /\ h # <<>>
  /\ IF OnPremium
       THEN IF p.side = "BUY" THEN c.close < h[1].close ELSE c.close > h[1].close
       ELSE Adverse(p, h[1].close, c.close)

MomentumLow(h, p, c) ==
  h # <<>> /\ IF IsLong(p) THEN c.close < h[1].low ELSE c.close > h[1].high

HighestClose(m, p, c) ==
  IF IsLong(p) THEN m.highest_close - c.close >= ClosePoints
               ELSE c.close - m.highest_close >= ClosePoints

ConsecutiveReversal(m) == m.consecutive.streak >= ReverseCandles

SuperTrend(p, c) == c.trend = IF p.type = "CE" THEN "DOWN" ELSE "UP"

Trailing(m, p, c) == m.trailing > 0 /\ m.trailing - Profit(p, c) >= TrailPoints

TimeExit(c) == c.time >= SquareOffTime

Fires(k, m, h, p, c) ==
  CASE k = "stoploss" -> StopLoss(p, c)
    [] k = "target" -> FixedTarget(p, c)
    [] k = "momentum_close" -> MomentumClose(h, p, c)
    [] k = "momentum_low" -> MomentumLow(h, p, c)
    [] k = "highest_close" -> HighestClose(m, p, c)
    [] k = "consecutive" -> ConsecutiveReversal(m)
    [] k = "supertrend" -> SuperTrend(p, c)
    [] k = "trailing" -> Trailing(m, p, c)
    [] k = "square_off" -> TimeExit(c)

-----------------------------------------------------------------------------
(* What the rules remember.                                                *)

\* reset of every child
Fresh == [trailing |-> 0, highest_close |-> NoClose,
          consecutive |-> [streak |-> 0, prev |-> NoClose]]

Peak(peak, p, c) == IF Profit(p, c) > peak THEN Profit(p, c) ELSE peak

Extreme(extreme, p, c) ==
  IF extreme = NoClose \/ (IF IsLong(p) THEN c.close > extreme ELSE c.close < extreme)
  THEN c.close ELSE extreme

Streak(run, p, c) ==
  [streak |-> IF run.prev = NoClose THEN run.streak
              ELSE IF Adverse(p, run.prev, c.close) THEN run.streak + 1 ELSE 0,
   prev   |-> c.close]

\* Every configured child takes the candle in, whichever fires first.
Advance(m, E, p, c) ==
  [trailing      |-> IF "trailing" \in E THEN Peak(m.trailing, p, c) ELSE m.trailing,
   highest_close |-> IF "highest_close" \in E
                     THEN Extreme(m.highest_close, p, c) ELSE m.highest_close,
   consecutive   |-> IF "consecutive" \in E
                     THEN Streak(m.consecutive, p, c) ELSE m.consecutive]

\* The children with something to persist.
Labels(m, E) ==
  {k \in E : \/ k = "trailing" /\ m.trailing > 0
             \/ k = "highest_close" /\ m.highest_close # NoClose
             \/ k = "consecutive" /\ m.consecutive # Fresh.consecutive}

Snapshot(m, E) == [labels |-> Labels(m, E), memory |-> m]
NoSnapshot == [labels |-> {}, memory |-> Fresh]

\* CompositeExit.restore into fresh children: labels that are unknown today are skipped.
Restore(s, E) ==
  LET known == s.labels \cap E IN
  [trailing      |-> IF "trailing" \in known THEN s.memory.trailing ELSE Fresh.trailing,
   highest_close |-> IF "highest_close" \in known
                     THEN s.memory.highest_close ELSE Fresh.highest_close,
   consecutive   |-> IF "consecutive" \in known
                     THEN s.memory.consecutive ELSE Fresh.consecutive]

-----------------------------------------------------------------------------
Firing(E, m, h, p, c) == {k \in E : Fires(k, m, h, p, c)}
\* What the sort by priority and the loop that keeps the first fired come to.
First(S) == CHOOSE k \in S : \A j \in S : Priority[k] <= Priority[j]

Unseen == [trailing |-> <<>>, highest_close |-> <<>>, consecutive |-> <<>>]
Seen(E, c) ==
  [trailing      |-> IF "trailing" \in E THEN Append(seen.trailing, c) ELSE seen.trailing,
   highest_close |-> IF "highest_close" \in E
                     THEN Append(seen.highest_close, c) ELSE seen.highest_close,
   consecutive   |-> IF "consecutive" \in E
                     THEN Append(seen.consecutive, c) ELSE seen.consecutive]

Init ==
  /\ position = NoPosition /\ engines \in SUBSET Keys /\ memory = Fresh /\ history = <<>>
  /\ lastFired = None /\ saved = NoSnapshot /\ seen = Unseen /\ savedSeen = Unseen

\* A fresh position: every child is reset, and the stored state cleared.
Open(p) ==
  /\ ~HasPosition /\ position' = p /\ memory' = Fresh /\ lastFired' = None
  /\ seen' = Unseen /\ saved' = NoSnapshot /\ savedSeen' = Unseen
  /\ UNCHANGED <<engines, history>>

\* CompositeExit.should_exit, and the caller that closes on it.
CandleCloses(c) ==
  LET firing == Firing(engines, memory', history, position, c) IN
  /\ HasPosition
  /\ memory' = Advance(memory, engines, position, c) /\ seen' = Seen(engines, c)
  /\ history' = <<c>>
  /\ IF firing = {} THEN lastFired' = None /\ position' = position
                    ELSE lastFired' = First(firing) /\ position' = NoPosition
  /\ UNCHANGED <<engines, saved, savedSeen>>

\* Candles go on while nothing is held; only momentum rules will see the last.
FlatCandle(c) ==
  /\ ~HasPosition /\ history' = <<c>>
  /\ UNCHANGED <<position, engines, memory, lastFired, saved, seen, savedSeen>>

Checkpoint ==
  /\ HasPosition /\ saved' = Snapshot(memory, engines) /\ savedSeen' = seen
  /\ UNCHANGED <<position, engines, memory, history, lastFired, seen>>

\* A process that is configured with E adopts the position.
Restart(E) ==
  LET known == saved.labels \cap E IN
  /\ engines' = E /\ memory' = Restore(saved, E) /\ history' = <<>> /\ lastFired' = None
  /\ seen' = [trailing      |-> IF "trailing" \in known THEN savedSeen.trailing ELSE <<>>,
              highest_close |-> IF "highest_close" \in known
                                THEN savedSeen.highest_close ELSE <<>>,
              consecutive   |-> IF "consecutive" \in known
                                THEN savedSeen.consecutive ELSE <<>>]
  /\ UNCHANGED <<position, saved, savedSeen>>

Next ==
  \/ \E p \in Position : Open(p)
  \/ \E c \in Candle : CandleCloses(c) \/ FlatCandle(c)
  \/ Checkpoint
  \/ \E E \in SUBSET Keys : Restart(E)

Spec == Init /\ [][Next]_vars
-----------------------------------------------------------------------------
Range1(s) == 1..Len(s)

BestProfit(peak, s, p) ==
  /\ \A i \in Range1(s) : Profit(p, s[i]) <= peak
  /\ peak = 0 \/ \E i \in Range1(s) : Profit(p, s[i]) = peak

BestClose(extreme, s, p) ==
  /\ extreme = NoClose <=> s = <<>>
  /\ s # <<>> => /\ \E i \in Range1(s) : s[i].close = extreme
                 /\ \A i \in Range1(s) : IF IsLong(p) THEN s[i].close <= extreme
                                                     ELSE s[i].close >= extreme

AdverseRun(run, s, p) ==
  /\ run.prev = NoClose <=> s = <<>>
  /\ s = <<>> => run.streak = 0
  /\ s # <<>> =>
       LET n == Len(s)  first == n - run.streak IN
       /\ run.prev = s[n].close /\ run.streak < n
       /\ \A i \in first + 1..n : Adverse(p, s[i - 1].close, s[i].close)
       /\ first > 1 => ~Adverse(p, s[first - 1].close, s[first].close)

(* What the rules remember of an open position is exactly what the candles  *)
(* they have taken in say, whatever checkpoints were missed, and whatever   *)
(* rules were switched on and off between restarts: the best profit, the    *)
(* best close, and the run of adverse closes up to the last candle.         *)
StandsFor(m, s, p) ==
  /\ BestProfit(m.trailing, s.trailing, p)
  /\ BestClose(m.highest_close, s.highest_close, p)
  /\ AdverseRun(m.consecutive, s.consecutive, p)

MemoryIsTheTrade == HasPosition => StandsFor(memory, seen, position)

ProfitIsGivenBack ==
  lastFired # "trailing" /\ lastFired' = "trailing" =>
    LET s == seen'.trailing IN
    \E i \in 1..Len(s) - 1 : /\ Profit(position, s[i]) > 0
                             /\ Profit(position, s[i]) - Profit(position, s[Len(s)])
                                  >= TrailPoints

(* The trail gives back a profit that was really seen, and never closes on  *)
(* the candle that makes the best profit (TrailingExit).                    *)
TrailGivesBack == [][ProfitIsGivenBack]_vars

RunIsReal ==
  lastFired # "consecutive" /\ lastFired' = "consecutive" =>
    LET s == seen'.consecutive  n == Len(s) IN
    /\ n > ReverseCandles
    /\ \A i \in n - ReverseCandles + 1..n :
         Adverse(position, s[i - 1].close, s[i].close)

(* A reversal exit follows as many adverse closes in a row as were asked    *)
(* for, all of them candles of this position (ConsecutiveReversalExit).     *)
ReversalIsARun == [][RunIsReal]_vars

NothingIsForgotten ==
  saved = Snapshot(memory, engines) /\ Restart(engines) => memory' = memory

(* A restart under the same configuration, right after a checkpoint, gives  *)
(* every rule back what it knew (snapshot, restore).                        *)
RestartForgetsNothing == [][NothingIsForgotten]_vars
===============================================================================
