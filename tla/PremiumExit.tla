----------------------------- MODULE PremiumExit -----------------------------
(***************************************************************************)
(* The premium-candle exit of TradingEngine with EmaCross9x21BuyStrategy:  *)
(* the builder of the held contract's own candles, CombinedCandleExit      *)
(* (momentum break, or a trail from the best close), the checkpoint after  *)
(* every candle, the clearing write after a close, and what a restarted    *)
(* worker rebuilds from them.  Positions are bought; an underlying candle  *)
(* only matters for its signal and its checkpoint.  After a restart the    *)
(* feed may replay the day from any earlier trade.  Lowest close, adverse  *)
(* excursion, the lows and the report's fields are left out.               *)
(***************************************************************************)
EXTENDS Integers, FiniteSets

CONSTANTS Contracts,      \* one per leg
          Prices,         \* premiums
          Interval,       \* option_candle_interval, in units of the clock
          ActivationPct,  \* activation.minimum_favourable_move_percentage
          TrailPct,       \* trail_percentage
          MaxTime, MaxTrades, MaxStarts \* bounds

VARIABLES
  \* --- the database
  rows,       \* positions: one row a contract and day, used again by a re-entry
  saved,      \* strategy_state.payload["exit_state"], and the trade it was written for
  mark,       \* strategy_state.last_candle_end_at
  \* --- the engine
  pc,         \* what the handler in progress still has to do
  pos,        \* the open position
  pending,    \* contract waiting for its first tick
  bar,        \* the builder's open bar
  lastTick,   \* _last_option_tick_ts
  watermark,  \* _last_processed_candle_end
  reason,     \* of the close in progress
  \* --- the strategy
  exit,       \* the trail's extreme close and activation
  prev,       \* start of _prev_premium_candle
  suppressed, \* _suppress_momentum_once
  \* --- the stream
  at,         \* delivered up to here
  firsts,     \* the times of the ticks that opened a bar since the entry
  \* --- history
  trade, starts,
  counted,    \* the last bar this trade's exit state stands for
  origin      \* the snapshot the exit state was restored from

db == <<rows, saved, mark>>
builderVars == <<bar, lastTick>>
strategyVars == <<exit, prev, suppressed>>
memory == <<pc, pos, pending, builderVars, watermark, reason, strategyVars>>
historyVars == <<trade, starts, counted, origin>>
vars == <<db, memory, at, firsts, historyVars>>

None == "none"

ASSUME PremiumAssumption ==
  /\ None \notin Contracts
  /\ Prices \subseteq Nat \ {0} /\ Interval \in Nat \ {0} /\ MaxTime \in Nat
  /\ ActivationPct \in Nat /\ TrailPct \in Nat /\ MaxTrades \in Nat /\ MaxStarts \in Nat

NoRow == [known |-> FALSE, open |-> FALSE, price |-> 0, mfe |-> 0, at |-> 0]
NoSnapshot == [contract |-> None, ext |-> 0, armed |-> FALSE, trade |-> 0, counted |-> -1]
NoPosition == [contract |-> None, price |-> 0, mfe |-> 0]
NoBar == [start |-> -1, close |-> 0]
NoProgress == [ext |-> 0, armed |-> FALSE]
NoOrigin == [contract |-> None, trade |-> 0]

Alive == pc # "down"
HasPosition == pos # NoPosition

ForgetMemory ==
  /\ pos' = NoPosition /\ pending' = None /\ bar' = NoBar /\ lastTick' = -1
  /\ watermark' = -1 /\ reason' = None
  /\ exit' = NoProgress /\ prev' = -1 /\ suppressed' = FALSE

Init ==
  /\ rows = [c \in Contracts |-> NoRow] /\ saved = NoSnapshot /\ mark = -1
  /\ pc = "down" /\ pos = NoPosition /\ pending = None /\ bar = NoBar /\ lastTick = -1
  /\ watermark = -1 /\ reason = None
  /\ exit = NoProgress /\ prev = -1 /\ suppressed = FALSE
  /\ at = 0 /\ firsts = {}
  /\ trade = 0 /\ starts = 0 /\ counted = -1 /\ origin = NoOrigin

-----------------------------------------------------------------------------
(* Starting on what a previous process left.                               *)

\* Seeded bug: nothing is restored, and the trail starts from today's price.
RestoreNothing(c) == FALSE

\* Seeded bug: the snapshot's contract is not compared with the adopted one.
RestoreAnything(c) == saved # NoSnapshot

\* _restore_exit_state: only a snapshot of the adopted contract.
Restorable(c) == saved.contract = c

\* Seeded bug: the worker restarts without the candle it had processed last.
NoMark == -1

\* recover_position: last_candle_end_at of the row.
RecoveredMark == mark

AdoptedPosition(c) == [contract |-> c, price |-> rows[c].price, mfe |-> rows[c].mfe]

\* CandleBuilder.retarget
Retarget == bar' = NoBar

\* _adopt_recovered_position; nothing is written.
Adopt(c) ==
  LET own == Restorable(c) IN
  /\ pos' = AdoptedPosition(c) /\ Retarget
  /\ lastTick' = rows[c].at /\ watermark' = RecoveredMark
  /\ exit' = IF own THEN [ext |-> saved.ext, armed |-> saved.armed] ELSE NoProgress
  /\ counted' = IF own /\ saved.trade = trade THEN saved.counted ELSE -1
  /\ origin' = IF own THEN [contract |-> saved.contract, trade |-> saved.trade] ELSE NoOrigin
  \* the live feed goes on from here; an offline one starts again somewhere
  /\ \E s \in {at} \cup firsts : at' = s
  /\ pending' = None /\ reason' = None
  /\ prev' = -1 /\ suppressed' = FALSE

Start ==
  /\ ~Alive /\ starts < MaxStarts /\ starts' = starts + 1 /\ pc' = "idle"
  /\ \/ \E c \in Contracts : rows[c].open /\ Adopt(c)
     \/ /\ \A c \in Contracts : ~rows[c].open
        /\ ForgetMemory /\ UNCHANGED <<at, counted, origin>>
  /\ UNCHANGED <<db, firsts, trade>>

Die ==
  /\ Alive /\ pc' = "down" /\ ForgetMemory /\ counted' = -1 /\ origin' = NoOrigin
  /\ UNCHANGED <<db, at, firsts, trade, starts>>

-----------------------------------------------------------------------------
(* The stream.  What was delivered once is delivered again by a replay.    *)

Delivers(t) == t \in at..MaxTime /\ \A x \in firsts : ~(at < x /\ x < t)
Bucket(t) == t - (t % Interval)

-----------------------------------------------------------------------------
(* CombinedCandleExit.should_exit on a closed bar of a bought contract.    *)

Higher(a, b) == IF a > b THEN a ELSE b
Extreme(b) == Higher(exit.ext, b.close)

\* HighestCloseExit's gate, which stays armed for the life of the position.
Armed(b) == exit.armed \/ (Extreme(b) - pos.price) * 100 >= ActivationPct * pos.price

TrailFires(b) == Armed(b) /\ (Extreme(b) - b.close) * 100 >= TrailPct * Extreme(b)

\* MomentumLowExit: against the low of the previous completed candle, when there
\* is one; whether the close is below it is left open.
MomentumMayFire == ~suppressed /\ prev # -1

\* exit_reason, by which legs fired.
ReasonFor(momentum, trail) ==
  IF momentum THEN IF trail THEN "MOMENTUM_AND_TRAIL" ELSE "MOMENTUM_LOW"
  ELSE IF trail THEN "HIGHEST_CLOSE_TRAIL" ELSE None

\* on_option_candle, then the close or the checkpoint.
Evaluate(b) ==
  /\ exit' = [ext |-> Extreme(b), armed |-> Armed(b)]
  /\ prev' = b.start /\ suppressed' = FALSE /\ counted' = b.start
  /\ \E broken \in IF MomentumMayFire THEN BOOLEAN ELSE {FALSE} :
       reason' = ReasonFor(broken, TrailFires(b))
  /\ pc' = IF reason' = None THEN "checkpoint" ELSE "close"

-----------------------------------------------------------------------------
(* The builder, and the ticks of the held contract.                        *)

NewBar(t, p) == [start |-> Bucket(t), close |-> p]
Absorb(p) == [bar EXCEPT !.close = p]

\* CandleBuilder.add; the bar it returns is the one it replaces.
Completes(t) == bar # NoBar /\ Bucket(t) > bar.start
Add(t, p) == bar' = IF bar = NoBar \/ Completes(t) THEN NewBar(t, p) ELSE Absorb(p)

\* A silence longer than one interval.
PremiumGap(t) == lastTick >= 0 /\ t - lastTick > Interval

\* Seeded bug: the bar is dropped and the strategy never hears of it.
GapNotTold == UNCHANGED strategyVars

\* CombinedCandleExit.on_gap: the next comparison is left out, the trail is not.
OnGap == suppressed' = TRUE /\ UNCHANGED exit

\* on_option_candle_gap: the strategy forgets its previous premium candle too.
OnOptionCandleGap == OnGap /\ prev' = -1

\* Replays of what the row's last checkpoint already stands for are refused.
Refused(t) == watermark >= 0 /\ t <= watermark

Watched(t, p) ==
  /\ pc = "idle" /\ HasPosition /\ Delivers(t) /\ (t = at => lastTick < t)
  /\ at' = t
  /\ pos' = [pos EXCEPT !.mfe = Higher(@, p - pos.price)]
  /\ UNCHANGED <<db, pending, watermark, trade, starts, origin>>

\* _on_option_tick: the risk manager or the daily cap decides first.
HardExit(t, p) ==
  /\ Watched(t, p) /\ pc' = "close" /\ reason' = "HARD"
  /\ UNCHANGED <<firsts, builderVars, strategyVars, counted>>

\* _check_premium_candle_exit, after a gap.
TickAfterGap(t, p) ==
  /\ Watched(t, p) /\ PremiumGap(t) /\ OnOptionCandleGap
  /\ lastTick' = t /\ bar' = NewBar(t, p) /\ firsts' = firsts \cup {t}
  /\ UNCHANGED <<pc, reason, counted>>

\* _check_premium_candle_exit otherwise.
PremiumTick(t, p) ==
  /\ Watched(t, p) /\ ~PremiumGap(t) /\ lastTick' = t /\ Add(t, p)
  /\ firsts' = IF bar = NoBar \/ Completes(t) THEN firsts \cup {t} ELSE firsts
  /\ IF Completes(t) /\ ~Refused(t) THEN Evaluate(bar)
     ELSE UNCHANGED <<pc, reason, strategyVars, counted>>

\* _touch_strategy_state: the commit of a fill also moves the mark, to its own
\* time, wherever the mark was.
Touch(t) == mark' = t

\* The pending entry's first tick; a re-entry keeps the row's marks and opened_at.
Open(t, p) ==
  /\ pc = "idle" /\ ~HasPosition /\ pending # None /\ t \in at..MaxTime
  /\ at' = t /\ pending' = None /\ trade' = trade + 1
  /\ rows' = [rows EXCEPT ![pending] = IF @.known THEN [@ EXCEPT !.open = TRUE, !.price = p]
                                       ELSE [known |-> TRUE, open |-> TRUE, price |-> p, mfe |-> 0, at |-> t]]
  /\ pos' = [contract |-> pending, price |-> p, mfe |-> 0]
  /\ Retarget /\ lastTick' = t /\ firsts' = {} /\ counted' = -1 /\ origin' = NoOrigin
  /\ Touch(t) /\ UNCHANGED <<saved, pc, watermark, reason, strategyVars, starts>>

\* ... or it comes when entries are over.
Lapse(t) ==
  /\ pc = "idle" /\ ~HasPosition /\ pending # None /\ t \in at..MaxTime /\ at' = t /\ pending' = None
  /\ UNCHANGED <<db, pc, pos, builderVars, watermark, reason, strategyVars, firsts, historyVars>>

-----------------------------------------------------------------------------
(* Underlying candles.                                                     *)

\* Its tick stream is dense: a candle closes on the boundary of its interval.
UnderlyingCloses(t) == t % Interval = 0 /\ Delivers(t)

\* _on_candle_close: no signal, or ENTER of the leg already held.
QuietCandle(t) ==
  /\ pc = "idle" /\ HasPosition /\ UnderlyingCloses(t) /\ ~Refused(t)
  /\ at' = t /\ pc' = "checkpoint"
  /\ UNCHANGED <<db, pos, pending, builderVars, watermark, reason, strategyVars, firsts, historyVars>>

\* EXIT, or ENTER of the other leg (which is then pending), or ENTER when flat.
SignalCandle(t, c) ==
  /\ pc = "idle" /\ UnderlyingCloses(t) /\ ~Refused(t) /\ at' = t
  /\ c # None => trade < MaxTrades /\ pending # c
  /\ IF HasPosition THEN /\ pos.contract # c /\ pc' = "close" /\ reason' = "SIGNAL"
                    ELSE c # None /\ UNCHANGED <<pc, reason>>
  /\ pending' = c
  /\ UNCHANGED <<db, pos, builderVars, watermark, strategyVars, firsts, historyVars>>

-----------------------------------------------------------------------------
(* The writes.  Each is one commit; a failed one is logged and forgotten.  *)

\* save_strategy_state; a column that is given nothing keeps what it has.
SaveStrategyState(payload, end) == saved' = payload /\ mark' = IF end = -1 THEN mark ELSE end

\* update_position_marks, of an open row only.
UpdatePositionMarks(c, mfe) ==
  rows' = [rows EXCEPT ![c].mfe = IF rows[c].open THEN mfe ELSE @]

\* on_position_closed
ResetExitState == exit' = NoProgress /\ prev' = -1 /\ suppressed' = FALSE

\* _close, up to the commit of the closing fill and the hooks after it.  The
\* price of a closed row is never read again.
Close ==
  /\ pc = "close" /\ pc' = "clear" /\ ResetExitState
  /\ rows' = [rows EXCEPT ![pos.contract].open = FALSE, ![pos.contract].price = 0]
  /\ pos' = NoPosition /\ bar' = NoBar /\ lastTick' = -1 /\ reason' = None
  /\ counted' = -1 /\ origin' = NoOrigin
  /\ firsts' = {} /\ Touch(at) /\ UNCHANGED <<saved, pending, watermark, at, trade, starts>>

\* _persist_exit_state once flat.
Clear ==
  /\ pc = "clear" /\ pc' = "idle"
  /\ SaveStrategyState(NoSnapshot, -1) \/ UNCHANGED <<saved, mark>>
  /\ UNCHANGED <<rows, pos, pending, builderVars, watermark, reason, strategyVars, at,
                 firsts, historyVars>>

Snapshot == [contract |-> pos.contract, ext |-> exit.ext, armed |-> exit.armed, trade |-> trade,
             counted |-> counted]

\* _persist_exit_state of an open position: snapshot and mark in one write.
PersistExitState ==
  /\ pc = "checkpoint" /\ pc' = "marks"
  /\ SaveStrategyState(Snapshot, at) \/ UNCHANGED <<saved, mark>>
  /\ UNCHANGED <<rows, pos, pending, builderVars, watermark, reason, strategyVars, at, firsts,
                 historyVars>>

\* _persist_position_marks
PersistMarks ==
  /\ pc = "marks" /\ pc' = "idle"
  /\ UpdatePositionMarks(pos.contract, pos.mfe) \/ UNCHANGED rows
  /\ UNCHANGED <<saved, mark, pos, pending, builderVars, watermark, reason, strategyVars, at, firsts,
                 historyVars>>

-----------------------------------------------------------------------------
Next ==
  \/ Start \/ Die \/ Close \/ Clear \/ PersistExitState \/ PersistMarks
  \/ \E t \in 0..MaxTime :
       \/ Lapse(t) \/ QuietCandle(t)
       \/ \E c \in Contracts \cup {None} : SignalCandle(t, c)
       \/ \E p \in Prices : HardExit(t, p) \/ TickAfterGap(t, p) \/ PremiumTick(t, p) \/ Open(t, p)

Spec == Init /\ [][Next]_vars
=============================================================================
