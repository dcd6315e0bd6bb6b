---- MODULE MCPremiumExit ----
(* PremiumExit for TLC.  An activation of 4 % and a trail of 8 %: a close of   *)
(* 110 arms the trail of an entry at 100, and a later one of 100 fires it.     *)
(* Only safety is checked, so the two legs may be exchanged.                   *)
EXTENDS PremiumExit, TLC

CONSTANTS ce, pe

ExitContracts == {ce, pe}
LegsAreAlike == Permutations(ExitContracts)
ExitPrices == {100, 110}

-----------------------------------------------------------------------------
(* A flat engine holds nothing of the trade it closed: no peak, no previous *)
(* candle, no half-built bar.  A trail is armed only by a close it has seen *)
(* (on_position_closed, _close).                                            *)
TypeOK ==
  /\ pc \in {"down", "idle", "checkpoint", "marks", "close", "clear"}
  /\ exit.ext \in Prices \cup {0} /\ (exit.armed => exit.ext # 0)
  /\ ~HasPosition => exit = NoProgress /\ prev = -1 /\ bar = NoBar /\ ~suppressed
  /\ bar.start >= 0 => bar.start % Interval = 0
  /\ Alive /\ HasPosition => rows[pos.contract].open
  /\ saved.trade <= trade /\ mark <= MaxTime

(* The progress that is stored for a trade never falls while the trade is   *)
(* open, whatever restarts, gaps and failed writes come between: neither    *)
(* the best close, nor the arming of the trail; and an adopted position's   *)
(* best excursion is no less than its row's (_persist_exit_state,           *)
(* _persist_position_marks).                                                *)
ProgressIsKept ==
  [][/\ saved # NoSnapshot /\ saved' # NoSnapshot /\ saved'.trade = saved.trade
          => saved'.ext >= saved.ext /\ (saved.armed => saved'.armed)
     /\ origin' # NoOrigin => pos'.mfe >= rows'[pos'.contract].mfe]_vars

(* An adopted position never runs on the exit state of another contract,    *)
(* although the write that clears it may have failed or never been reached  *)
(* (_restore_exit_state).                                                   *)
ForeignStateRefused == HasPosition /\ origin # NoOrigin => origin.contract = pos.contract

(* The momentum leg closes a position only on two candles of one process    *)
(* that are next to each other, with no silence between them, so that no    *)
(* break is read across a hole or a restart (CombinedCandleExit.on_gap).    *)
MomentumComparesNeighbours ==
  [][pc = "idle" /\ reason' \in {"MOMENTUM_LOW", "MOMENTUM_AND_TRAIL"}
       => prev >= 0 /\ bar.start = prev + Interval]_vars

(* A candle that the stored exit state stands for is not counted again when *)
(* a restarted worker is given the day's ticks a second time                *)
(* (_last_processed_candle_end).                                            *)
CandlesCountOnce == [][prev' # prev /\ prev' # -1 => prev' > counted]_vars

(* No exit state crosses trades in memory, nor contracts in the database.   *)
ExitStateIsSound == TypeOK /\ ForeignStateRefused

(* "Every actual close ... clears all premium-exit state so trade N+1       *)
(* starts clean" (strategy.py:291): a trade none of whose candles has been  *)
(* counted has no best close to trail from.                                 *)
TradeStartsClean == HasPosition /\ counted = -1 => exit.ext = 0
====
