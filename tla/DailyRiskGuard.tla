---------------------------- MODULE DailyRiskGuard ----------------------------
(***************************************************************************)
(* The day-level risk limits of common/engine/daily_guard.py, as pure      *)
(* operators on the guard's state.                                         *)
(***************************************************************************)
EXTENDS Integers

CONSTANTS MaxLoss,       \* daily_max_loss; 0 disables
          ProfitTarget,  \* daily_profit_target; 0 for None
          MaxTrades,     \* max_trades; 0 disables
          KillSwitch

ASSUME GuardAssumption ==
  /\ MaxLoss \in Nat /\ ProfitTarget \in Nat /\ MaxTrades \in Nat
  /\ KillSwitch \in BOOLEAN

\* reset, at the start of the day.
FreshGuard == [realised |-> 0, count |-> 0, halted |-> KillSwitch]

OverLimit(realised, count) ==
  \/ MaxLoss > 0 /\ realised <= -MaxLoss
  \/ ProfitTarget > 0 /\ realised >= ProfitTarget
  \/ MaxTrades > 0 /\ count >= MaxTrades

Booked(g, realised, count) ==
  IF g.halted THEN g
  ELSE [realised |-> realised, count |-> count, halted |-> OverLimit(realised, count)]

\* Both are no-ops once halted.
Restored(g, realised, count) == Booked(g, realised, count)
RegisterTrade(g, net) == Booked(g, g.realised + net, g.count + 1)

\* check_open_mtm: the loss cap on realised plus the open position's mark.
CheckOpenMtm(g, open) ==
  IF g.halted \/ MaxLoss = 0 THEN g
  ELSE [g EXCEPT !.halted = g.realised + open <= -MaxLoss]
=============================================================================
