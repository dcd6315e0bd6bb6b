---------------------------- MODULE RiskedTrading ----------------------------
(***************************************************************************)
(* OrderLifecycle under the daily risk guard: every completed round trip   *)
(* is booked into the guard, the open position is marked against the loss  *)
(* cap, a halted guard lets nothing in, and a restarted process rebuilds   *)
(* the guard from what the repository kept of the day.                     *)
(***************************************************************************)
EXTENDS OrderLifecycleProps, DailyRiskGuard

CONSTANT Marks   \* prices the open position may be marked at

VARIABLES guard,
          dayHalted  \* history: a guard has halted the day

risk == <<guard, dayHalted>>

RInit == Init /\ guard = FreshGuard /\ dayHalted = KillSwitch

\* _restore_daily_risk over recover_daily_risk; there is nothing to restore
\* before the first fill of the day created the strategy_state row.
Recovered(g) == IF fills = <<>> THEN g ELSE Restored(g, dayRealised, ClosedCount)

RStart == /\ StartProcess /\ guard' = Recovered(FreshGuard)
          /\ dayHalted' = (dayHalted \/ guard'.halted)

RCrash == Crash /\ guard' = FreshGuard /\ UNCHANGED dayHalted

\* _enter asks the guard; closing never does.
RSignal == /\ RecordSignal /\ (book = NoBook => ~guard.halted)
           /\ UNCHANGED risk

\* Seeded bug: only the trade's gross is booked.
BookTradeGross == RegisterTrade(guard, Gross)

BookTrade == RegisterTrade(guard, Net)

\* TradingEngine._close books the trade when the order returns.
ROutcome ==
  /\ Outcome
  /\ guard' = IF book # NoBook /\ OutcomeAccepted(Status) THEN BookTrade ELSE guard
  /\ dayHalted' = (dayHalted \/ guard'.halted)

\* _on_option_tick's mark; tripping it closes the position on the same tick.
MarkToMarket ==
  /\ pc = "idle" /\ book # NoBook
  /\ \E mark \in Marks : guard' = CheckOpenMtm(guard, book.qty * (mark - book.price))
  /\ guard' # guard /\ dayHalted' = TRUE
  /\ UNCHANGED vars

\* The commits between the decision and the outcome do not touch the guard.
RCommit == (ReserveIntent \/ Submit \/ RecordSubmission \/ ApplyFill) /\ UNCHANGED risk

RNext == RStart \/ RCrash \/ RSignal \/ RCommit \/ ROutcome \/ MarkToMarket

RSpec == RInit /\ [][RNext]_<<vars, risk>>

-----------------------------------------------------------------------------

\* The fills of the positions now open: those after the last that left its
\* contract flat.
FlatAfter(c, i) == SumFunctionOnSet(Signed, {j \in FillsOn(c) : j <= i}) = 0
OpenLegs == {i \in DOMAIN fills :
               \A j \in FillsOn(FilledContract(i)) : i <= j => ~FlatAfter(FilledContract(i), j)}

\* What the day's completed trades really made, and how many there were.
DayNet == dayRealised - LegCharges * (Len(fills) - Cardinality(OpenLegs))
DayTrips == Cardinality({i \in DOMAIN fills : FlatAfter(FilledContract(i), i)})

Trading == pc = "idle" /\ ~blocked /\ ~guard.halted

\* The guard never believes the day worse than it was, and overestimates it by
\* no more than charges: a process that booked every trade itself is exact,
\* and one that recovered part of the day knows it up to its charges, whatever
\* was adopted and wherever the crash fell.
GuardKnowsTheDay ==
  Trading => /\ DayNet <= guard.realised /\ guard.realised <= dayRealised
             /\ session = 1 => guard.realised = DayNet /\ guard.count = DayTrips

\* Past the loss cap before charges no process may trade: neither the one that
\* crossed it nor one started later.
LossCapSurvivesRestarts == Trading /\ MaxLoss > 0 => -MaxLoss < dayRealised

\* What the guard knows of the day, and what it may not forget of it.
GuardIsSound == GuardKnowsTheDay /\ LossCapSurvivesRestarts

-----------------------------------------------------------------------------
(* What the documentation says and the code does not do.                   *)

\* "Once any limit is crossed the guard latches and stays that way until reset
\* at the start of the next day" (daily_guard.py): no process opens anything
\* after the day was halted.
NoEntryAfterHalt ==
  [][dayHalted /\ pc = "idle" /\ pc' = "intent" => book # NoBook]_<<vars, risk>>
=============================================================================
