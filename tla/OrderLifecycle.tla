---------------------------- MODULE OrderLifecycle ----------------------------
(***************************************************************************)
(* The transactions of one strategy's orders: LifecycleGateway._execute    *)
(* over OrderLifecycle.handle_signal over ExecutionRepository.  An order   *)
(* is five commits (signal, intent, submission, and one per fill) with the *)
(* broker's answer between the second and the third; the process may die   *)
(* between any two of them and be started again on what was committed.     *)
(*                                                                         *)
(* The caller is PositionManager: flat, it opens one whole order quantity; *)
(* holding a position, it closes what its book says it holds.              *)
(***************************************************************************)
EXTENDS Integers, Sequences, FiniteSets, Functions

CONSTANTS Contracts, NoContract,
          Sides,        \* of the strategy's entries: 1 buys, -1 writes
          Quantity,     \* lots * lot_size
          Splits,       \* what a fill policy may answer beside the whole quantity
          Prices,       \* what the broker may fill at
          LegCharges,   \* charges of one fill
          Times,        \* exchange timestamps, whole seconds apart
          MaxOrders, MaxStarts   \* bounds

\* A policy that answers nothing, or no positive quantity, is refused
\* (PaperBroker._fill_quantities).
ASSUME OrderAssumption ==
  /\ IsFiniteSet(Contracts) /\ NoContract \notin Contracts
  /\ Sides \subseteq {1, -1} /\ Quantity \in Nat \ {0}
  /\ \A s \in Splits : s \in Seq(Nat \ {0}) /\ s # <<>>
  /\ Prices \subseteq Nat \ {0} /\ LegCharges \in Nat /\ Times \subseteq Nat \ {0}
  /\ MaxOrders \in Nat /\ MaxStarts \in Nat

VARIABLES
  \* --- the database
  signals,    \* rows [contract, at, session]; unique on (contract, at)
  intents,    \* rows [contract, side, qty], by sequence number
  orders,     \* by sequence number: [status, filled]; NoOrder before its row
  fills,      \* rows [order, qty, price], by id
  positions,  \* contract -> row; NoRow before its first fill
  dayRealised,\* strategy_state.daily_realised_pnl
  \* --- the process
  pc,         \* the next commit of the order in hand
  order,      \* the order in hand
  book,       \* PositionManager's position and its _entry_charges
  lastEnd,    \* LifecycleGateway._last_window_end; 0 for none
  blocked,    \* no new entries (a refused recovery, or an exception)
  session     \* runtime_sessions.id; processes started so far

db == <<signals, intents, orders, fills, positions, dayRealised>>
memory == <<order, book, lastEnd, blocked>>
vars == <<db, pc, memory, session>>

Pcs == {"down", "idle", "intent", "submit", "record", "apply", "outcome"}

Abs(n) == IF n < 0 THEN -n ELSE n
Least(a, b) == IF a < b THEN a ELSE b
Greatest(a, b) == IF a > b THEN a ELSE b
SameSign(a, b) == (a > 0) = (b > 0)

NoOrder == [status |-> "NONE", filled |-> 0]
NoRow  == [known |-> FALSE, qty |-> 0, avg |-> 0, realised |-> 0, charges |-> 0]
NoBook == [contract |-> NoContract, qty |-> 0, price |-> 0, charges |-> 0]
NoneInHand == [contract |-> NoContract, side |-> 1, qty |-> 0, price |-> 0,
               left |-> <<>>, made |-> 0]

IsOpenRow(c) == positions[c].qty # 0
OpenPositions == {c \in Contracts : IsOpenRow(c)}

\* ExecutionRepository.closed_position_count
ClosedCount == Cardinality({c \in Contracts : positions[c].known /\ ~IsOpenRow(c)})

FillsOf(n) == {i \in DOMAIN fills : fills[i].order = n}
FilledOf(n) == SumFunctionOnSet([i \in DOMAIN fills |-> fills[i].qty], FillsOf(n))

Init ==
  /\ signals = {} /\ intents = <<>> /\ orders = <<>> /\ fills = <<>>
  /\ positions = [c \in Contracts |-> NoRow] /\ dayRealised = 0
  /\ pc = "down" /\ order = NoneInHand /\ book = NoBook
  /\ lastEnd = [c \in Contracts |-> 0] /\ blocked = FALSE /\ session = 0

-----------------------------------------------------------------------------
(* The process.                                                            *)

\* Seeded bug: adopted at a price of the process's own.
AdoptedUnpriced(c) == [contract |-> c, qty |-> positions[c].qty,
                       price |-> 0, charges |-> positions[c].charges]

\* _adopt_recovered_position over recover_position: the row's quantity,
\* average price and accumulated charges, or refused and entries blocked.
Adopted(c) == [contract |-> c, qty |-> positions[c].qty,
               price |-> positions[c].avg, charges |-> positions[c].charges]

StartProcess ==
  /\ pc = "down" /\ session < MaxStarts
  /\ session' = session + 1 /\ pc' = "idle"
  /\ \/ OpenPositions = {} /\ UNCHANGED <<book, blocked>>
     \/ \E c \in Contracts : OpenPositions = {c} /\ book' = Adopted(c) /\ UNCHANGED blocked
     \/ OpenPositions # {} /\ UNCHANGED book /\ blocked' = TRUE
  /\ UNCHANGED <<db, order, lastEnd>>

Crash ==
  /\ pc # "down" /\ pc' = "down"
  /\ order' = NoneInHand /\ book' = NoBook
  /\ lastEnd' = [c \in Contracts |-> 0] /\ blocked' = FALSE
  /\ UNCHANGED <<db, session>>

\* GatewayExecutionError: run()'s handlers may close the book once more, and
\* the process opens nothing again.
Raise == pc' = "idle" /\ order' = NoneInHand /\ blocked' = TRUE

-----------------------------------------------------------------------------
(* LifecycleGateway._execute and OrderLifecycle.handle_signal.             *)

\* Seeded bug: the decision's own timestamp.
WindowOfTick(c, ts) == ts

\* _window: a strictly increasing end per contract.
Window(c, ts) == IF lastEnd[c] = 0 THEN ts ELSE Greatest(ts, lastEnd[c] + 1)

\* What PositionManager may ask for.
Request(c, side, n) ==
  \/ book = NoBook /\ ~blocked /\ side \in Sides /\ n = Quantity
  \/ book.contract = c /\ n = Abs(book.qty) /\ side = (IF book.qty > 0 THEN -1 ELSE 1)

\* record_signal: one row, or the unique constraint suppresses the order,
\* which the gateway raises on.
RecordSignal ==
  /\ pc = "idle" /\ Len(intents) < MaxOrders
  /\ \E c \in Contracts, side \in {1, -1}, n \in {Quantity, Abs(book.qty)}, ts \in Times :
       LET at == Window(c, ts)
       IN /\ Request(c, side, n)
          /\ lastEnd' = [lastEnd EXCEPT ![c] = at]
          /\ IF \E s \in signals : s.contract = c /\ s.at = at
               THEN Raise /\ UNCHANGED signals
               ELSE /\ signals' = signals \cup {[contract |-> c, at |-> at, session |-> session]}
                    /\ order' = [NoneInHand EXCEPT !.contract = c, !.side = side, !.qty = n]
                    /\ pc' = "intent" /\ UNCHANGED blocked
  /\ UNCHANGED <<intents, orders, fills, positions, dayRealised, book, session>>

\* next_sequence_number and reserve_intent.
ReserveIntent ==
  /\ pc = "intent" /\ pc' = "submit"
  /\ intents' = Append(intents, [contract |-> order.contract, side |-> order.side,
                                 qty |-> order.qty])
  /\ orders' = Append(orders, NoOrder)
  /\ UNCHANGED <<signals, fills, positions, dayRealised, memory, session>>

\* The default policy fills the order whole; an answer above it is refused.
Answers(n) == {<<n>>} \cup {s \in Splits : SumFunction(s) <= n}

\* broker.submit: refused, or an order with fills at one price.
Submit ==
  /\ pc = "submit" /\ pc' = "record"
  /\ \/ UNCHANGED order
     \/ \E s \in Answers(order.qty), p \in Prices :
          order' = [order EXCEPT !.price = p, !.left = s]
  /\ UNCHANGED <<db, book, lastEnd, blocked, session>>

Status == IF order.left = <<>> /\ order.made = 0 THEN "REJECTED"
          ELSE IF SumFunction(order.left) + order.made >= order.qty THEN "FILLED"
          ELSE "PARTIALLY_FILLED"

\* record_submission: the broker's answer in full, before any of its fills.
RecordSubmission ==
  /\ pc = "record"
  /\ orders' = [orders EXCEPT ![Len(intents)] =
                  [status |-> Status, filled |-> SumFunction(order.left)]]
  /\ \/ Status = "REJECTED" /\ Raise
     \/ Status # "REJECTED" /\ pc' = "apply" /\ UNCHANGED <<order, blocked>>
  /\ UNCHANGED <<signals, intents, fills, positions, dayRealised, book, lastEnd, session>>

-----------------------------------------------------------------------------
(* apply_fill: the fill, the order's running totals, the position row and  *)
(* the day's realised P&L, in one transaction.                             *)

\* Closing or reducing realises P&L on the closed portion.
Reduces(row, signed) == row.qty # 0 /\ ~SameSign(row.qty, signed)

Realises(row, signed, price) ==
  IF Reduces(row, signed)
    THEN (IF row.qty > 0 THEN 1 ELSE -1) * Least(Abs(signed), Abs(row.qty)) * (price - row.avg)
    ELSE 0

\* Adding weights the average; prices are in units fine enough to divide.
Average(row, signed, price) ==
  IF Reduces(row, signed) THEN row.avg
  ELSE (row.avg * Abs(row.qty) + price * Abs(signed)) \div (Abs(row.qty) + Abs(signed))

\* _upsert_position
Upserted(row, signed, price) ==
  [known |-> TRUE, qty |-> row.qty + signed, avg |-> Average(row, signed, price),
   realised |-> row.realised + Realises(row, signed, price),
   charges |-> row.charges + LegCharges]

\* Seeded bug: the row's total where the fill's own contribution belongs.
DayAfterOverwrite(row, signed, price) == Upserted(row, signed, price).realised

\* _touch_strategy_state
DayAfter(row, signed, price) == dayRealised + Realises(row, signed, price)

\* Seeded bug: the order row keeps the last fill's quantity.
TotalOfLast(n, fill) == fill

\* The running total, read back from the fills in the same transaction.
RunningTotal(n, fill) == FilledOf(n) + fill

ApplyFill ==
  LET n == Head(order.left)
      signed == order.side * n
      row == positions[order.contract]
      me == Len(intents)
  IN /\ pc = "apply"
     /\ fills' = Append(fills, [order |-> me, qty |-> n, price |-> order.price])
     /\ orders' = [orders EXCEPT ![me] = [status |-> Status, filled |-> RunningTotal(me, n)]]
     /\ positions' = [positions EXCEPT ![order.contract] = Upserted(row, signed, order.price)]
     /\ dayRealised' = DayAfter(row, signed, order.price)
     /\ order' = [order EXCEPT !.left = Tail(@), !.made = @ + n]
     /\ pc' = IF Len(order.left) = 1 THEN "outcome" ELSE "apply"
     /\ UNCHANGED <<signals, intents, book, lastEnd, blocked, session>>

\* _require_a_fill: anything but a whole fill raises.
OutcomeAccepted(status) == status = "FILLED"

LegsOf(n) == Cardinality(FillsOf(n))
OrderCharges == LegCharges * LegsOf(Len(intents))

\* The gross and net of the trade a close completes (PositionManager.close).
Gross == book.qty * (order.price - book.price)
Net   == Gross - book.charges - OrderCharges

\* The gateway returns and PositionManager.open or close finishes.
Outcome ==
  /\ pc = "outcome"
  /\ IF OutcomeAccepted(Status)
       THEN /\ book' = IF book = NoBook
                         THEN [contract |-> order.contract, qty |-> order.side * order.qty,
                               price |-> order.price, charges |-> OrderCharges]
                         ELSE NoBook
            /\ pc' = "idle" /\ order' = NoneInHand /\ UNCHANGED blocked
       ELSE Raise /\ UNCHANGED book
  /\ UNCHANGED <<db, lastEnd, session>>

-----------------------------------------------------------------------------

Next == \/ StartProcess \/ Crash
        \/ RecordSignal \/ ReserveIntent \/ Submit \/ RecordSubmission
        \/ ApplyFill \/ Outcome

Spec == Init /\ [][Next]_vars
=============================================================================
