------------------------- MODULE OrderLifecycleProps -------------------------
(***************************************************************************)
(* What must hold of OrderLifecycle, and what its documentation says.      *)
(***************************************************************************)
EXTENDS OrderLifecycle

Row == [known : BOOLEAN, qty : Int, avg : Nat, realised : Int, charges : Nat]

TypeOK ==
  /\ pc \in Pcs /\ blocked \in BOOLEAN /\ session \in 0 .. MaxStarts
  /\ \A s \in signals : s.contract \in Contracts /\ s.at \in Nat /\ s.session \in 1 .. session
  /\ Len(orders) = Len(intents) /\ Len(intents) <= MaxOrders
  /\ \A n \in DOMAIN orders : orders[n].status \in {"NONE", "FILLED", "PARTIALLY_FILLED", "REJECTED"}
  /\ positions \in [Contracts -> Row] /\ dayRealised \in Int
  /\ book.contract \in Contracts \cup {NoContract}

FilledContract(i) == intents[fills[i].order].contract
FillsOn(c) == {i \in DOMAIN fills : FilledContract(i) = c}
Signed == [i \in DOMAIN fills |-> intents[fills[i].order].side * fills[i].qty]

\* "A fill that moved the position but did not update the order, or vice
\* versa, is silent corruption" (repository.py): at every commit each position
\* row is the sum of the fills on it, each filled order the sum of its own and
\* never more than was asked for, whatever was cut off by a crash.
FillsMakeTheBook ==
  /\ \A c \in Contracts :
       /\ positions[c].qty = SumFunctionOnSet(Signed, FillsOn(c))
       /\ positions[c].charges = LegCharges * Cardinality(FillsOn(c))
  /\ \A n \in DOMAIN orders : FilledOf(n) <= intents[n].qty
  /\ \A i \in DOMAIN fills : orders[fills[i].order].filled = FilledOf(fills[i].order)

Cash == [i \in DOMAIN fills |-> -(Signed[i] * fills[i].price)]

\* What the tables hold is well-formed and agrees, at every commit.
RowsAreSound == TypeOK /\ FillsMakeTheBook

\* The day's realised P&L is the rows' total, and that of a closed contract is
\* the cash its fills brought in, over any number of round trips, contracts
\* and restarts (_touch_strategy_state accumulates, never overwrites).
RealisedIsCash ==
  /\ dayRealised = SumFunction([c \in Contracts |-> positions[c].realised])
  /\ \A c \in Contracts \ OpenPositions :
       positions[c].realised = SumFunctionOnSet(Cash, FillsOn(c))

\* Between orders the book in memory is the row in the table, in quantity and
\* in entry price: the "Trade and the database agree by construction"
\* (gateway.py, _outcome), also after an adoption.
BookAgreesWithRows ==
  pc = "idle" /\ ~blocked =>
    /\ OpenPositions = (IF book = NoBook THEN {} ELSE {book.contract})
    /\ \A c \in OpenPositions : positions[c].qty = book.qty /\ positions[c].avg = book.price

\* The unique constraint never suppresses an order over a row of the same
\* process (gateway.py, _window): a close cannot be lost to a second order in
\* the same exchange second.
NeverSuppressesItself ==
  [][pc = "idle" /\ pc' = "idle" =>
       \E s \in signals : s.at = lastEnd'[s.contract] /\ s.session < session]_vars

-----------------------------------------------------------------------------
(* What the documentation says and the code does not do.                   *)

\* "Fill + order update + position update + strategy state commit together"
\* (repository.py): between orders, and after a crash, an order row reports
\* the quantity its fills do.
OrdersReportTheirFills ==
  pc \in {"down", "idle"} => \A n \in DOMAIN orders : orders[n].filled = FilledOf(n)
=============================================================================
