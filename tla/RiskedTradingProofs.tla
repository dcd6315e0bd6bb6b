------------------------- MODULE RiskedTradingProofs -------------------------
(* The order transactions and the risk guard over them, for any contracts,    *)
(* prices, fill policy and number of orders, crashes and restarts.            *)
EXTENDS RiskedTrading, SumTheorems

-----------------------------------------------------------------------------
(* The order in hand and the tables.                                         *)

InOrder == pc \in {"intent", "submit", "record", "apply", "outcome"}
Filling == pc \in {"apply", "outcome"}
Me == Len(intents)

IntentRow == [contract : Contracts, side : {1, -1}, qty : Nat \ {0}]
OrderRow == [status : {"NONE", "FILLED", "PARTIALLY_FILLED", "REJECTED"}, filled : Nat]
FillRow == [order : Nat, qty : Nat \ {0}, price : Nat \ {0}]
InHand == [contract : Contracts \cup {NoContract}, side : {1, -1}, qty : Nat, price : Nat,
           left : Seq(Nat \ {0}), made : Nat]
BookRow == [contract : Contracts \cup {NoContract}, qty : Int, price : Nat, charges : Nat]

TablesType ==
  /\ intents \in Seq(IntentRow) /\ orders \in Seq(OrderRow) /\ Len(orders) = Len(intents)
  /\ fills \in Seq(FillRow) /\ \A i \in DOMAIN fills : fills[i].order \in 1..Len(intents)
  /\ dayRealised \in Int

PositionsType == positions \in [Contracts -> Row]

ProcessType ==
  /\ pc \in Pcs /\ session \in 0..MaxStarts /\ lastEnd \in [Contracts -> Nat]
  /\ order \in InHand /\ book \in BookRow
  /\ book = NoBook \/ (book.contract \in Contracts /\ book.qty # 0)
  /\ pc \in {"down", "idle"} => order = NoneInHand
  /\ pc = "down" => book = NoBook

BlockedType == blocked \in BOOLEAN /\ (pc = "down" => ~blocked)

\* A signal of this process lies before the end of its window.
SignalsType ==
  \A s \in signals :
    /\ s.contract \in Contracts /\ s.at \in Nat \ {0} /\ s.session \in 1..session
    /\ pc # "down" /\ s.session = session => s.at <= lastEnd[s.contract]

StartedOnce == pc # "down" => session # 0

\* What PositionManager asked for, until the order is over: to open from flat,
\* or to close what the book says it holds.
OrderIsAsked ==
  InOrder =>
    /\ order.contract \in Contracts /\ order.qty \in Nat \ {0}
    /\ IF book = NoBook
         THEN ~blocked /\ order.qty = Quantity
         ELSE /\ book.contract = order.contract /\ order.qty = Abs(book.qty)
              /\ order.side = (IF book.qty > 0 THEN -1 ELSE 1)

\* The row of the order in hand, and how far it is filled.
OrderIsFiled ==
  /\ Len(intents) <= MaxOrders /\ (pc = "intent" => Len(intents) < MaxOrders)
  /\ pc \in {"submit", "record", "apply", "outcome"} =>
       /\ Me >= 1
       /\ intents[Me] = [contract |-> order.contract, side |-> order.side, qty |-> order.qty]
  /\ pc \in {"submit", "record"} => FillsOf(Me) = {}
  /\ pc \in {"intent", "submit"} => order.left = <<>>
  /\ pc \in {"intent", "submit", "record"} => order.made = 0
  /\ pc \in {"record", "apply", "outcome"} =>
       SumFunction(order.left) + order.made <= order.qty /\ (order.left # <<>> => order.price # 0)
  /\ Filling => FilledOf(Me) = order.made
  /\ pc = "apply" => order.left # <<>>
  /\ pc = "outcome" => order.left = <<>> /\ order.made # 0 /\ order.price # 0

RowsAreSums ==
  \A c \in Contracts : positions[c].qty = SumFunctionOnSet(Signed, FillsOn(c))
ChargesAreSums ==
  \A c \in Contracts : positions[c].charges = LegCharges * Cardinality(FillsOn(c))
NoOverfill == \A n \in DOMAIN orders : FilledOf(n) <= intents[n].qty
OrdersAgree == \A i \in DOMAIN fills : orders[fills[i].order].filled = FilledOf(fills[i].order)

TablesAgree == RowsAreSums /\ ChargesAreSums /\ NoOverfill /\ OrdersAgree

OrderInv ==
  /\ TablesType /\ PositionsType /\ ProcessType /\ BlockedType /\ SignalsType
  /\ StartedOnce /\ OrderIsAsked /\ OrderIsFiled /\ TablesAgree

-----------------------------------------------------------------------------
(* The fills, and what their sums are of.                                    *)

LEMMA FillsAreFinite ==
  ASSUME TablesType
  PROVE  /\ DOMAIN fills = 1..Len(fills) /\ Len(fills) \in Nat /\ IsFiniteSet(DOMAIN fills)
         /\ DOMAIN intents = 1..Len(intents) /\ DOMAIN orders = DOMAIN intents
         /\ Len(intents) \in Nat
         /\ \A i \in DOMAIN fills : fills[i] \in FillRow /\ fills[i].order \in DOMAIN intents
         /\ \A n \in DOMAIN intents : intents[n] \in IntentRow
         /\ \A n \in DOMAIN orders : orders[n] \in OrderRow
<1>1. /\ DOMAIN fills = 1..Len(fills) /\ Len(fills) \in Nat
      /\ \A i \in DOMAIN fills : fills[i] \in FillRow
  BY DEF TablesType
<1>2. /\ DOMAIN intents = 1..Len(intents) /\ Len(intents) \in Nat
      /\ \A n \in DOMAIN intents : intents[n] \in IntentRow
  BY DEF TablesType
<1>3. DOMAIN orders = 1..Len(intents) /\ \A n \in DOMAIN orders : orders[n] \in OrderRow
  BY DEF TablesType
<1>4. IsFiniteSet(1..Len(fills))
  BY <1>1, FS_Interval
<1> QED BY <1>1, <1>2, <1>3, <1>4 DEF TablesType

LEMMA SubsetsOfFills ==
  ASSUME TablesType, NEW n, NEW c
  PROVE  /\ FillsOf(n) \subseteq DOMAIN fills /\ IsFiniteSet(FillsOf(n))
         /\ FillsOn(c) \subseteq DOMAIN fills /\ IsFiniteSet(FillsOn(c))
<1>1. FillsOf(n) \subseteq DOMAIN fills /\ FillsOn(c) \subseteq DOMAIN fills
  BY DEF FillsOf, FillsOn
<1> QED BY <1>1, FillsAreFinite, FS_Subset

Quantities == [i \in DOMAIN fills |-> fills[i].qty]

LEMMA FilledByQuantities == ASSUME NEW n PROVE FilledOf(n) = SumFunctionOnSet(Quantities, FillsOf(n))
BY DEF FilledOf, Quantities

LEMMA SummandsAreInt ==
  ASSUME TablesType
  PROVE  \A i \in DOMAIN fills : /\ Quantities[i] \in Nat /\ Quantities[i] = fills[i].qty
                                 /\ Signed[i] \in Int /\ Cash[i] \in Int
<1> SUFFICES ASSUME NEW i \in DOMAIN fills
             PROVE  /\ Quantities[i] \in Nat /\ Quantities[i] = fills[i].qty
                    /\ Signed[i] \in Int /\ Cash[i] \in Int
  OBVIOUS
<1>1. fills[i].qty \in Nat /\ fills[i].price \in Nat /\ intents[fills[i].order].side \in {1, -1}
  BY FillsAreFinite DEF FillRow, IntentRow
<1>2. Signed[i] = intents[fills[i].order].side * fills[i].qty
  BY DEF Signed
<1>3. Cash[i] = -(Signed[i] * fills[i].price)
  BY DEF Cash
<1>4. Signed[i] \in Int
  BY <1>1, <1>2
<1>5. Cash[i] \in Int
  BY <1>1, <1>3, <1>4
<1> QED BY <1>1, <1>4, <1>5 DEF Quantities

LEMMA FilledIsNat == ASSUME TablesType, NEW n PROVE FilledOf(n) \in Nat
<1>1. \A i \in FillsOf(n) : Quantities[i] \in Nat
  BY SubsetsOfFills, SummandsAreInt
<1>2. SumFunctionOnSet(Quantities, FillsOf(n)) \in Nat
  BY <1>1, SubsetsOfFills, SumIsNat
<1> QED BY <1>2, FilledByQuantities

\* Where no fill is written and no intent, every sum stays.
LEMMA SumsStay ==
  ASSUME UNCHANGED <<fills, intents>>
  PROVE  /\ \A n : FilledOf(n)' = FilledOf(n) /\ FillsOf(n)' = FillsOf(n)
         /\ \A c : FillsOn(c)' = FillsOn(c)
         /\ Signed' = Signed /\ Cash' = Cash /\ Me' = Me
<1>1. \A n : FillsOf(n)' = FillsOf(n)
  BY DEF FillsOf
<1>2. \A c : FillsOn(c)' = FillsOn(c)
  BY DEF FillsOn, FilledContract
<1>3. Signed' = Signed
  BY DEF Signed
<1>4. Cash' = Cash
  BY <1>3 DEF Cash
<1>5. \A n : FilledOf(n)' = FilledOf(n)
  BY <1>1 DEF FilledOf
<1> QED BY <1>1, <1>2, <1>3, <1>4, <1>5 DEF Me

\* A new intent has no fill, and the old ones keep theirs.
LEMMA SumsStayOnReserve ==
  ASSUME TablesType, ReserveIntent
  PROVE  /\ \A n : FilledOf(n)' = FilledOf(n) /\ FillsOf(n)' = FillsOf(n)
         /\ \A c : FillsOn(c)' = FillsOn(c)
         /\ Signed' = Signed /\ Cash' = Cash
         /\ Me' = Me + 1 /\ FillsOf(Me + 1) = {} /\ FilledOf(Me + 1) = 0
         /\ \A n \in DOMAIN intents : intents'[n] = intents[n]
<1>0. fills' = fills
  BY DEF ReserveIntent
<1> DEFINE new == [contract |-> order.contract, side |-> order.side, qty |-> order.qty]
<1>1. intents' = Append(intents, new)
  BY DEF ReserveIntent
<1> HIDE DEF new
<1>2. \A n \in DOMAIN intents : intents'[n] = intents[n]
  BY <1>1 DEF TablesType
<1>3. Me' = Me + 1
  BY <1>1 DEF TablesType, Me
<1>4. \A i \in DOMAIN fills : intents'[fills[i].order] = intents[fills[i].order]
  BY <1>2, FillsAreFinite
<1>5. \A n : FillsOf(n)' = FillsOf(n)
  BY <1>0 DEF FillsOf
<1>6. \A n : FilledOf(n)' = FilledOf(n)
  BY <1>0, <1>5 DEF FilledOf
<1>7. \A c : FillsOn(c)' = FillsOn(c)
  BY <1>0, <1>4 DEF FillsOn, FilledContract
<1>8. Signed' = Signed
  BY <1>0, <1>4 DEF Signed
<1>9. Cash' = Cash
  BY <1>0, <1>8 DEF Cash
<1>10. FillsOf(Me + 1) = {}
  BY FillsAreFinite DEF FillsOf, Me
<1>11. FilledOf(Me + 1) = 0
  BY <1>10, FilledByQuantities, SumUnfolds, FS_EmptySet
<1> QED BY <1>2, <1>3, <1>5, <1>6, <1>7, <1>8, <1>9, <1>10, <1>11

\* The fill that is applied next.
Slice == Head(order.left)
NewFill == Len(fills) + 1
NewRow == [order |-> Me, qty |-> Slice, price |-> order.price]

LEMMA SliceOfOrder ==
  ASSUME OrderInv, pc = "apply"
  PROVE  /\ Slice \in Nat \ {0} /\ Tail(order.left) \in Seq(Nat \ {0})
         /\ SumFunction(Tail(order.left)) \in Nat
         /\ SumFunction(order.left) = Slice + SumFunction(Tail(order.left))
         /\ order.price \in Nat \ {0} /\ Me \in Nat \ {0} /\ NewRow \in FillRow
         /\ order.contract \in Contracts /\ order.side \in {1, -1} /\ order.qty \in Nat \ {0}
         /\ Slice + order.made <= order.qty /\ order.made \in Nat
         /\ intents[Me] = [contract |-> order.contract, side |-> order.side, qty |-> order.qty]
         /\ Me \in DOMAIN intents
<1>1. /\ order.left \in Seq(Nat \ {0}) /\ order.left # <<>> /\ order.price \in Nat \ {0}
      /\ order.side \in {1, -1} /\ order.made \in Nat
  BY DEF OrderInv, ProcessType, OrderIsFiled, InHand
<1>2. Slice \in Nat \ {0} /\ Tail(order.left) \in Seq(Nat \ {0})
  BY <1>1 DEF Slice
<1>3. order.left \in Seq(Nat) /\ Tail(order.left) \in Seq(Nat)
  BY <1>1, <1>2
<1>4. SumFunction(Tail(order.left)) \in Nat
  BY <1>3, SumOfSequence
<1>5. SumFunction(order.left) = Slice + SumFunction(Tail(order.left))
  BY <1>1, <1>3, SumOfSequence DEF Slice
<1>6. /\ Me >= 1
      /\ intents[Me] = [contract |-> order.contract, side |-> order.side, qty |-> order.qty]
      /\ SumFunction(order.left) + order.made <= order.qty
  BY DEF OrderInv, OrderIsFiled
<1>7. Me \in Nat \ {0} /\ Me \in DOMAIN intents
  BY <1>6, FillsAreFinite DEF OrderInv, Me
<1>8. order.contract \in Contracts /\ order.qty \in Nat \ {0}
  BY DEF OrderInv, OrderIsAsked, InOrder
<1>9. NewRow \in FillRow
  BY <1>1, <1>2, <1>7 DEF NewRow, FillRow
<1>10. Slice + order.made <= order.qty
  BY <1>1, <1>2, <1>4, <1>5, <1>6, <1>8
<1> QED BY <1>1, <1>2, <1>4, <1>5, <1>6, <1>7, <1>8, <1>9, <1>10

LEMMA FillIsAppended ==
  ASSUME OrderInv, ApplyFill
  PROVE  /\ fills' \in Seq(FillRow) /\ fills'[NewFill] = NewRow
         /\ DOMAIN fills' = DOMAIN fills \cup {NewFill} /\ NewFill \notin DOMAIN fills
         /\ \A i \in DOMAIN fills : fills'[i] = fills[i] /\ i <= Len(fills)
         /\ Len(fills') = NewFill /\ NewFill \in Nat \ {0}
         /\ intents' = intents
<1>1. pc = "apply" /\ intents' = intents
  BY DEF ApplyFill
<1>2. fills' = Append(fills, NewRow)
  BY DEF ApplyFill, NewRow, Slice, Me
<1>3. NewRow \in FillRow /\ fills \in Seq(FillRow)
  BY <1>1, SliceOfOrder DEF OrderInv, TablesType
<1> QED BY <1>1, <1>2, <1>3 DEF NewFill

LEMMA FillIsCounted ==
  ASSUME OrderInv, ApplyFill
  PROVE  /\ \A m : FillsOf(m)' = FillsOf(m) \cup (IF m = Me THEN {NewFill} ELSE {})
         /\ \A m : FilledOf(m)' = FilledOf(m) + (IF m = Me THEN Slice ELSE 0)
<1>0. TablesType /\ pc = "apply"
  BY DEF OrderInv, ApplyFill
<1>1. ASSUME NEW m PROVE FillsOf(m)' = FillsOf(m) \cup (IF m = Me THEN {NewFill} ELSE {})
  BY FillIsAppended DEF FillsOf, NewRow
<1>2. ASSUME NEW m PROVE FilledOf(m)' = FilledOf(m) + (IF m = Me THEN Slice ELSE 0)
  <2> DEFINE q == Quantities
             r == Quantities'
  <2>1. FilledOf(m) = SumFunctionOnSet(q, FillsOf(m))
    BY FilledByQuantities
  <2>2. FilledOf(m)' = SumFunctionOnSet(r, FillsOf(m)')
    BY DEF FilledOf, Quantities
  <2>3. \A i \in FillsOf(m) : q[i] \in Int /\ r[i] = q[i]
    <3>1. \A i \in DOMAIN fills : q[i] = fills[i].qty /\ q[i] \in Nat
      BY <1>0, SummandsAreInt
    <3>2. \A i \in DOMAIN fills : r[i] = fills'[i].qty
      BY FillIsAppended DEF Quantities
    <3> QED BY <1>0, <3>1, <3>2, FillIsAppended, SubsetsOfFills
  <2>4. r[NewFill] = Slice /\ Slice \in Nat
    BY <1>0, FillIsAppended, SliceOfOrder DEF Quantities, NewRow
  <2>5. IsFiniteSet(FillsOf(m)) /\ NewFill \notin FillsOf(m)
    BY <1>0, SubsetsOfFills, FillIsAppended
  <2> HIDE DEF q, r
  <2>6. CASE m = Me
    <3>1. FillsOf(m)' = FillsOf(m) \cup {NewFill}
      BY <1>1, <2>6
    <3>2. SumFunctionOnSet(r, FillsOf(m) \cup {NewFill}) = SumFunctionOnSet(q, FillsOf(m)) + r[NewFill]
      BY <2>3, <2>4, <2>5, SumAdds
    <3> QED BY <2>1, <2>2, <2>4, <2>6, <3>1, <3>2
  <2>7. CASE m # Me
    <3>1. FillsOf(m)' = FillsOf(m)
      BY <1>1, <2>7
    <3>2. SumFunctionOnSet(q, FillsOf(m)) = SumFunctionOnSet(r, FillsOf(m))
      BY <2>3, <2>5, SumSame
    <3> QED BY <1>0, <2>1, <2>2, <2>7, <3>1, <3>2, FilledIsNat
  <2> QED BY <2>6, <2>7
<1> QED BY <1>1, <1>2

LEMMA FillIsSigned ==
  ASSUME OrderInv, ApplyFill
  PROVE  \A c \in Contracts :
           /\ SumFunctionOnSet(Signed, FillsOn(c))'
                = SumFunctionOnSet(Signed, FillsOn(c))
                    + (IF c = order.contract THEN order.side * Slice ELSE 0)
           /\ SumFunctionOnSet(Cash, FillsOn(c))'
                = SumFunctionOnSet(Cash, FillsOn(c))
                    + (IF c = order.contract THEN -(order.side * Slice * order.price) ELSE 0)
           /\ Cardinality(FillsOn(c))'
                = Cardinality(FillsOn(c)) + (IF c = order.contract THEN 1 ELSE 0)
           /\ SumFunctionOnSet(Signed, FillsOn(c)) \in Int
           /\ SumFunctionOnSet(Cash, FillsOn(c)) \in Int
<1> SUFFICES ASSUME NEW c \in Contracts
    PROVE  /\ SumFunctionOnSet(Signed, FillsOn(c))'
                = SumFunctionOnSet(Signed, FillsOn(c))
                    + (IF c = order.contract THEN order.side * Slice ELSE 0)
           /\ SumFunctionOnSet(Cash, FillsOn(c))'
                = SumFunctionOnSet(Cash, FillsOn(c))
                    + (IF c = order.contract THEN -(order.side * Slice * order.price) ELSE 0)
           /\ Cardinality(FillsOn(c))'
                = Cardinality(FillsOn(c)) + (IF c = order.contract THEN 1 ELSE 0)
           /\ SumFunctionOnSet(Signed, FillsOn(c)) \in Int
           /\ SumFunctionOnSet(Cash, FillsOn(c)) \in Int
  OBVIOUS
<1>0. TablesType /\ pc = "apply"
  BY DEF OrderInv, ApplyFill
<1> DEFINE s == Signed  t == Signed'  k == Cash  l == Cash'  S == FillsOn(c)
<1>1. FillsOn(c)' = S \cup (IF c = order.contract THEN {NewFill} ELSE {})
  <2>1. intents'[fills'[NewFill].order].contract = order.contract
    BY <1>0, FillIsAppended, SliceOfOrder DEF NewRow
  <2>2. \A i \in DOMAIN fills : intents'[fills'[i].order] = intents[fills[i].order]
    BY FillIsAppended
  <2> QED BY <2>1, <2>2, FillIsAppended DEF FillsOn, FilledContract
<1>2. IsFiniteSet(S) /\ NewFill \notin S /\ S \subseteq DOMAIN fills
  BY <1>0, SubsetsOfFills, FillIsAppended
<1>3. \A i \in S : s[i] \in Int /\ k[i] \in Int
  BY <1>0, <1>2, SummandsAreInt
<1>4. \A i \in DOMAIN fills : t[i] = s[i] /\ l[i] = k[i]
  BY FillIsAppended DEF Signed, Cash
<1>5. t[NewFill] = order.side * Slice /\ t[NewFill] \in Int
  <2>1. t[NewFill] = intents[Me].side * Slice
    BY FillIsAppended DEF Signed, NewRow
  <2>2. intents[Me].side = order.side /\ order.side \in Int /\ Slice \in Int
    BY <1>0, SliceOfOrder
  <2> QED BY <2>1, <2>2
<1>6. l[NewFill] = -(order.side * Slice * order.price) /\ l[NewFill] \in Int
  <2>1. l[NewFill] = -(t[NewFill] * order.price)
    BY FillIsAppended DEF Cash, NewRow
  <2>2. order.side \in Int /\ Slice \in Int /\ order.price \in Int
    BY <1>0, SliceOfOrder
  <2> HIDE DEF l, t
  <2> QED BY <1>5, <2>1, <2>2
<1>7. /\ SumFunctionOnSet(Signed, FillsOn(c))' = SumFunctionOnSet(t, FillsOn(c)')
      /\ SumFunctionOnSet(Cash, FillsOn(c))' = SumFunctionOnSet(l, FillsOn(c)')
  OBVIOUS
<1> HIDE DEF s, t, k, l, S
<1>8. SumFunctionOnSet(s, S) \in Int /\ SumFunctionOnSet(k, S) \in Int
  BY <1>2, <1>3, SumIsInt
<1>9. CASE c = order.contract
  <2>1. FillsOn(c)' = S \cup {NewFill}
    BY <1>1, <1>9
  <2>2. SumFunctionOnSet(t, S \cup {NewFill}) = SumFunctionOnSet(s, S) + t[NewFill]
    <3>1. \A i \in S : s[i] \in Int /\ t[i] = s[i]
      BY <1>2, <1>3, <1>4
    <3> QED BY <3>1, <1>2, <1>5, SumAdds
  <2>3. SumFunctionOnSet(l, S \cup {NewFill}) = SumFunctionOnSet(k, S) + l[NewFill]
    <3>1. \A i \in S : k[i] \in Int /\ l[i] = k[i]
      BY <1>2, <1>3, <1>4
    <3> QED BY <3>1, <1>2, <1>6, SumAdds
  <2>4. Cardinality(S \cup {NewFill}) = Cardinality(S) + 1
    BY <1>2, FS_AddElement
  <2> QED BY <1>5, <1>6, <1>7, <1>8, <1>9, <2>1, <2>2, <2>3, <2>4 DEF S, s, k
<1>10. CASE c # order.contract
  <2>1. FillsOn(c)' = S
    BY <1>1, <1>10
  <2>2. SumFunctionOnSet(s, S) = SumFunctionOnSet(t, S)
    BY <1>2, <1>4, SumSame
  <2>3. SumFunctionOnSet(k, S) = SumFunctionOnSet(l, S)
    BY <1>2, <1>4, SumSame
  <2>4. Cardinality(S) \in Nat
    BY <1>2, FS_CardinalityType
  <2> QED BY <1>7, <1>8, <1>10, <2>1, <2>2, <2>3, <2>4 DEF S, s, k
<1> QED BY <1>9, <1>10

-----------------------------------------------------------------------------
(* Every step keeps the tables and the order in hand.                        *)

LEMMA TablesStay ==
  ASSUME OrderInv, UNCHANGED <<intents, orders, fills, positions, dayRealised>>
  PROVE  TablesType' /\ PositionsType' /\ TablesAgree'
<1>1. TablesType' /\ PositionsType'
  BY DEF OrderInv, TablesType, PositionsType
<1>2. /\ \A n : FilledOf(n)' = FilledOf(n)
      /\ \A c : FillsOn(c)' = FillsOn(c)
      /\ Signed' = Signed
  BY SumsStay
<1>3. RowsAreSums' /\ ChargesAreSums'
  BY <1>2 DEF OrderInv, TablesAgree, RowsAreSums, ChargesAreSums
<1>4. NoOverfill'
  BY <1>2 DEF OrderInv, TablesAgree, NoOverfill
<1>5. OrdersAgree'
  BY <1>2 DEF OrderInv, TablesAgree, OrdersAgree
<1> QED BY <1>1, <1>3, <1>4, <1>5 DEF TablesAgree

LEMMA OrderInit == Init => OrderInv
<1> SUFFICES ASSUME Init PROVE OrderInv
  OBVIOUS
<1>1. TablesType
  BY DEF Init, TablesType
<1>2. PositionsType
  BY DEF Init, PositionsType, NoRow, Row
<1>3. ProcessType
  BY OrderAssumption DEF Init, ProcessType, NoneInHand, NoBook, InHand, BookRow, Pcs
<1>4. BlockedType /\ SignalsType /\ OrderIsAsked /\ StartedOnce
  BY DEF Init, BlockedType, SignalsType, OrderIsAsked, InOrder, StartedOnce
<1>5. OrderIsFiled
  BY OrderAssumption DEF Init, OrderIsFiled, Filling
<1>6. \A c : FillsOn(c) = {}
  BY DEF Init, FillsOn
<1>7. RowsAreSums /\ ChargesAreSums
  <2>1. SumFunctionOnSet(Signed, {}) = 0 /\ Cardinality({}) = 0
    BY SumUnfolds, FS_EmptySet
  <2>2. \A c \in Contracts : positions[c].qty = 0 /\ positions[c].charges = 0
    BY DEF Init, NoRow
  <2>3. LegCharges * 0 = 0
    BY OrderAssumption
  <2> QED BY <1>6, <2>1, <2>2, <2>3 DEF RowsAreSums, ChargesAreSums
<1>8. NoOverfill /\ OrdersAgree
  BY DEF Init, NoOverfill, OrdersAgree
<1> QED BY <1>1, <1>2, <1>3, <1>4, <1>5, <1>7, <1>8 DEF OrderInv, TablesAgree

LEMMA StartKeeps == OrderInv /\ StartProcess => OrderInv'
<1> SUFFICES ASSUME OrderInv, StartProcess PROVE OrderInv'
  OBVIOUS
<1>1. /\ pc = "down" /\ pc' = "idle" /\ session' = session + 1 /\ session < MaxStarts
      /\ UNCHANGED <<db, order, lastEnd>>
  BY DEF StartProcess
<1>2. TablesType' /\ PositionsType' /\ TablesAgree'
  BY <1>1, TablesStay DEF db
<1>3. book' = book \/ \E c \in Contracts : book' = Adopted(c) /\ c \in OpenPositions
  BY DEF StartProcess
<1>4. book' \in BookRow /\ (book' = NoBook \/ (book'.contract \in Contracts /\ book'.qty # 0))
  <2>1. CASE book' = book
    BY <2>1 DEF OrderInv, ProcessType
  <2>2. ASSUME NEW c \in Contracts, book' = Adopted(c), c \in OpenPositions
        PROVE  book' \in BookRow /\ book'.contract \in Contracts /\ book'.qty # 0
    <3>1. /\ positions[c].qty \in Int /\ positions[c].avg \in Nat /\ positions[c].charges \in Nat
          /\ positions[c].qty # 0
      BY <2>2 DEF OrderInv, PositionsType, Row, OpenPositions, IsOpenRow
    <3> QED BY <2>2, <3>1 DEF Adopted, BookRow
  <2> QED BY <1>3, <2>1, <2>2
<1>5. ProcessType'
  BY <1>1, <1>4, OrderAssumption DEF OrderInv, ProcessType, Pcs
<1>6. BlockedType'
  BY <1>1 DEF StartProcess, OrderInv, BlockedType
<1>7. SignalsType'
  BY <1>1 DEF OrderInv, SignalsType, ProcessType, db
<1>8. OrderIsAsked' /\ OrderIsFiled'
  BY <1>1 DEF OrderInv, OrderIsAsked, OrderIsFiled, InOrder, Filling, db
<1>9. StartedOnce'
  BY <1>1, OrderAssumption DEF OrderInv, ProcessType, StartedOnce
<1> QED BY <1>2, <1>5, <1>6, <1>7, <1>8, <1>9 DEF OrderInv

LEMMA CrashKeeps == OrderInv /\ Crash => OrderInv'
<1> SUFFICES ASSUME OrderInv, Crash PROVE OrderInv'
  OBVIOUS
<1>1. /\ pc' = "down" /\ order' = NoneInHand /\ book' = NoBook /\ blocked' = FALSE
      /\ lastEnd' = [c \in Contracts |-> 0] /\ UNCHANGED <<db, session>>
  BY DEF Crash
<1>2. TablesType' /\ PositionsType' /\ TablesAgree'
  BY <1>1, TablesStay DEF db
<1>3. ProcessType'
  BY <1>1 DEF OrderInv, ProcessType, NoneInHand, NoBook, InHand, BookRow, Pcs
<1>4. BlockedType'
  BY <1>1 DEF BlockedType
<1>5. SignalsType'
  BY <1>1 DEF OrderInv, SignalsType, db
<1>6. OrderIsAsked' /\ OrderIsFiled' /\ StartedOnce'
  BY <1>1 DEF OrderInv, OrderIsAsked, OrderIsFiled, InOrder, Filling, db, StartedOnce
<1> QED BY <1>2, <1>3, <1>4, <1>5, <1>6 DEF OrderInv

\* The end of a window is new, or at least later than the last.
LEMMA WindowAdvances ==
  ASSUME ProcessType, NEW c \in Contracts, NEW ts \in Times
  PROVE  Window(c, ts) \in Nat \ {0} /\ (lastEnd[c] = 0 \/ Window(c, ts) > lastEnd[c])
<1>1. lastEnd[c] \in Nat /\ ts \in Nat \ {0}
  BY OrderAssumption DEF ProcessType
<1> QED BY <1>1 DEF Window, Greatest

LEMMA SignalKeeps == OrderInv /\ RecordSignal => OrderInv'
<1> SUFFICES ASSUME OrderInv, RecordSignal PROVE OrderInv'
  OBVIOUS
<1>1. pc = "idle" /\ Len(intents) < MaxOrders
      /\ UNCHANGED <<intents, orders, fills, positions, dayRealised, book, session>>
  BY DEF RecordSignal
<1>2. TablesType' /\ PositionsType' /\ TablesAgree'
  BY <1>1, TablesStay
<1>p. PICK c \in Contracts, side \in {1, -1}, n \in {Quantity, Abs(book.qty)}, ts \in Times :
        /\ Request(c, side, n)
        /\ lastEnd' = [lastEnd EXCEPT ![c] = Window(c, ts)]
        /\ IF \E s \in signals : s.contract = c /\ s.at = Window(c, ts)
             THEN Raise /\ UNCHANGED signals
             ELSE /\ signals' = signals \cup {[contract |-> c, at |-> Window(c, ts), session |-> session]}
                  /\ order' = [NoneInHand EXCEPT !.contract = c, !.side = side, !.qty = n]
                  /\ pc' = "intent" /\ UNCHANGED blocked
  BY ZenonT(30) DEF RecordSignal
<1>3. /\ Request(c, side, n)
      /\ lastEnd' = [lastEnd EXCEPT ![c] = Window(c, ts)]
      /\ \/ Raise /\ UNCHANGED signals
         \/ /\ signals' = signals \cup {[contract |-> c, at |-> Window(c, ts), session |-> session]}
            /\ order' = [NoneInHand EXCEPT !.contract = c, !.side = side, !.qty = n]
            /\ pc' = "intent" /\ UNCHANGED blocked
  BY <1>p, Zenon
<1>4. Window(c, ts) \in Nat \ {0} /\ (lastEnd[c] = 0 \/ Window(c, ts) > lastEnd[c])
  BY WindowAdvances DEF OrderInv
<1>5. lastEnd' \in [Contracts -> Nat] /\ \A d \in Contracts : lastEnd'[d] >= lastEnd[d]
  BY <1>3, <1>4 DEF OrderInv, ProcessType
<1>6. \A s \in signals : s.contract \in Contracts /\ s.at \in Nat \ {0} /\ s.session \in 1..session
                         /\ (s.session = session => s.at <= lastEnd'[s.contract])
  BY <1>1, <1>5 DEF OrderInv, SignalsType, ProcessType
<1>7. session \in Nat \ {0}
  <2>1. session \in Nat
    BY OrderAssumption DEF OrderInv, ProcessType
  <2>2. session # 0
    BY <1>1 DEF OrderInv, StartedOnce
  <2> QED BY <2>1, <2>2
<1>8. n \in Nat \ {0} /\ Request(c, side, n)
  <2>1. book.qty \in Int /\ (book = NoBook \/ (book.contract \in Contracts /\ book.qty # 0))
    BY DEF OrderInv, ProcessType, BookRow
  <2> QED BY <1>3, <2>1, OrderAssumption DEF Request, Abs, NoBook
<1>9. CASE Raise /\ UNCHANGED signals
  <2>1. pc' = "idle" /\ order' = NoneInHand /\ blocked' = TRUE /\ signals' = signals
    BY <1>9 DEF Raise
  <2>2. ProcessType'
    BY <1>1, <1>5, <2>1 DEF OrderInv, ProcessType, NoneInHand, InHand, Pcs
  <2>3. BlockedType'
    BY <2>1 DEF BlockedType
  <2>4. SignalsType'
    BY <1>1, <1>6, <2>1 DEF SignalsType
  <2>5. OrderIsAsked' /\ OrderIsFiled'
    BY <1>1, <2>1 DEF OrderInv, OrderIsAsked, OrderIsFiled, InOrder, Filling
  <2>6. StartedOnce'
    BY <1>1, <1>7 DEF StartedOnce
  <2> QED BY <1>2, <2>2, <2>3, <2>4, <2>5, <2>6 DEF OrderInv
<1>10. CASE ~(Raise /\ UNCHANGED signals)
  <2>1. /\ signals' = signals \cup {[contract |-> c, at |-> Window(c, ts), session |-> session]}
        /\ order' = [NoneInHand EXCEPT !.contract = c, !.side = side, !.qty = n]
        /\ pc' = "intent" /\ blocked' = blocked
    BY <1>3, <1>10
  <2>2. /\ order' \in InHand /\ order'.contract = c /\ order'.side = side /\ order'.qty = n
        /\ order'.left = <<>> /\ order'.made = 0
    <3>1. order' = [contract |-> c, side |-> side, qty |-> n, price |-> 0, left |-> <<>>, made |-> 0]
      BY <2>1 DEF NoneInHand
    <3>2. <<>> \in Seq(Nat \ {0})
      OBVIOUS
    <3> QED BY <1>8, <3>1, <3>2 DEF InHand
  <2>3. ProcessType'
    BY <1>1, <1>5, <2>1, <2>2 DEF OrderInv, ProcessType, Pcs
  <2>4. BlockedType'
    BY <2>1 DEF OrderInv, BlockedType
  <2>5. SignalsType'
    <3>1. lastEnd'[c] = Window(c, ts)
      BY <1>3 DEF OrderInv, ProcessType
    <3>2. session \in 1..session
      BY <1>7
    <3> QED BY <1>1, <1>4, <1>6, <2>1, <3>1, <3>2 DEF SignalsType
  <2>6. OrderIsAsked'
    <3>1. CASE book = NoBook
      <4>1. book.contract # c
        BY <3>1, OrderAssumption DEF NoBook
      <4> QED BY <1>1, <1>8, <2>1, <2>2, <3>1, <4>1 DEF OrderIsAsked, Request
    <3>2. CASE book # NoBook
      <4>1. book.contract = c /\ n = Abs(book.qty) /\ side = (IF book.qty > 0 THEN -1 ELSE 1)
        BY <1>8, <3>2 DEF Request
      <4> QED BY <1>1, <1>8, <2>1, <2>2, <3>2, <4>1 DEF OrderIsAsked
    <3> QED BY <3>1, <3>2
  <2>7. OrderIsFiled'
    BY <1>1, <2>1, <2>2 DEF OrderInv, OrderIsFiled, Filling
  <2>8. StartedOnce'
    BY <1>1, <1>7 DEF StartedOnce
  <2> QED BY <1>2, <2>3, <2>4, <2>5, <2>6, <2>7, <2>8 DEF OrderInv
<1> QED BY <1>9, <1>10

LEMMA ReserveKeeps == OrderInv /\ ReserveIntent => OrderInv'
<1> SUFFICES ASSUME OrderInv, ReserveIntent PROVE OrderInv'
  OBVIOUS
<1>1. /\ pc = "intent" /\ pc' = "submit"
      /\ UNCHANGED <<signals, fills, positions, dayRealised, order, book, lastEnd, blocked, session>>
  BY DEF ReserveIntent, memory
<1> DEFINE new == [contract |-> order.contract, side |-> order.side, qty |-> order.qty]
<1>2. new \in IntentRow
  BY <1>1 DEF OrderInv, OrderIsAsked, InOrder, ProcessType, InHand, IntentRow
<1>3. intents' = Append(intents, new) /\ orders' = Append(orders, NoOrder)
  BY DEF ReserveIntent
<1>4. NoOrder \in OrderRow
  BY DEF NoOrder, OrderRow
<1>5. /\ intents' \in Seq(IntentRow) /\ Len(intents') = Len(intents) + 1
      /\ intents'[Len(intents) + 1] = new
      /\ orders' \in Seq(OrderRow) /\ Len(orders') = Len(orders) + 1
      /\ DOMAIN orders' = DOMAIN orders \cup {Len(intents) + 1}
      /\ Len(intents) \in Nat
      /\ \A n \in DOMAIN orders : orders'[n] = orders[n]
  <2> HIDE DEF new
  <2> QED BY <1>2, <1>3, <1>4 DEF OrderInv, TablesType
<1>6. TablesType'
  <2>1. \A i \in DOMAIN fills : fills[i].order \in 1..(Len(intents) + 1)
    BY <1>5 DEF OrderInv, TablesType
  <2> QED BY <1>1, <1>5, <2>1 DEF OrderInv, TablesType
<1>7. PositionsType' /\ ProcessType' /\ BlockedType' /\ SignalsType' /\ StartedOnce'
  <2>1. PositionsType'
    BY <1>1 DEF OrderInv, PositionsType
  <2>2. ProcessType'
    BY <1>1 DEF OrderInv, ProcessType, Pcs
  <2>3. BlockedType'
    BY <1>1 DEF OrderInv, BlockedType
  <2>4. SignalsType' /\ StartedOnce'
    BY <1>1 DEF OrderInv, SignalsType, StartedOnce
  <2> QED BY <2>1, <2>2, <2>3, <2>4
<1>8. OrderIsAsked'
  BY <1>1 DEF OrderInv, OrderIsAsked, InOrder
<1>9. /\ \A n : FilledOf(n)' = FilledOf(n) /\ FillsOf(n)' = FillsOf(n)
      /\ \A c : FillsOn(c)' = FillsOn(c)
      /\ Signed' = Signed
      /\ Me' = Me + 1 /\ FillsOf(Me + 1) = {} /\ FilledOf(Me + 1) = 0
      /\ \A n \in DOMAIN intents : intents'[n] = intents[n]
  BY SumsStayOnReserve DEF OrderInv
<1>10. OrderIsFiled'
  <2>1. FillsOf(Me)' = {}
    <3>1. FillsOf(Me)' = {i \in DOMAIN fills : fills[i].order = Me + 1}
      BY <1>1, <1>9 DEF FillsOf
    <3> QED BY <3>1, <1>9 DEF FillsOf
  <2>2. Me' >= 1 /\ intents'[Me'] = new
    BY <1>5, <1>9 DEF Me
  <2>3. intents'[Me'] = [contract |-> order'.contract, side |-> order'.side, qty |-> order'.qty]
    BY <1>1, <2>2
  <2>4. Len(intents') <= MaxOrders
    BY <1>1, <1>5, OrderAssumption DEF OrderInv, OrderIsFiled
  <2>5. order'.left = <<>> /\ order'.made = 0
    BY <1>1 DEF OrderInv, OrderIsFiled
  <2> HIDE DEF new
  <2> QED BY <1>1, <2>1, <2>2, <2>3, <2>4, <2>5 DEF OrderIsFiled, Filling
<1>11. RowsAreSums' /\ ChargesAreSums'
  BY <1>1, <1>9 DEF OrderInv, TablesAgree, RowsAreSums, ChargesAreSums
<1>12. NoOverfill'
  <2> SUFFICES ASSUME NEW n \in DOMAIN orders' PROVE FilledOf(n)' <= intents'[n].qty
    BY DEF NoOverfill
  <2>1. CASE n \in DOMAIN orders
    <3>1. intents'[n] = intents[n]
      BY <1>9, <2>1, FillsAreFinite DEF OrderInv
    <3> QED BY <1>9, <2>1, <3>1 DEF OrderInv, TablesAgree, NoOverfill
  <2>2. CASE n \notin DOMAIN orders
    <3>1. n = Me + 1
      BY <1>5, <2>2 DEF Me
    <3>2. intents'[n].qty = order.qty /\ order.qty \in Nat
      BY <1>2, <1>5, <3>1 DEF Me, IntentRow
    <3>3. FilledOf(n)' = 0
      BY <1>9, <3>1
    <3> QED BY <3>2, <3>3
  <2> QED BY <2>1, <2>2
<1>13. OrdersAgree'
  <2>1. \A i \in DOMAIN fills : orders'[fills[i].order] = orders[fills[i].order]
    BY <1>5, FillsAreFinite DEF OrderInv
  <2> QED BY <1>1, <1>9, <2>1 DEF OrderInv, TablesAgree, OrdersAgree
<1> QED BY <1>6, <1>7, <1>8, <1>10, <1>11, <1>12, <1>13 DEF OrderInv, TablesAgree

LEMMA AnswersFit ==
  ASSUME NEW n \in Nat \ {0}, NEW s \in Answers(n)
  PROVE  /\ s \in Seq(Nat \ {0}) /\ s # <<>> /\ SumFunction(s) <= n
<1>1. CASE s = <<n>>
  <2>1. s \in Seq(Nat) /\ s # <<>> /\ Head(s) = n /\ Tail(s) = <<>>
    BY <1>1
  <2>2. <<>> \in Seq(Nat)
    OBVIOUS
  <2>3. SumFunction(s) = n + 0
    BY <2>1, <2>2, SumOfSequence
  <2> QED BY <1>1, <2>3
<1>2. CASE s \in Splits /\ SumFunction(s) <= n
  BY <1>2, OrderAssumption
<1> QED BY <1>1, <1>2 DEF Answers

LEMMA SubmitKeeps == OrderInv /\ Submit => OrderInv'
<1> SUFFICES ASSUME OrderInv, Submit PROVE OrderInv'
  OBVIOUS
<1>1. /\ pc = "submit" /\ pc' = "record"
      /\ UNCHANGED <<db, book, lastEnd, blocked, session>>
  BY DEF Submit
<1>2. TablesType' /\ PositionsType' /\ TablesAgree'
  BY <1>1, TablesStay DEF db
<1>3. /\ order \in InHand /\ order.qty \in Nat \ {0} /\ order.left = <<>> /\ order.made = 0
  BY <1>1 DEF OrderInv, ProcessType, OrderIsAsked, OrderIsFiled, InOrder
<1>4. /\ order' \in InHand /\ order'.contract = order.contract /\ order'.side = order.side
      /\ order'.qty = order.qty /\ order'.made = 0 /\ SumFunction(order'.left) <= order.qty
      /\ (order'.left # <<>> => order'.price # 0) /\ SumFunction(order'.left) \in Nat
  <2>1. CASE order' = order
    <3>1. SumFunction(<<>>) = 0
      <4>1. <<>> \in Seq(Nat)
        OBVIOUS
      <4> QED BY <4>1, SumOfSequence
    <3> QED BY <1>3, <2>1, <3>1
  <2>2. ASSUME NEW s \in Answers(order.qty), NEW p \in Prices,
               order' = [order EXCEPT !.price = p, !.left = s]
        PROVE  /\ order' \in InHand /\ order'.contract = order.contract /\ order'.side = order.side
               /\ order'.qty = order.qty /\ order'.made = 0
               /\ SumFunction(order'.left) <= order.qty
               /\ (order'.left # <<>> => order'.price # 0) /\ SumFunction(order'.left) \in Nat
    <3>1. s \in Seq(Nat \ {0}) /\ s # <<>> /\ SumFunction(s) <= order.qty
      BY <1>3, AnswersFit
    <3>2. SumFunction(s) \in Nat
      <4>1. s \in Seq(Nat)
        BY <3>1
      <4> QED BY <4>1, SumOfSequence
    <3>3. p \in Nat \ {0}
      BY OrderAssumption
    <3>4. order' \in InHand
      BY <1>3, <2>2, <3>1, <3>3 DEF InHand
    <3>5. /\ order'.contract = order.contract /\ order'.side = order.side
          /\ order'.qty = order.qty /\ order'.made = order.made
          /\ order'.left = s /\ order'.price = p
      BY <1>3, <2>2 DEF InHand
    <3> QED BY <1>3, <3>1, <3>2, <3>3, <3>4, <3>5
  <2>3. order' = order \/ \E s \in Answers(order.qty), p \in Prices :
                            order' = [order EXCEPT !.price = p, !.left = s]
    BY DEF Submit
  <2> QED BY <2>1, <2>2, <2>3
<1>5. ProcessType'
  BY <1>1, <1>4 DEF OrderInv, ProcessType, Pcs
<1>6. BlockedType'
  BY <1>1 DEF OrderInv, BlockedType
<1>7. SignalsType' /\ StartedOnce'
  BY <1>1 DEF OrderInv, SignalsType, StartedOnce, db
<1>8. OrderIsAsked'
  BY <1>1, <1>4 DEF OrderInv, OrderIsAsked, InOrder
<1>9. OrderIsFiled'
  <2>1. FillsOf(Me)' = FillsOf(Me) /\ Me' = Me
    BY <1>1, SumsStay DEF db, FillsOf, Me
  <2>2. SumFunction(order'.left) + order'.made <= order'.qty
    BY <1>3, <1>4
  <2>3. FillsOf(Me) = {} /\ Me >= 1 /\ Len(intents) <= MaxOrders
        /\ intents[Me] = [contract |-> order.contract, side |-> order.side, qty |-> order.qty]
    BY <1>1 DEF OrderInv, OrderIsFiled
  <2>4. intents' = intents
    BY <1>1 DEF db
  <2> QED BY <1>1, <1>4, <2>1, <2>2, <2>3, <2>4 DEF OrderIsFiled, Filling
<1> QED BY <1>2, <1>5, <1>6, <1>7, <1>8, <1>9 DEF OrderInv

LEMMA StatusIsOne == Status \in {"FILLED", "PARTIALLY_FILLED", "REJECTED"}
BY DEF Status

LEMMA SubmissionKeeps == OrderInv /\ RecordSubmission => OrderInv'
<1> SUFFICES ASSUME OrderInv, RecordSubmission PROVE OrderInv'
  OBVIOUS
<1>1. /\ pc = "record"
      /\ orders' = [orders EXCEPT ![Me] = [status |-> Status, filled |-> SumFunction(order.left)]]
      /\ UNCHANGED <<signals, intents, fills, positions, dayRealised, book, lastEnd, session>>
  BY DEF RecordSubmission, Me
<1>2. /\ FillsOf(Me) = {} /\ order.made = 0 /\ Me >= 1 /\ Len(intents) <= MaxOrders
      /\ intents[Me] = [contract |-> order.contract, side |-> order.side, qty |-> order.qty]
      /\ SumFunction(order.left) + order.made <= order.qty
      /\ (order.left # <<>> => order.price # 0)
  BY <1>1 DEF OrderInv, OrderIsFiled
<1>3. order.left \in Seq(Nat) /\ SumFunction(order.left) \in Nat
  <2>1. order.left \in Seq(Nat)
    BY DEF OrderInv, ProcessType, InHand
  <2> QED BY <2>1, SumOfSequence
<1>4. Me \in DOMAIN orders
  BY <1>2, FillsAreFinite DEF OrderInv, Me
<1>5. /\ orders' \in Seq(OrderRow) /\ DOMAIN orders' = DOMAIN orders /\ Len(orders') = Len(orders)
      /\ \A n \in DOMAIN orders : n # Me => orders'[n] = orders[n]
  <2> DEFINE new == [status |-> Status, filled |-> SumFunction(order.left)]
  <2>1. new \in OrderRow
    BY <1>3, StatusIsOne DEF OrderRow
  <2>2. orders' = [orders EXCEPT ![Me] = new]
    BY <1>1
  <2> HIDE DEF new
  <2> QED BY <1>4, <2>1, <2>2 DEF OrderInv, TablesType
<1>6. TablesType' /\ PositionsType' /\ SignalsType' /\ StartedOnce'
  <2>1. TablesType'
    BY <1>1, <1>5 DEF OrderInv, TablesType
  <2>2. PositionsType'
    BY <1>1 DEF OrderInv, PositionsType
  <2>3. pc' # "down"
    BY DEF RecordSubmission, Raise
  <2>4. SignalsType' /\ StartedOnce'
    BY <1>1, <2>3 DEF OrderInv, SignalsType, StartedOnce
  <2> QED BY <2>1, <2>2, <2>4
<1>7. /\ \A n : FilledOf(n)' = FilledOf(n) /\ FillsOf(n)' = FillsOf(n)
      /\ \A c : FillsOn(c)' = FillsOn(c)
      /\ Signed' = Signed /\ Me' = Me
  BY <1>1, SumsStay
<1>8. TablesAgree'
  <2>1. RowsAreSums' /\ ChargesAreSums'
    BY <1>1, <1>7 DEF OrderInv, TablesAgree, RowsAreSums, ChargesAreSums
  <2>2. NoOverfill'
    BY <1>1, <1>5, <1>7 DEF OrderInv, TablesAgree, NoOverfill
  <2>3. \A i \in DOMAIN fills : fills[i].order # Me /\ fills[i].order \in DOMAIN orders
    BY <1>2, FillsAreFinite DEF FillsOf, OrderInv
  <2>4. OrdersAgree'
    BY <1>1, <1>5, <1>7, <2>3 DEF OrderInv, TablesAgree, OrdersAgree
  <2> QED BY <2>1, <2>2, <2>4 DEF TablesAgree
<1>9. CASE Status = "REJECTED"
  <2>1. pc' = "idle" /\ order' = NoneInHand /\ blocked' = TRUE
    BY <1>9 DEF RecordSubmission, Raise
  <2>2. ProcessType'
    BY <1>1, <2>1 DEF OrderInv, ProcessType, NoneInHand, InHand, Pcs
  <2>3. BlockedType'
    BY <2>1 DEF BlockedType
  <2>4. OrderIsAsked' /\ OrderIsFiled'
    BY <1>1, <1>2, <2>1 DEF OrderIsAsked, OrderIsFiled, InOrder, Filling
  <2> QED BY <1>6, <1>8, <2>2, <2>3, <2>4 DEF OrderInv
<1>10. CASE Status # "REJECTED"
  <2>1. pc' = "apply" /\ order' = order /\ blocked' = blocked
    BY <1>10 DEF RecordSubmission, Raise
  <2>2. ProcessType'
    BY <1>1, <2>1 DEF OrderInv, ProcessType, Pcs
  <2>3. BlockedType'
    BY <2>1 DEF OrderInv, BlockedType
  <2>4. OrderIsAsked'
    BY <1>1, <2>1 DEF OrderInv, OrderIsAsked, InOrder
  <2>5. order.left # <<>>
    BY <1>2, <1>10 DEF Status
  <2>6. FilledOf(Me)' = order'.made
    <3>1. FilledOf(Me)' = FilledOf(Me)
      BY <1>1, <1>7 DEF FilledOf, FillsOf
    <3>2. SumFunctionOnSet(Quantities, {}) = 0
      BY SumUnfolds, FS_EmptySet
    <3>3. FilledOf(Me) = 0
      BY <1>2, <3>2, FilledByQuantities
    <3> QED BY <1>2, <2>1, <3>1, <3>3
  <2>7. OrderIsFiled'
    BY <1>1, <1>2, <1>7, <2>1, <2>5, <2>6 DEF OrderIsFiled, Filling
  <2> QED BY <1>6, <1>8, <2>2, <2>3, <2>4, <2>7 DEF OrderInv
<1> QED BY <1>9, <1>10

LEMMA OutcomeKeeps == OrderInv /\ Outcome => OrderInv'
<1> SUFFICES ASSUME OrderInv, Outcome PROVE OrderInv'
  OBVIOUS
<1>1. pc = "outcome" /\ UNCHANGED <<db, lastEnd, session>> /\ pc' = "idle" /\ order' = NoneInHand
  BY DEF Outcome, Raise
<1>2. TablesType' /\ PositionsType' /\ TablesAgree'
  BY <1>1, TablesStay DEF db
<1>3. book' = book \/ book' = NoBook
      \/ book' = [contract |-> order.contract, qty |-> order.side * order.qty,
                  price |-> order.price, charges |-> OrderCharges]
  BY DEF Outcome
<1>4. book' \in BookRow /\ (book' = NoBook \/ (book'.contract \in Contracts /\ book'.qty # 0))
  <2>1. OrderCharges \in Nat
    <3>1. Cardinality(FillsOf(Me)) \in Nat
      BY SubsetsOfFills, FS_CardinalityType DEF OrderInv
    <3>2. OrderCharges = LegCharges * Cardinality(FillsOf(Me))
      BY DEF OrderCharges, LegsOf, Me
    <3> QED BY <3>1, <3>2, OrderAssumption
  <2>2. /\ order.contract \in Contracts /\ order.qty \in Nat \ {0} /\ order.side \in {1, -1}
        /\ order.price \in Nat
    BY <1>1 DEF OrderInv, OrderIsAsked, InOrder, ProcessType, InHand
  <2>3. order.side * order.qty \in Int /\ order.side * order.qty # 0
    BY <2>2
  <2>4. NoBook \in BookRow
    BY DEF NoBook, BookRow
  <2> QED BY <1>3, <2>1, <2>2, <2>3, <2>4 DEF OrderInv, ProcessType, BookRow
<1>5. ProcessType'
  BY <1>1, <1>4 DEF OrderInv, ProcessType, NoneInHand, InHand, Pcs
<1>6. BlockedType'
  BY <1>1 DEF Outcome, Raise, OrderInv, BlockedType
<1>7. SignalsType' /\ StartedOnce'
  BY <1>1 DEF OrderInv, SignalsType, StartedOnce, db
<1>8. OrderIsAsked' /\ OrderIsFiled'
  BY <1>1 DEF OrderInv, OrderIsAsked, OrderIsFiled, InOrder, Filling, db
<1> QED BY <1>2, <1>4, <1>5, <1>6, <1>7, <1>8 DEF OrderInv

LEMMA Quotient == ASSUME NEW a \in Nat, NEW b \in Nat \ {0} PROVE a \div b \in Nat
OBVIOUS

LEMMA AbsIsNat == ASSUME NEW a \in Int PROVE Abs(a) \in Nat /\ (a # 0 => Abs(a) # 0)
BY DEF Abs

\* A fill leaves a row.
LEMMA UpsertedIsARow ==
  ASSUME NEW r \in Row, NEW signed \in Int, signed # 0, NEW price \in Nat
  PROVE  /\ Upserted(r, signed, price) \in Row /\ Realises(r, signed, price) \in Int
         /\ Upserted(r, signed, price).qty = r.qty + signed
         /\ Upserted(r, signed, price).charges = r.charges + LegCharges
         /\ Upserted(r, signed, price).avg = Average(r, signed, price)
         /\ Upserted(r, signed, price).realised = r.realised + Realises(r, signed, price)
<1>1. r.qty \in Int /\ r.avg \in Nat /\ r.realised \in Int /\ r.charges \in Nat
  BY DEF Row
<1>2. Abs(signed) \in Nat \ {0} /\ Abs(r.qty) \in Nat
  BY <1>1, AbsIsNat
<1>3. Average(r, signed, price) \in Nat
  <2> DEFINE a == r.avg * Abs(r.qty) + price * Abs(signed)
             b == Abs(r.qty) + Abs(signed)
  <2>1. a \in Nat /\ b \in Nat \ {0}
    <3>1. r.avg * Abs(r.qty) \in Nat /\ price * Abs(signed) \in Nat
      BY <1>1, <1>2
    <3> QED BY <1>2, <3>1
  <2>2. Average(r, signed, price) = r.avg \/ Average(r, signed, price) = a \div b
    BY DEF Average
  <2> HIDE DEF a, b
  <2>3. a \div b \in Nat
    BY <2>1, Quotient
  <2> QED BY <1>1, <2>2, <2>3
<1>4. Realises(r, signed, price) \in Int
  <2> DEFINE d == IF r.qty > 0 THEN 1 ELSE -1
             l == Least(Abs(signed), Abs(r.qty))
             m == price - r.avg
  <2>1. d \in Int /\ l \in Int /\ m \in Int
    BY <1>1, <1>2 DEF Least
  <2>2. Realises(r, signed, price) = d * l * m \/ Realises(r, signed, price) = 0
    BY DEF Realises
  <2> HIDE DEF d, l, m
  <2>3. d * l * m \in Int
    BY <2>1
  <2> QED BY <2>2, <2>3
<1>5. r.realised + Realises(r, signed, price) \in Int /\ r.qty + signed \in Int
      /\ r.charges + LegCharges \in Nat
  BY <1>1, <1>4, OrderAssumption
<1> HIDE DEF Average
<1> QED BY <1>3, <1>4, <1>5 DEF Upserted, Row

SignedSlice == order.side * Slice
FillRowOf == positions[order.contract]

LEMMA FillUpserts ==
  ASSUME OrderInv, ApplyFill
  PROVE  /\ order.contract \in Contracts /\ SignedSlice \in Int /\ SignedSlice # 0
         /\ FillRowOf \in Row /\ order.price \in Nat \ {0}
         /\ positions' = [positions EXCEPT ![order.contract] =
                            Upserted(FillRowOf, SignedSlice, order.price)]
         /\ dayRealised' = dayRealised + Realises(FillRowOf, SignedSlice, order.price)
         /\ positions' \in [Contracts -> Row] /\ dayRealised' \in Int
<1>1. /\ Slice \in Nat \ {0} /\ order.side \in {1, -1} /\ order.contract \in Contracts
      /\ order.price \in Nat \ {0}
  BY SliceOfOrder DEF ApplyFill
<1>2. SignedSlice \in Int /\ SignedSlice # 0
  BY <1>1 DEF SignedSlice
<1>3. FillRowOf \in Row
  BY <1>1 DEF OrderInv, PositionsType, FillRowOf
<1>4. /\ positions' = [positions EXCEPT ![order.contract] =
                         Upserted(FillRowOf, SignedSlice, order.price)]
      /\ dayRealised' = dayRealised + Realises(FillRowOf, SignedSlice, order.price)
  BY DEF ApplyFill, DayAfter, SignedSlice, Slice, FillRowOf
<1>5. /\ Upserted(FillRowOf, SignedSlice, order.price) \in Row
      /\ Realises(FillRowOf, SignedSlice, order.price) \in Int
  BY <1>1, <1>2, <1>3, UpsertedIsARow
<1>6. positions' \in [Contracts -> Row]
  BY <1>4, <1>5 DEF OrderInv, PositionsType
<1>7. dayRealised' \in Int
  BY <1>4, <1>5 DEF OrderInv, TablesType
<1> QED BY <1>1, <1>2, <1>3, <1>4, <1>6, <1>7

LEMMA NoLength == ASSUME NEW S, NEW q \in Seq(S) PROVE q = <<>> <=> Len(q) = 0
OBVIOUS

LEMMA TailIsEmpty ==
  ASSUME NEW S, NEW q \in Seq(S), q # <<>>
  PROVE  Tail(q) = <<>> <=> Len(q) = 1
<1>1. Len(q) \in Nat /\ Len(q) # 0
  OBVIOUS
<1>2. Tail(q) \in Seq(S) /\ Len(Tail(q)) = Len(q) - 1
  <2>1. Tail(q) \in Seq(S)
    OBVIOUS
  <2>2. Len(Tail(q)) = Len(q) - 1
    OBVIOUS
  <2> QED BY <2>1, <2>2
<1>3. Tail(q) = <<>> <=> Len(Tail(q)) = 0
  BY <1>2, NoLength
<1> QED BY <1>1, <1>2, <1>3

LEMMA FillAdvances ==
  ASSUME OrderInv, ApplyFill
  PROVE  /\ order' \in InHand /\ order'.contract = order.contract /\ order'.side = order.side
         /\ order'.qty = order.qty /\ order'.price = order.price
         /\ order'.left = Tail(order.left) /\ order'.made = order.made + Slice
         /\ pc' \in {"apply", "outcome"}
         /\ (pc' = "apply" => order'.left # <<>>) /\ (pc' = "outcome" => order'.left = <<>>)
<1>1. /\ Slice \in Nat \ {0} /\ Tail(order.left) \in Seq(Nat \ {0}) /\ order.made \in Nat
  BY SliceOfOrder DEF ApplyFill
<1>2. order' = [order EXCEPT !.left = Tail(order.left), !.made = order.made + Slice]
  BY DEF ApplyFill, Slice
<1>3. order \in InHand /\ order.left \in Seq(Nat \ {0})
  BY DEF OrderInv, ProcessType, InHand
<1>9. order.made + Slice \in Nat
  BY <1>1
<1>10. order' \in InHand
  BY <1>1, <1>2, <1>3, <1>9 DEF InHand
<1>4. /\ order' \in InHand /\ order'.contract = order.contract /\ order'.side = order.side
      /\ order'.qty = order.qty /\ order'.price = order.price
      /\ order'.left = Tail(order.left) /\ order'.made = order.made + Slice
  BY <1>2, <1>3, <1>10 DEF InHand
<1>5. pc' = IF Len(order.left) = 1 THEN "outcome" ELSE "apply"
  BY DEF ApplyFill
<1>6. order.left # <<>>
  BY DEF ApplyFill, OrderInv, OrderIsFiled
<1>7. Tail(order.left) = <<>> <=> Len(order.left) = 1
  BY <1>3, <1>6, TailIsEmpty
<1> QED BY <1>4, <1>5, <1>7

LEMMA FillKeeps == OrderInv /\ ApplyFill => OrderInv'
<1> SUFFICES ASSUME OrderInv, ApplyFill PROVE OrderInv'
  OBVIOUS
<1>0. pc = "apply" /\ UNCHANGED <<signals, intents, book, lastEnd, blocked, session>>
  BY DEF ApplyFill
<1>1. /\ Slice \in Nat \ {0} /\ Me \in Nat \ {0} /\ Me \in DOMAIN intents
      /\ order.contract \in Contracts /\ order.side \in {1, -1} /\ order.qty \in Nat \ {0}
      /\ order.made \in Nat /\ Slice + order.made <= order.qty
      /\ SumFunction(Tail(order.left)) \in Nat
      /\ SumFunction(order.left) = Slice + SumFunction(Tail(order.left))
      /\ order.price \in Nat \ {0}
      /\ intents[Me] = [contract |-> order.contract, side |-> order.side, qty |-> order.qty]
  BY <1>0, SliceOfOrder
<1>2. FilledOf(Me) = order.made
  BY <1>0 DEF OrderInv, OrderIsFiled, Filling
<1>3. /\ orders' \in Seq(OrderRow) /\ DOMAIN orders' = DOMAIN orders /\ Len(orders') = Len(orders)
      /\ \A n \in DOMAIN orders : n # Me => orders'[n] = orders[n]
      /\ orders'[Me].filled = FilledOf(Me) + Slice
  <2> DEFINE new == [status |-> Status, filled |-> FilledOf(Me) + Slice]
  <2>1. new \in OrderRow
    BY <1>1, <1>2, StatusIsOne DEF OrderRow
  <2>2. orders' = [orders EXCEPT ![Me] = new]
    BY DEF ApplyFill, RunningTotal, Slice, Me
  <2>3. Me \in DOMAIN orders
    BY <1>1, FillsAreFinite DEF OrderInv
  <2>4. new.filled = FilledOf(Me) + Slice
    OBVIOUS
  <2> HIDE DEF new
  <2> QED BY <2>1, <2>2, <2>3, <2>4 DEF OrderInv, TablesType
<1>4. TablesType'
  <2>1. \A i \in DOMAIN fills' : fills'[i].order \in 1..Len(intents)
    <3>1. fills'[NewFill].order \in 1..Len(intents)
      BY <1>1, FillIsAppended, FillsAreFinite DEF NewRow, OrderInv
    <3> QED BY <3>1, FillIsAppended DEF OrderInv, TablesType
  <2> QED BY <1>0, <1>3, <2>1, FillIsAppended, FillUpserts DEF OrderInv, TablesType
<1>5. PositionsType'
  BY FillUpserts DEF PositionsType
<1>6. ProcessType'
  BY <1>0, FillAdvances DEF OrderInv, ProcessType, Pcs
<1>7. BlockedType'
  BY <1>0, FillAdvances DEF OrderInv, BlockedType
<1>8. SignalsType' /\ StartedOnce'
  BY <1>0, FillAdvances DEF OrderInv, SignalsType, StartedOnce
<1>9. OrderIsAsked'
  BY <1>0, FillAdvances DEF OrderInv, OrderIsAsked, InOrder
<1>10. OrderIsFiled'
  <2>1. Me' = Me /\ Len(intents) <= MaxOrders
        /\ SumFunction(order.left) + order.made <= order.qty
    BY <1>0 DEF OrderInv, OrderIsFiled, Me
  <2>2. FilledOf(Me)' = order'.made
    <3>1. \A m : FilledOf(m)' = FilledOf(m) + (IF m = Me THEN Slice ELSE 0)
      BY FillIsCounted
    <3>2. FilledOf(Me)' = FilledOf(Me) + Slice
      BY <3>1, <1>0 DEF FilledOf, FillsOf, Me
    <3> QED BY <1>2, <3>2, FillAdvances
  <2>3. SumFunction(order'.left) + order'.made <= order'.qty /\ order'.made # 0
    BY <1>1, <2>1, FillAdvances
  <2>4. intents'[Me'] = [contract |-> order'.contract, side |-> order'.side, qty |-> order'.qty]
    BY <1>0, <1>1, <2>1, FillAdvances
  <2> QED BY <1>0, <1>1, <2>1, <2>2, <2>3, <2>4, FillAdvances DEF OrderIsFiled, Filling
<1>11. RowsAreSums' /\ ChargesAreSums'
  <2> DEFINE new == Upserted(FillRowOf, SignedSlice, order.price)
  <2>1. /\ positions' = [positions EXCEPT ![order.contract] = new]
        /\ new.qty = FillRowOf.qty + SignedSlice /\ new.charges = FillRowOf.charges + LegCharges
    BY FillUpserts, UpsertedIsARow
  <2> HIDE DEF new
  <2>2. ASSUME NEW c \in Contracts
        PROVE  /\ positions'[c].qty = positions[c].qty
                                        + (IF c = order.contract THEN order.side * Slice ELSE 0)
               /\ positions'[c].charges = positions[c].charges
                                            + (IF c = order.contract THEN LegCharges ELSE 0)
    <3>1. positions[c].qty \in Int /\ positions[c].charges \in Int
      BY DEF OrderInv, PositionsType, Row
    <3> QED BY <1>1, <2>1, <3>1 DEF OrderInv, PositionsType, FillRowOf, SignedSlice
  <2>3. RowsAreSums'
    BY <2>2, FillIsSigned DEF OrderInv, TablesAgree, RowsAreSums
  <2>4. ASSUME NEW c \in Contracts
        PROVE  positions'[c].charges = LegCharges * Cardinality(FillsOn(c))'
    <3>1. positions[c].charges = LegCharges * Cardinality(FillsOn(c))
      BY DEF OrderInv, TablesAgree, ChargesAreSums
    <3>2. Cardinality(FillsOn(c)) \in Nat /\ LegCharges \in Nat
      BY SubsetsOfFills, FS_CardinalityType, OrderAssumption DEF OrderInv
    <3>3. Cardinality(FillsOn(c))' = Cardinality(FillsOn(c)) + (IF c = order.contract THEN 1 ELSE 0)
      BY FillIsSigned
    <3> DEFINE k == Cardinality(FillsOn(c))
               k2 == Cardinality(FillsOn(c))'
    <3>4. k \in Nat /\ k2 = k + (IF c = order.contract THEN 1 ELSE 0)
      BY <3>2, <3>3
    <3>5. positions'[c].charges = LegCharges * k + (IF c = order.contract THEN LegCharges ELSE 0)
      BY <2>2, <3>1
    <3> HIDE DEF k, k2
    <3>6. positions'[c].charges = LegCharges * k2
      BY <3>2, <3>4, <3>5
    <3> QED BY <3>6 DEF k2
  <2>5. ChargesAreSums'
    BY <2>4 DEF ChargesAreSums
  <2> QED BY <2>3, <2>5
<1>12. NoOverfill'
  <2> SUFFICES ASSUME NEW n \in DOMAIN orders PROVE FilledOf(n)' <= intents[n].qty
    BY <1>0, <1>3 DEF NoOverfill
  <2>1. FilledOf(n)' = FilledOf(n) + (IF n = Me THEN Slice ELSE 0)
    BY FillIsCounted
  <2>2. FilledOf(n) <= intents[n].qty /\ FilledOf(n) \in Nat
    BY FilledIsNat DEF OrderInv, TablesAgree, NoOverfill
  <2> QED BY <1>1, <1>2, <2>1, <2>2
<1>13. OrdersAgree'
  <2> SUFFICES ASSUME NEW i \in DOMAIN fills', NEW m, m = fills'[i].order
               PROVE  orders'[m].filled = FilledOf(m)'
    BY DEF OrdersAgree, FilledOf, FillsOf
  <2>1. FilledOf(m)' = FilledOf(m) + (IF m = Me THEN Slice ELSE 0)
    BY FillIsCounted
  <2>2. CASE i = NewFill
    <3>1. m = Me
      BY <2>2, FillIsAppended DEF NewRow
    <3> QED BY <1>3, <2>1, <3>1
  <2>3. CASE i \in DOMAIN fills
    <3>1. m = fills[i].order
      BY <2>3, FillIsAppended
    <3>2. m \in DOMAIN orders /\ orders[m].filled = FilledOf(m)
      BY <2>3, <3>1, FillsAreFinite DEF OrderInv, TablesAgree, OrdersAgree
    <3>3. FilledOf(m) \in Nat
      BY FilledIsNat DEF OrderInv
    <3> QED BY <1>3, <2>1, <3>2, <3>3
  <2> QED BY <2>2, <2>3, FillIsAppended
<1> QED BY <1>4, <1>5, <1>6, <1>7, <1>8, <1>9, <1>10, <1>11, <1>12, <1>13 DEF OrderInv, TablesAgree

LEMMA OrderStep == OrderInv /\ [Next]_vars => OrderInv'
<1> SUFFICES ASSUME OrderInv, [Next]_vars PROVE OrderInv'
  OBVIOUS
<1>1. CASE UNCHANGED vars
  <2>1. UNCHANGED <<intents, orders, fills, positions, dayRealised, signals, pc, order, book, lastEnd,
                    blocked, session>>
    BY <1>1 DEF vars, db, memory
  <2>2. TablesType' /\ PositionsType' /\ TablesAgree'
    BY <2>1, TablesStay
  <2>3. ProcessType' /\ SignalsType' /\ StartedOnce' /\ OrderIsAsked'
    BY <2>1 DEF OrderInv, ProcessType, SignalsType, StartedOnce, OrderIsAsked, InOrder
  <2>4. BlockedType'
    BY <2>1 DEF OrderInv, BlockedType
  <2>5. FilledOf(Me)' = FilledOf(Me) /\ FillsOf(Me)' = FillsOf(Me) /\ Me' = Me
    BY <2>1 DEF FilledOf, FillsOf, Me
  <2>6. OrderIsFiled'
    BY <2>1, <2>5 DEF OrderInv, OrderIsFiled, Filling
  <2> QED BY <2>2, <2>3, <2>4, <2>6 DEF OrderInv
<1> QED BY <1>1, StartKeeps, CrashKeeps, SignalKeeps, ReserveKeeps, SubmitKeeps, SubmissionKeeps,
           FillKeeps, OutcomeKeeps DEF Next

\* What the runs check of the tables follows.
LEMMA OrderInvIsSound == OrderInv => RowsAreSound
<1> SUFFICES ASSUME OrderInv PROVE RowsAreSound
  OBVIOUS
<1>1. Len(orders) = Len(intents) /\ Len(intents) <= MaxOrders
      /\ \A n \in DOMAIN orders : orders[n].status \in {"NONE", "FILLED", "PARTIALLY_FILLED", "REJECTED"}
  BY FillsAreFinite DEF OrderInv, TablesType, OrderIsFiled, OrderRow
<1>2. positions \in [Contracts -> Row] /\ dayRealised \in Int
  BY DEF OrderInv, TablesType, PositionsType
<1>3. blocked \in BOOLEAN
  BY DEF OrderInv, BlockedType
<1>4. pc \in Pcs /\ session \in 0..MaxStarts /\ book.contract \in Contracts \cup {NoContract}
  BY DEF OrderInv, ProcessType, BookRow
<1>5. \A s \in signals : s.contract \in Contracts /\ s.at \in Nat /\ s.session \in 1..session
  BY DEF OrderInv, SignalsType
<1>6. TypeOK
  BY <1>1, <1>2, <1>3, <1>4, <1>5 DEF TypeOK
<1>7. FillsMakeTheBook
  BY DEF OrderInv, TablesAgree, RowsAreSums, ChargesAreSums, NoOverfill, OrdersAgree, FillsMakeTheBook
<1> QED BY <1>6, <1>7 DEF RowsAreSound

-----------------------------------------------------------------------------
(* Under the guard the lifecycle takes no step of its own.                   *)

LEMMA GuardedStepIsAStep == [RNext]_<<vars, risk>> => [Next]_vars
<1> SUFFICES ASSUME [RNext]_<<vars, risk>> PROVE [Next]_vars
  OBVIOUS
<1>1. CASE UNCHANGED <<vars, risk>>
  BY <1>1
<1>2. CASE RStart
  BY <1>2 DEF RStart, Next
<1>3. CASE RCrash
  BY <1>3 DEF RCrash, Next
<1>4. CASE RSignal
  BY <1>4 DEF RSignal, Next
<1>5. CASE RCommit
  BY <1>5 DEF RCommit, Next
<1>6. CASE ROutcome
  BY <1>6 DEF ROutcome, Next
<1>7. CASE MarkToMarket
  BY <1>7 DEF MarkToMarket
<1> QED BY <1>1, <1>2, <1>3, <1>4, <1>5, <1>6, <1>7 DEF RNext

LEMMA OrderInvHolds == RSpec => []OrderInv
<1>1. RInit => OrderInv
  BY OrderInit DEF RInit
<1>2. OrderInv /\ [RNext]_<<vars, risk>> => OrderInv'
  BY GuardedStepIsAStep, OrderStep
<1> QED BY <1>1, <1>2, PTL DEF RSpec

\* At every commit each position row is the sum of the fills on it and each
\* order row the sum of its own, never more than was asked for, over any
\* fill policy, number of orders and fall of the crashes
\* (ExecutionRepository.apply_fill).
THEOREM RowsAreSoundHolds == RSpec => []RowsAreSound
BY OrderInvHolds, OrderInvIsSound, PTL

Suppressed ==
  pc = "idle" /\ pc' = "idle" =>
    \E s \in signals : s.at = lastEnd'[s.contract] /\ s.session < session

LEMMA OnlyOlderRowsSuppress == OrderInv /\ [Next]_vars => [Suppressed]_vars
<1> SUFFICES ASSUME OrderInv, Next, pc = "idle", pc' = "idle"
             PROVE  \E s \in signals : s.at = lastEnd'[s.contract] /\ s.session < session
  BY DEF Suppressed
<1>1. RecordSignal
  BY DEF Next, StartProcess, Crash, ReserveIntent, Submit, RecordSubmission, ApplyFill, Outcome
<1>2. PICK c \in Contracts, side \in {1, -1}, n \in {Quantity, Abs(book.qty)}, ts \in Times :
        /\ lastEnd' = [lastEnd EXCEPT ![c] = Window(c, ts)]
        /\ \E s \in signals : s.contract = c /\ s.at = Window(c, ts)
  BY <1>1 DEF RecordSignal
<1>3. PICK s \in signals : s.contract = c /\ s.at = Window(c, ts)
  BY <1>2
<1>4. lastEnd \in [Contracts -> Nat] /\ session \in Nat /\ MaxStarts \in Nat
  BY OrderAssumption DEF OrderInv, ProcessType
<1>5. /\ s.at \in Nat /\ s.session \in 1..session
      /\ s.session = session => s.at <= lastEnd[c]
  BY <1>3 DEF OrderInv, SignalsType
<1>6. ts \in Nat /\ ts # 0
  BY OrderAssumption
<1>7. Window(c, ts) > lastEnd[c]
  BY <1>4, <1>6 DEF Window, Greatest
<1>8. s.session < session
  BY <1>3, <1>4, <1>5, <1>7
<1>9. lastEnd'[c] = Window(c, ts)
  BY <1>2, <1>4
<1> QED BY <1>3, <1>8, <1>9

\* The unique constraint never loses an order to a row of the same process,
\* however close together its decisions are (LifecycleGateway._window).
THEOREM NeverSuppressesItselfHolds == RSpec => NeverSuppressesItself
<1>1. OrderInv /\ [RNext]_<<vars, risk>> => [Suppressed]_vars
  BY GuardedStepIsAStep, OnlyOlderRowsSuppress
<1> QED BY <1>1, OrderInvHolds, PTL DEF RSpec, NeverSuppressesItself, Suppressed

-----------------------------------------------------------------------------
(* The book in memory and the rows.                                          *)

\* A fill policy that answers every order whole, however it slices it (the
\* default policy, and every slicing of a whole lot).
WholeFills == \A s \in Splits : SumFunction(s) = Quantity

\* The book is only as good as the fills the gateway has seen through: a
\* blocked process knows its rows while it holds a position and no answer is
\* partial.
Trusted == pc # "down" /\ (~blocked \/ (WholeFills /\ book # NoBook))

\* What the one row that may be open holds, an order half applied included.
HeldOn == IF Filling THEN order.contract ELSE book.contract
HeldQty == book.qty + (IF Filling THEN order.side * order.made ELSE 0)
HeldPrice == IF Filling /\ book = NoBook THEN order.price ELSE book.price

RowsMatch ==
  Trusted =>
    \A c \in Contracts :
      /\ positions[c].qty = (IF c = HeldOn THEN HeldQty ELSE 0)
      /\ c = HeldOn /\ HeldQty # 0 => positions[c].avg = HeldPrice

WholeOrders ==
  WholeFills /\ pc \in {"record", "apply", "outcome"} /\ (order.left # <<>> \/ order.made # 0) =>
    SumFunction(order.left) + order.made = order.qty
RowsAreBounded == WholeFills => \A c \in Contracts : Abs(positions[c].qty) <= Quantity
CashIsRealised ==
  WholeFills =>
    \A c \in Contracts :
      SumFunctionOnSet(Cash, FillsOn(c))
        = positions[c].realised - positions[c].qty * positions[c].avg
RealisedOn == [c \in Contracts |-> positions[c].realised]
DayIsTheRows == dayRealised = SumFunction(RealisedOn)

BookInv ==
  /\ OrderInv /\ RowsMatch /\ WholeOrders /\ RowsAreBounded /\ CashIsRealised /\ DayIsTheRows

\* A row that a whole opening fill grows, and one that a close shrinks.
LEMMA ExactAverage == ASSUME NEW p \in Nat, NEW k \in Nat \ {0} PROVE (p * k) \div k = p
OBVIOUS

LEMMA OpeningGrows ==
  ASSUME NEW r \in Row, NEW side \in {1, -1}, NEW k \in Nat \ {0}, NEW price \in Nat,
         NEW made \in Nat, r.qty = side * made, made # 0 => r.avg = price
  PROVE  Average(r, side * k, price) = price /\ Realises(r, side * k, price) = 0
<1>1. r.avg \in Nat
  BY DEF Row
<1>2. ~Reduces(r, side * k)
  BY DEF Reduces, SameSign
<1>3. Abs(side * k) = k /\ Abs(r.qty) = made
  BY DEF Abs
<1>4. r.avg * made + price * k = price * (made + k)
  <2>1. CASE made = 0
    BY <1>1, <2>1
  <2>2. CASE made # 0
    BY <2>2
  <2> QED BY <2>1, <2>2
<1>5. made + k \in Nat \ {0}
  OBVIOUS
<1>6. (price * (made + k)) \div (made + k) = price
  BY <1>5, ExactAverage
<1> QED BY <1>2, <1>3, <1>4, <1>6 DEF Average, Realises

LEMMA ClosingShrinks ==
  ASSUME NEW r \in Row, NEW side \in {1, -1}, NEW k \in Nat \ {0}, NEW price \in Nat,
         NEW m \in Nat, r.qty = -(side * m), k <= m
  PROVE  /\ Average(r, side * k, price) = r.avg
         /\ Realises(r, side * k, price) = (-side) * k * (price - r.avg)
<1>1. r.avg \in Nat
  BY DEF Row
<1>2. Reduces(r, side * k)
  BY DEF Reduces, SameSign
<1>3. Abs(side * k) = k /\ Abs(r.qty) = m
  BY DEF Abs
<1>4. Least(k, m) = k
  BY DEF Least
<1>5. (IF r.qty > 0 THEN 1 ELSE -1) = -side
  OBVIOUS
<1> QED BY <1>2, <1>3, <1>4, <1>5 DEF Average, Realises

LEMMA NoOrderMatches ==
  ASSUME OrderInv, RowsMatch, UNCHANGED <<positions, book>>, pc # "down", ~Filling, ~Filling',
         ~blocked' => ~blocked
  PROVE  RowsMatch'
<1>1. Trusted' => Trusted
  BY DEF Trusted, WholeFills
<1>2. HeldOn' = HeldOn /\ HeldQty' = HeldQty /\ HeldPrice' = HeldPrice
  BY DEF HeldOn, HeldQty, HeldPrice
<1> QED BY <1>1, <1>2 DEF RowsMatch

LEMMA OrdersAreTrusted == ASSUME OrderInv, WholeFills, InOrder PROVE Trusted
BY DEF OrderInv, OrderIsAsked, InOrder, Trusted

\* Before a fill of an order.
LEMMA RowUnderFill ==
  ASSUME OrderInv, RowsMatch, Trusted, pc = "apply"
  PROVE  /\ FillRowOf \in Row
         /\ book = NoBook => /\ FillRowOf.qty = order.side * order.made
                             /\ order.made # 0 => FillRowOf.avg = order.price
         /\ book # NoBook => /\ FillRowOf.qty = -(order.side * (order.qty - order.made))
                             /\ FillRowOf.avg = book.price
<1>1. /\ Slice \in Nat \ {0} /\ order.contract \in Contracts /\ order.side \in {1, -1}
      /\ order.made \in Nat /\ order.qty \in Nat \ {0} /\ Slice + order.made <= order.qty
  BY SliceOfOrder
<1>2. FillRowOf \in Row
  BY <1>1 DEF OrderInv, PositionsType, FillRowOf
<1>3. Filling /\ InOrder /\ HeldOn = order.contract
  BY DEF Filling, InOrder, HeldOn
<1>4. /\ FillRowOf.qty = book.qty + order.side * order.made
      /\ FillRowOf.qty # 0 => FillRowOf.avg = IF book = NoBook THEN order.price ELSE book.price
  BY <1>1, <1>3 DEF RowsMatch, HeldQty, HeldPrice, FillRowOf
<1>5. CASE book = NoBook
  <2>1. book.qty = 0
    BY <1>5 DEF NoBook
  <2>2. order.side * order.made \in Int /\ (order.made # 0 => order.side * order.made # 0)
    BY <1>1
  <2>3. FillRowOf.qty = order.side * order.made
    BY <1>4, <2>1, <2>2
  <2> QED BY <1>2, <1>4, <1>5, <2>2, <2>3
<1>6. CASE book # NoBook
  <2>1. /\ order.qty = Abs(book.qty) /\ order.side = (IF book.qty > 0 THEN -1 ELSE 1)
        /\ book.qty \in Int
    BY <1>3, <1>6 DEF OrderInv, OrderIsAsked, ProcessType, BookRow
  <2>2. book.qty = -(order.side * order.qty)
    BY <2>1 DEF Abs
  <2>3. FillRowOf.qty = -(order.side * (order.qty - order.made))
    BY <1>1, <1>4, <2>2
  <2>4. FillRowOf.qty # 0
    BY <1>1, <2>3
  <2> QED BY <1>2, <1>4, <1>6, <2>3, <2>4
<1> QED BY <1>5, <1>6

LEMMA FillMatches ==
  ASSUME OrderInv, RowsMatch, ApplyFill
  PROVE  RowsMatch'
<1> SUFFICES ASSUME Trusted' PROVE RowsMatch'
  BY DEF RowsMatch
<1>1. pc = "apply" /\ UNCHANGED <<book, blocked>>
  BY DEF ApplyFill
<1>2. Trusted /\ Filling /\ Filling'
  BY <1>1, FillAdvances DEF Trusted, WholeFills, Filling
<1>3. HeldOn = order.contract /\ HeldOn' = order.contract
  BY <1>2, FillAdvances DEF HeldOn
<1>4. /\ Slice \in Nat \ {0} /\ order.contract \in Contracts /\ order.side \in {1, -1}
      /\ order.made \in Nat /\ order.qty \in Nat \ {0} /\ Slice + order.made <= order.qty
      /\ order.price \in Nat
  BY <1>1, SliceOfOrder
<1>5. book.qty \in Int
  BY DEF OrderInv, ProcessType, BookRow
<1>6. HeldQty' = HeldQty + SignedSlice /\ HeldQty \in Int
  BY <1>1, <1>2, <1>4, <1>5, FillAdvances DEF HeldQty, SignedSlice
<1>7. HeldPrice' = HeldPrice /\ HeldPrice = (IF book = NoBook THEN order.price ELSE book.price)
  BY <1>1, <1>2, FillAdvances DEF HeldPrice
<1>8. Average(FillRowOf, SignedSlice, order.price) = HeldPrice
  <2>1. CASE book = NoBook
    BY <1>1, <1>2, <1>4, <1>7, <2>1, RowUnderFill, OpeningGrows DEF SignedSlice
  <2>2. CASE book # NoBook
    <3>1. order.qty - order.made \in Nat /\ Slice <= order.qty - order.made
      BY <1>4
    <3> QED BY <1>1, <1>2, <1>4, <1>7, <2>2, <3>1, RowUnderFill, ClosingShrinks DEF SignedSlice
  <2> QED BY <2>1, <2>2
<1> DEFINE new == Upserted(FillRowOf, SignedSlice, order.price)
<1>9. /\ positions' = [positions EXCEPT ![order.contract] = new]
      /\ new.qty = FillRowOf.qty + SignedSlice /\ new.avg = HeldPrice
  <2>1. FillRowOf \in Row /\ SignedSlice \in Int /\ SignedSlice # 0
        /\ positions' = [positions EXCEPT ![order.contract] = new]
    BY FillUpserts
  <2> QED BY <1>4, <1>8, <2>1, UpsertedIsARow
<1> HIDE DEF new
<1>10. ASSUME NEW c \in Contracts
       PROVE  /\ positions'[c].qty = (IF c = HeldOn' THEN HeldQty' ELSE 0)
              /\ c = HeldOn' /\ HeldQty' # 0 => positions'[c].avg = HeldPrice'
  <2>1. positions[c].qty = (IF c = HeldOn THEN HeldQty ELSE 0)
    BY <1>2 DEF RowsMatch
  <2>2. CASE c = order.contract
    <3>1. positions'[c] = new
      BY <1>9, <2>2 DEF OrderInv, PositionsType
    <3>2. FillRowOf.qty = HeldQty
      BY <1>3, <2>1, <2>2 DEF FillRowOf
    <3> QED BY <1>3, <1>6, <1>7, <1>9, <2>2, <3>1, <3>2
  <2>3. CASE c # order.contract
    <3>1. positions'[c] = positions[c]
      BY <1>9, <2>3 DEF OrderInv, PositionsType
    <3> QED BY <1>3, <2>1, <2>3, <3>1
  <2> QED BY <2>2, <2>3
<1> QED BY <1>10 DEF RowsMatch

LEMMA OutcomeMatches ==
  ASSUME OrderInv, RowsMatch, WholeOrders, Outcome
  PROVE  RowsMatch'
<1> SUFFICES ASSUME Trusted' PROVE RowsMatch'
  BY DEF RowsMatch
<1>1. pc = "outcome" /\ positions' = positions /\ pc' = "idle"
  BY DEF Outcome, Raise, db
<1>2. /\ order.left = <<>> /\ order.made \in Nat \ {0} /\ order.qty \in Nat \ {0}
      /\ order.contract \in Contracts /\ order.side \in {1, -1}
      /\ order.left \in Seq(Nat) /\ SumFunction(order.left) + order.made <= order.qty
  BY <1>1 DEF OrderInv, OrderIsFiled, OrderIsAsked, InOrder, ProcessType, InHand
<1>3. SumFunction(order.left) = 0
  BY <1>2, SumOfSequence
<1>4. Status = (IF order.made >= order.qty THEN "FILLED" ELSE "PARTIALLY_FILLED")
  BY <1>2, <1>3 DEF Status
<1>5. OutcomeAccepted(Status)
  <2>1. CASE OutcomeAccepted(Status)
    BY <2>1
  <2>2. CASE ~OutcomeAccepted(Status)
    <3>1. blocked' = TRUE
      BY <2>2 DEF Outcome, Raise
    <3>2. WholeFills
      BY <3>1 DEF Trusted, WholeFills
    <3>3. order.made = order.qty
      BY <1>1, <1>2, <1>3, <3>2 DEF WholeOrders
    <3> QED BY <1>2, <1>4, <3>3 DEF OutcomeAccepted
  <2> QED BY <2>1, <2>2
<1>6. order.made = order.qty
  BY <1>2, <1>3, <1>4, <1>5 DEF OutcomeAccepted
<1>7. /\ blocked' = blocked
      /\ book' = IF book = NoBook
                   THEN [contract |-> order.contract, qty |-> order.side * order.qty,
                         price |-> order.price, charges |-> OrderCharges]
                   ELSE NoBook
  BY <1>5 DEF Outcome
<1>8. Filling /\ ~Filling' /\ InOrder /\ HeldOn = order.contract
  BY <1>1 DEF Filling, InOrder, HeldOn
<1>9. CASE book = NoBook
  <2>1. Trusted
    BY <1>1, <1>8, <1>9 DEF OrderInv, OrderIsAsked, Trusted
  <2>2. /\ HeldOn' = order.contract /\ HeldQty' = order.side * order.qty + 0
        /\ HeldPrice' = order.price
    BY <1>7, <1>8, <1>9 DEF HeldOn, HeldQty, HeldPrice
  <2>3. HeldQty = order.side * order.qty /\ HeldPrice = order.price
    BY <1>2, <1>6, <1>8, <1>9 DEF HeldQty, HeldPrice, NoBook
  <2>4. HeldQty' = HeldQty
    BY <1>2, <2>2, <2>3
  <2> QED BY <1>1, <1>8, <2>1, <2>2, <2>3, <2>4 DEF RowsMatch
<1>10. CASE book # NoBook
  <2>1. Trusted
    BY <1>1, <1>7, <1>10 DEF Trusted, WholeFills
  <2>2. /\ order.qty = Abs(book.qty) /\ order.side = (IF book.qty > 0 THEN -1 ELSE 1)
        /\ book.qty \in Int
    BY <1>8, <1>10 DEF OrderInv, OrderIsAsked, ProcessType, BookRow
  <2>3. HeldQty = 0
    BY <1>2, <1>6, <1>8, <2>2 DEF HeldQty, Abs
  <2>4. HeldQty' = 0
    BY <1>7, <1>8, <1>10 DEF HeldQty, NoBook
  <2> QED BY <1>1, <2>1, <2>3, <2>4 DEF RowsMatch
<1> QED BY <1>9, <1>10

LEMMA StartMatches ==
  ASSUME OrderInv, StartProcess
  PROVE  RowsMatch'
<1> SUFFICES ASSUME Trusted' PROVE RowsMatch'
  BY DEF RowsMatch
<1>1. pc = "down" /\ pc' = "idle" /\ positions' = positions
  BY DEF StartProcess, db
<1>2. book = NoBook
  BY <1>1 DEF OrderInv, ProcessType
<1>3. ~Filling' /\ HeldOn' = book'.contract /\ HeldQty' = book'.qty + 0 /\ HeldPrice' = book'.price
  BY <1>1 DEF Filling, HeldOn, HeldQty, HeldPrice
<1>4. CASE OpenPositions = {} /\ book' = book
  <2>1. HeldQty' = 0
    BY <1>2, <1>3, <1>4 DEF NoBook
  <2> QED BY <1>1, <1>4, <2>1 DEF RowsMatch, OpenPositions, IsOpenRow
<1>5. ASSUME NEW d \in Contracts, OpenPositions = {d}, book' = Adopted(d) PROVE RowsMatch'
  <2>1. positions[d].qty \in Int
    BY DEF OrderInv, PositionsType, Row
  <2>2. HeldOn' = d /\ HeldQty' = positions[d].qty /\ HeldPrice' = positions[d].avg
    BY <1>3, <1>5, <2>1 DEF Adopted
  <2>3. \A c \in Contracts : c # d => positions[c].qty = 0
    BY <1>5 DEF OpenPositions, IsOpenRow
  <2> QED BY <1>1, <2>2, <2>3 DEF RowsMatch
<1>6. CASE book' = book /\ blocked' = TRUE
  BY <1>2, <1>6 DEF Trusted
<1> QED BY <1>4, <1>5, <1>6 DEF StartProcess

LEMMA SubmissionMatches ==
  ASSUME OrderInv, RowsMatch, UNCHANGED <<positions, book, order, blocked>>,
         pc = "record", pc' = "apply"
  PROVE  RowsMatch'
<1> SUFFICES ASSUME Trusted' PROVE RowsMatch'
  BY DEF RowsMatch
<1>1. Trusted /\ ~Filling /\ Filling' /\ InOrder
  BY DEF Trusted, WholeFills, Filling, InOrder
<1>2. order.made = 0 /\ order.side \in {1, -1} /\ book.qty \in Int
  BY DEF OrderInv, OrderIsFiled, ProcessType, InHand, BookRow
<1>3. HeldOn = book.contract /\ HeldQty = book.qty /\ HeldPrice = book.price
  BY <1>1, <1>2 DEF HeldOn, HeldQty, HeldPrice
<1>4. HeldOn' = order.contract /\ HeldQty' = book.qty
  BY <1>1, <1>2 DEF HeldOn, HeldQty
<1>5. CASE book = NoBook
  <2>1. book.qty = 0 /\ book.contract \notin Contracts
    BY <1>5, OrderAssumption DEF NoBook
  <2> QED BY <1>1, <1>3, <1>4, <2>1 DEF RowsMatch
<1>6. CASE book # NoBook
  <2>1. book.contract = order.contract
    BY <1>1, <1>6 DEF OrderInv, OrderIsAsked
  <2>2. HeldPrice' = book.price
    BY <1>1, <1>6 DEF HeldPrice
  <2> QED BY <1>1, <1>3, <1>4, <2>1, <2>2 DEF RowsMatch
<1> QED BY <1>5, <1>6

\* Every fill under a policy of whole answers belongs to a whole order.
LEMMA QuantityIsBounded ==
  ASSUME OrderInv, RowsMatch, RowsAreBounded, WholeFills, InOrder, ~Filling
  PROVE  order.qty <= Quantity
<1>1. order.qty \in Nat \ {0} /\ (book = NoBook => order.qty = Quantity)
  BY DEF OrderInv, OrderIsAsked
<1>2. ASSUME book # NoBook PROVE order.qty <= Quantity
  <2>1. book.contract \in Contracts /\ book.qty \in Int /\ order.qty = Abs(book.qty)
    BY <1>2 DEF OrderInv, OrderIsAsked, ProcessType, BookRow
  <2>2. positions[book.contract].qty = book.qty + 0
    BY <2>1, OrdersAreTrusted DEF RowsMatch, HeldOn, HeldQty
  <2> QED BY <2>1, <2>2 DEF RowsAreBounded
<1> QED BY <1>1, <1>2, OrderAssumption

LEMMA SubmitIsWhole ==
  ASSUME OrderInv, RowsMatch, RowsAreBounded, Submit
  PROVE  WholeOrders'
<1> SUFFICES ASSUME WholeFills, order'.left # <<>> \/ order'.made # 0
             PROVE  SumFunction(order'.left) + order'.made = order'.qty
  BY DEF WholeOrders, WholeFills
<1>1. pc = "submit"
  BY DEF Submit
<1>2. order.made = 0 /\ order.left = <<>> /\ order \in InHand /\ order.qty \in Nat \ {0}
  BY <1>1 DEF OrderInv, OrderIsFiled, OrderIsAsked, InOrder, ProcessType
<1>3. order' # order
  BY <1>2
<1>4. PICK s \in Answers(order.qty), p \in Prices : order' = [order EXCEPT !.price = p, !.left = s]
  BY <1>3 DEF Submit
<1>5. order'.left = s /\ order'.made = 0 /\ order'.qty = order.qty
  BY <1>2, <1>4 DEF InHand
<1>6. SumFunction(s) = order.qty
  <2>1. CASE s = <<order.qty>>
    <3>1. s \in Seq(Nat) /\ s # <<>> /\ Head(s) = order.qty /\ Tail(s) = <<>> /\ <<>> \in Seq(Nat)
      BY <1>2, <2>1
    <3>2. SumFunction(s) = order.qty + 0
      BY <3>1, SumOfSequence
    <3> QED BY <1>2, <3>2
  <2>2. CASE s \in Splits /\ SumFunction(s) <= order.qty
    <3>1. SumFunction(s) = Quantity
      BY <2>2 DEF WholeFills
    <3>2. order.qty <= Quantity
      BY <1>1, QuantityIsBounded DEF InOrder, Filling
    <3> QED BY <1>2, <2>2, <3>1, <3>2, OrderAssumption
  <2> QED BY <2>1, <2>2 DEF Answers
<1> QED BY <1>2, <1>5, <1>6

LEMMA FillIsWhole ==
  ASSUME OrderInv, WholeOrders, ApplyFill
  PROVE  WholeOrders'
<1> SUFFICES ASSUME WholeFills PROVE SumFunction(order'.left) + order'.made = order'.qty
  BY DEF WholeOrders, WholeFills
<1>1. pc = "apply" /\ order.left # <<>>
  BY DEF ApplyFill, OrderInv, OrderIsFiled
<1>2. SumFunction(order.left) + order.made = order.qty
  BY <1>1 DEF WholeOrders
<1>3. /\ Slice \in Nat /\ order.made \in Nat /\ SumFunction(Tail(order.left)) \in Nat
      /\ SumFunction(order.left) = Slice + SumFunction(Tail(order.left))
  BY <1>1, SliceOfOrder
<1>4. /\ order'.left = Tail(order.left) /\ order'.made = order.made + Slice
      /\ order'.qty = order.qty
  BY FillAdvances
<1> QED BY <1>2, <1>3, <1>4

LEMMA FillIsBounded ==
  ASSUME OrderInv, RowsMatch, RowsAreBounded, ApplyFill
  PROVE  RowsAreBounded'
<1> SUFFICES ASSUME WholeFills, NEW c \in Contracts PROVE Abs(positions'[c].qty) <= Quantity
  BY DEF RowsAreBounded, WholeFills
<1>1. pc = "apply" /\ Trusted
  BY OrdersAreTrusted DEF ApplyFill, InOrder
<1>2. /\ Slice \in Nat \ {0} /\ order.contract \in Contracts /\ order.side \in {1, -1}
      /\ order.made \in Nat /\ order.qty \in Nat \ {0} /\ Slice + order.made <= order.qty
      /\ order.price \in Nat
  BY <1>1, SliceOfOrder
<1> DEFINE new == Upserted(FillRowOf, SignedSlice, order.price)
<1>3. FillRowOf \in Row /\ SignedSlice \in Int /\ SignedSlice # 0
      /\ positions' = [positions EXCEPT ![order.contract] = new]
  BY FillUpserts
<1>4. new.qty = FillRowOf.qty + order.side * Slice
  BY <1>2, <1>3, UpsertedIsARow DEF SignedSlice
<1> HIDE DEF new
<1>5. Abs(positions[c].qty) <= Quantity
  BY DEF RowsAreBounded
<1>6. CASE c # order.contract
  BY <1>3, <1>5, <1>6 DEF OrderInv, PositionsType
<1>7. CASE c = order.contract
  <2>1. positions'[c] = new
    BY <1>3, <1>7 DEF OrderInv, PositionsType
  <2>2. CASE book = NoBook
    <3>1. order.qty = Quantity
      BY <1>1, <2>2 DEF OrderInv, OrderIsAsked, InOrder
    <3>2. new.qty = order.side * order.made + order.side * Slice
      BY <1>1, <1>4, <2>2, RowUnderFill
    <3>3. Abs(new.qty) = order.made + Slice
      BY <1>2, <3>2 DEF Abs
    <3> QED BY <1>2, <2>1, <3>1, <3>3
  <2>3. CASE book # NoBook
    <3>1. new.qty = -(order.side * (order.qty - order.made)) + order.side * Slice
      BY <1>1, <1>4, <2>3, RowUnderFill
    <3>2. Abs(new.qty) = (order.qty - order.made) - Slice
      BY <1>2, <3>1 DEF Abs
    <3>3. FillRowOf.qty = -(order.side * (order.qty - order.made))
      BY <1>1, <2>3, RowUnderFill
    <3>4. Abs(FillRowOf.qty) = order.qty - order.made
      BY <1>2, <3>3 DEF Abs
    <3>5. Quantity \in Nat /\ Abs(FillRowOf.qty) <= Quantity
      BY <1>5, <1>7, OrderAssumption DEF FillRowOf
    <3> QED BY <1>2, <2>1, <3>2, <3>4, <3>5
  <2> QED BY <2>2, <2>3
<1> QED BY <1>6, <1>7

\* The identity of one fill, opening and closing.
LEMMA OpeningIsPaid ==
  ASSUME NEW cash \in Int, NEW gained \in Int, NEW q \in Int, NEW side \in {1, -1},
         NEW avg \in Nat, NEW k \in Nat, NEW price \in Nat, q # 0 => avg = price,
         cash = gained - q * avg
  PROVE  cash - side * k * price = gained - (q + side * k) * price
<1>1. q * avg = q * price
  BY q = 0 \/ q # 0
<1>2. CASE side = 1
  BY <1>1, <1>2
<1>3. CASE side = -1
  BY <1>1, <1>3
<1> QED BY <1>2, <1>3

LEMMA ClosingIsPaid ==
  ASSUME NEW cash \in Int, NEW gained \in Int, NEW q \in Int, NEW side \in {1, -1},
         NEW avg \in Nat, NEW k \in Nat, NEW price \in Nat, cash = gained - q * avg
  PROVE  cash - side * k * price = (gained + (-side) * k * (price - avg)) - (q + side * k) * avg
<1>1. CASE side = 1
  BY <1>1
<1>2. CASE side = -1
  BY <1>2
<1> QED BY <1>1, <1>2

LEMMA FillIsPaid ==
  ASSUME OrderInv, RowsMatch, CashIsRealised, ApplyFill
  PROVE  CashIsRealised'
<1> SUFFICES ASSUME WholeFills, NEW c \in Contracts
             PROVE  SumFunctionOnSet(Cash, FillsOn(c))'
                      = positions'[c].realised - positions'[c].qty * positions'[c].avg
  BY DEF CashIsRealised, WholeFills
<1>1. pc = "apply" /\ Trusted
  BY OrdersAreTrusted DEF ApplyFill, InOrder
<1>2. /\ Slice \in Nat \ {0} /\ order.contract \in Contracts /\ order.side \in {1, -1}
      /\ order.made \in Nat /\ order.qty \in Nat \ {0} /\ Slice + order.made <= order.qty
      /\ order.price \in Nat
  BY <1>1, SliceOfOrder
<1> DEFINE new == Upserted(FillRowOf, SignedSlice, order.price)
           cash == SumFunctionOnSet(Cash, FillsOn(c))
           then == SumFunctionOnSet(Cash, FillsOn(c))'
<1>3. FillRowOf \in Row /\ SignedSlice \in Int /\ SignedSlice # 0
      /\ positions' = [positions EXCEPT ![order.contract] = new]
  BY FillUpserts
<1>4. /\ new.qty = FillRowOf.qty + order.side * Slice
      /\ new.avg = Average(FillRowOf, order.side * Slice, order.price)
      /\ new.realised = FillRowOf.realised + Realises(FillRowOf, order.side * Slice, order.price)
  BY <1>2, <1>3, UpsertedIsARow DEF SignedSlice
<1>5. /\ then = cash + (IF c = order.contract THEN -(order.side * Slice * order.price) ELSE 0)
      /\ cash \in Int
  BY FillIsSigned
<1>6. cash = positions[c].realised - positions[c].qty * positions[c].avg
  BY DEF CashIsRealised
<1> HIDE DEF new, cash, then
<1>7. CASE c # order.contract
  <2>1. positions'[c] = positions[c]
    BY <1>3, <1>7 DEF OrderInv, PositionsType
  <2>2. then = cash
    BY <1>5, <1>7
  <2> QED BY <1>6, <2>1, <2>2 DEF then
<1>8. CASE c = order.contract
  <2> DEFINE row == FillRowOf
  <2>1. positions'[c] = new /\ positions[c] = row
    BY <1>3, <1>8 DEF OrderInv, PositionsType, FillRowOf
  <2>2. row.realised \in Int /\ row.avg \in Nat /\ row.qty \in Int
    BY <1>3 DEF Row
  <2>3. then = cash - order.side * Slice * order.price
    BY <1>2, <1>5, <1>8
  <2>4. cash = row.realised - row.qty * row.avg
    BY <1>6, <2>1
  <2>5. CASE book = NoBook
    <3>1. row.qty = order.side * order.made /\ (order.made # 0 => row.avg = order.price)
      BY <1>1, <2>5, RowUnderFill
    <3>2. new.avg = order.price /\ new.realised = row.realised + 0
      BY SMTT(20), <1>2, <1>3, <1>4, <3>1, OpeningGrows
    <3> HIDE DEF row
    <3>3. row.qty # 0 => row.avg = order.price
      BY <1>2, <3>1
    <3>4. cash - order.side * Slice * order.price
            = row.realised - (row.qty + order.side * Slice) * order.price
      BY <1>2, <1>5, <2>2, <2>4, <3>3, OpeningIsPaid
    <3>5. /\ new.realised = row.realised /\ new.avg = order.price
          /\ new.qty = row.qty + order.side * Slice
      BY <1>4, <2>2, <3>2 DEF row
    <3> QED BY <2>1, <2>3, <3>4, <3>5 DEF then
  <2>6. CASE book # NoBook
    <3>1. row.qty = -(order.side * (order.qty - order.made))
      BY <1>1, <2>6, RowUnderFill
    <3>2. order.qty - order.made \in Nat /\ Slice <= order.qty - order.made
      BY <1>2
    <3>3. /\ new.avg = row.avg
          /\ new.realised = row.realised + (-order.side) * Slice * (order.price - row.avg)
      BY <1>2, <1>3, <1>4, <3>1, <3>2, ClosingShrinks
    <3>4. new.qty = row.qty + order.side * Slice
      BY <1>4
    <3> HIDE DEF row
    <3>5. cash - order.side * Slice * order.price
            = (row.realised + (-order.side) * Slice * (order.price - row.avg))
                - (row.qty + order.side * Slice) * row.avg
      BY <1>2, <1>5, <2>2, <2>4, ClosingIsPaid
    <3> QED BY <2>1, <2>3, <3>3, <3>4, <3>5 DEF then
  <2> QED BY <2>5, <2>6
<1> QED BY <1>7, <1>8

LEMMA FillIsBooked ==
  ASSUME OrderInv, DayIsTheRows, ApplyFill
  PROVE  DayIsTheRows'
<1> SUFFICES dayRealised' = SumFunction(RealisedOn)'
  BY DEF DayIsTheRows
<1> DEFINE new == Upserted(FillRowOf, SignedSlice, order.price)
           f == RealisedOn
           h == RealisedOn'
           gain == Realises(FillRowOf, SignedSlice, order.price)
<1>1. /\ order.contract \in Contracts /\ FillRowOf \in Row /\ SignedSlice \in Int /\ SignedSlice # 0
      /\ positions' = [positions EXCEPT ![order.contract] = new] /\ positions' \in [Contracts -> Row]
      /\ dayRealised' = dayRealised + gain /\ order.price \in Nat
  BY FillUpserts
<1>2. gain \in Int /\ new.realised = FillRowOf.realised + gain
  BY <1>1, UpsertedIsARow
<1> HIDE DEF new, gain
<1>3. \A c \in Contracts : f[c] = positions[c].realised /\ h[c] = positions'[c].realised
                           /\ f[c] \in Int /\ h[c] \in Int
  BY <1>1 DEF RealisedOn, OrderInv, PositionsType, Row
<1>4. \A c \in Contracts \ {order.contract} : f[c] = h[c]
  BY <1>1, <1>3 DEF OrderInv, PositionsType
<1>5. h[order.contract] - f[order.contract] = gain
  <2>1. positions'[order.contract] = new /\ positions[order.contract] = FillRowOf
    BY <1>1 DEF OrderInv, PositionsType, FillRowOf
  <2>2. FillRowOf.realised \in Int
    BY <1>1 DEF Row
  <2>3. h[order.contract] = new.realised /\ f[order.contract] = FillRowOf.realised
    BY <1>1, <1>3, <2>1
  <2> HIDE DEF f, h
  <2> QED BY <1>2, <2>2, <2>3
<1>6. /\ SumFunction(RealisedOn) = SumFunctionOnSet(f, Contracts)
      /\ SumFunction(RealisedOn)' = SumFunctionOnSet(h, Contracts)
  BY DEF SumFunction, RealisedOn
<1>7. dayRealised = SumFunctionOnSet(f, Contracts)
  BY <1>6 DEF DayIsTheRows
<1> HIDE DEF f, h
<1>8. SumFunctionOnSet(h, Contracts)
        = SumFunctionOnSet(f, Contracts) + (h[order.contract] - f[order.contract])
  BY <1>1, <1>3, <1>4, SumChanges, OrderAssumption
<1> QED BY <1>1, <1>5, <1>6, <1>7, <1>8

LEMMA MoneyStays ==
  ASSUME OrderInv, BookInv, UNCHANGED <<positions, dayRealised>>,
         Cash' = Cash, \A c : FillsOn(c)' = FillsOn(c)
  PROVE  RowsAreBounded' /\ CashIsRealised' /\ DayIsTheRows'
<1>1. RowsAreBounded'
  BY DEF BookInv, RowsAreBounded, WholeFills
<1>2. CashIsRealised'
  BY DEF BookInv, CashIsRealised, WholeFills
<1>3. RealisedOn' = RealisedOn
  BY DEF RealisedOn
<1>4. DayIsTheRows'
  BY <1>3 DEF BookInv, DayIsTheRows
<1> QED BY <1>1, <1>2, <1>4

LEMMA BookInit == Init => BookInv
<1> SUFFICES ASSUME Init PROVE BookInv
  OBVIOUS
<1>1. OrderInv
  BY OrderInit
<1>2. RowsMatch /\ WholeOrders
  BY DEF Init, RowsMatch, Trusted, WholeOrders
<1>3. \A c \in Contracts : /\ positions[c].qty = 0 /\ positions[c].avg = 0
                           /\ positions[c].realised = 0
  BY DEF Init, NoRow
<1>4. RowsAreBounded
  BY <1>3, OrderAssumption DEF RowsAreBounded, Abs
<1>5. CashIsRealised
  <2>1. \A c : FillsOn(c) = {}
    BY DEF Init, FillsOn
  <2>2. SumFunctionOnSet(Cash, {}) = 0
    BY SumUnfolds, FS_EmptySet
  <2> QED BY <1>3, <2>1, <2>2 DEF CashIsRealised
<1>6. DayIsTheRows
  <2> SUFFICES SumFunctionOnSet(RealisedOn, Contracts) = 0
    BY DEF DayIsTheRows, Init, SumFunction, RealisedOn
  <2> DEFINE f == RealisedOn
  <2>1. \A c \in Contracts : f[c] = 0
    BY <1>3 DEF RealisedOn
  <2> HIDE DEF f
  <2>2. SumFunctionOnSet(f, Contracts) = 0
    BY <2>1, SumIsZero, OrderAssumption
  <2> QED BY <2>2 DEF f
<1> QED BY <1>1, <1>2, <1>4, <1>5, <1>6 DEF BookInv

LEMMA BookStep == BookInv /\ [Next]_vars => BookInv'
<1> SUFFICES ASSUME BookInv, [Next]_vars PROVE BookInv'
  OBVIOUS
<1>0. /\ OrderInv /\ RowsMatch /\ WholeOrders /\ RowsAreBounded /\ CashIsRealised /\ DayIsTheRows
      /\ OrderInv'
  BY OrderStep DEF BookInv
<1>1. CASE UNCHANGED vars
  <2>1. UNCHANGED <<intents, orders, fills, positions, dayRealised, pc, order, book, blocked>>
    BY <1>1 DEF vars, db, memory
  <2>2. RowsMatch'
    BY <1>0, <2>1 DEF RowsMatch, Trusted, WholeFills, HeldOn, HeldQty, HeldPrice, Filling
  <2>3. WholeOrders'
    BY <1>0, <2>1 DEF WholeOrders, WholeFills
  <2> QED BY <1>0, <2>1, <2>2, <2>3, SumsStay, MoneyStays DEF BookInv
<1>2. CASE StartProcess
  <2>1. UNCHANGED <<intents, fills, positions, dayRealised>> /\ pc' = "idle"
    BY <1>2 DEF StartProcess, db
  <2>2. RowsMatch'
    BY <1>0, <1>2, StartMatches
  <2>3. WholeOrders'
    BY <2>1 DEF WholeOrders
  <2> QED BY <1>0, <2>1, <2>2, <2>3, SumsStay, MoneyStays DEF BookInv
<1>3. CASE Crash
  <2>1. UNCHANGED <<intents, fills, positions, dayRealised>> /\ pc' = "down"
    BY <1>3 DEF Crash, db
  <2>2. RowsMatch' /\ WholeOrders'
    BY <2>1 DEF RowsMatch, Trusted, WholeOrders
  <2> QED BY <1>0, <2>1, <2>2, SumsStay, MoneyStays DEF BookInv
<1>4. CASE RecordSignal
  <2>1. /\ UNCHANGED <<intents, fills, positions, dayRealised, book>>
        /\ pc = "idle" /\ pc' \in {"idle", "intent"} /\ (~blocked' => ~blocked)
    BY <1>4 DEF RecordSignal, Raise
  <2>2. RowsMatch'
    BY <1>0, <2>1, NoOrderMatches DEF Filling
  <2>3. WholeOrders'
    BY <2>1 DEF WholeOrders
  <2> QED BY <1>0, <2>1, <2>2, <2>3, SumsStay, MoneyStays DEF BookInv
<1>5. CASE ReserveIntent
  <2>1. /\ UNCHANGED <<fills, positions, dayRealised, book, blocked>>
        /\ pc = "intent" /\ pc' = "submit"
    BY <1>5 DEF ReserveIntent, memory
  <2>2. RowsMatch'
    BY <1>0, <2>1, NoOrderMatches DEF Filling
  <2>3. WholeOrders'
    BY <2>1 DEF WholeOrders
  <2>4. Cash' = Cash /\ \A c : FillsOn(c)' = FillsOn(c)
    BY <1>0, <1>5, SumsStayOnReserve DEF OrderInv
  <2> QED BY <1>0, <2>1, <2>2, <2>3, <2>4, MoneyStays DEF BookInv
<1>6. CASE Submit
  <2>1. /\ UNCHANGED <<intents, fills, positions, dayRealised, book, blocked>>
        /\ pc = "submit" /\ pc' = "record"
    BY <1>6 DEF Submit, db
  <2>2. RowsMatch'
    BY <1>0, <2>1, NoOrderMatches DEF Filling
  <2>3. WholeOrders'
    BY <1>0, <1>6, SubmitIsWhole
  <2> QED BY <1>0, <2>1, <2>2, <2>3, SumsStay, MoneyStays DEF BookInv
<1>7. CASE RecordSubmission
  <2>1. UNCHANGED <<intents, fills, positions, dayRealised, book>> /\ pc = "record"
    BY <1>7 DEF RecordSubmission
  <2>2. CASE Status = "REJECTED"
    <3>1. pc' = "idle" /\ blocked' = TRUE
      BY <1>7, <2>2 DEF RecordSubmission, Raise
    <3>2. RowsMatch'
      BY <1>0, <2>1, <3>1, NoOrderMatches DEF Filling
    <3>3. WholeOrders'
      BY <3>1 DEF WholeOrders
    <3> QED BY <1>0, <2>1, <3>2, <3>3, SumsStay, MoneyStays DEF BookInv
  <2>3. CASE Status # "REJECTED"
    <3>1. pc' = "apply" /\ order' = order /\ blocked' = blocked
      BY <1>7, <2>3 DEF RecordSubmission, Raise
    <3>2. RowsMatch'
      BY <1>0, <2>1, <3>1, SubmissionMatches
    <3>3. WholeOrders'
      BY <1>0, <2>1, <3>1 DEF WholeOrders, WholeFills
    <3> QED BY <1>0, <2>1, <3>2, <3>3, SumsStay, MoneyStays DEF BookInv
  <2> QED BY <2>2, <2>3
<1>8. CASE ApplyFill
  BY <1>0, <1>8, FillMatches, FillIsWhole, FillIsBounded, FillIsPaid, FillIsBooked DEF BookInv
<1>9. CASE Outcome
  <2>1. UNCHANGED <<intents, fills, positions, dayRealised>> /\ pc' = "idle"
    BY <1>9 DEF Outcome, db, Raise
  <2>2. RowsMatch'
    BY <1>0, <1>9, OutcomeMatches
  <2>3. WholeOrders'
    BY <2>1 DEF WholeOrders
  <2> QED BY <1>0, <2>1, <2>2, <2>3, SumsStay, MoneyStays DEF BookInv
<1> QED BY <1>1, <1>2, <1>3, <1>4, <1>5, <1>6, <1>7, <1>8, <1>9 DEF Next

LEMMA BookInvHolds == RSpec => []BookInv
<1>1. RInit => BookInv
  BY BookInit DEF RInit
<1>2. BookInv /\ [RNext]_<<vars, risk>> => BookInv'
  BY GuardedStepIsAStep, BookStep
<1> QED BY <1>1, <1>2, PTL DEF RSpec

LEMMA MatchingIsAgreeing == BookInv => BookAgreesWithRows
<1> SUFFICES ASSUME BookInv, pc = "idle", ~blocked
             PROVE  /\ OpenPositions = (IF book = NoBook THEN {} ELSE {book.contract})
                    /\ \A c \in OpenPositions :
                         positions[c].qty = book.qty /\ positions[c].avg = book.price
  BY DEF BookAgreesWithRows
<1>1. Trusted /\ ~Filling
  BY DEF Trusted, Filling
<1>2. book.qty \in Int /\ (book = NoBook \/ (book.contract \in Contracts /\ book.qty # 0))
  BY DEF BookInv, OrderInv, ProcessType, BookRow
<1>3. HeldOn = book.contract /\ HeldQty = book.qty /\ HeldPrice = book.price
  BY <1>1, <1>2 DEF HeldOn, HeldQty, HeldPrice
<1>4. \A c \in Contracts : /\ positions[c].qty = (IF c = book.contract THEN book.qty ELSE 0)
                           /\ c = book.contract /\ book.qty # 0 => positions[c].avg = book.price
  BY <1>1, <1>3 DEF BookInv, RowsMatch
<1>5. book = NoBook => book.qty = 0
  BY DEF NoBook
<1> QED BY <1>2, <1>4, <1>5 DEF OpenPositions, IsOpenRow

\* Between orders an unblocked process holds in memory what the table holds,
\* in quantity and entry price, over any fill policy, any number of orders,
\* crashes and adoptions (LifecycleGateway._outcome, _adopt_recovered_position).
THEOREM BookAgreesWithRowsHolds == RSpec => []BookAgreesWithRows
BY BookInvHolds, MatchingIsAgreeing, PTL

\* Where the fill policy answers every order whole, the realised P&L of a flat
\* contract is the cash its fills brought in, and the day's is the total of the
\* rows (ExecutionRepository._upsert_position and _touch_strategy_state).
THEOREM RealisedIsCashHolds ==
  ASSUME WholeFills
  PROVE  RSpec => []RealisedIsCash
<1>1. ASSUME BookInv PROVE RealisedIsCash
  <2>1. dayRealised = SumFunction([c \in Contracts |-> positions[c].realised])
    BY <1>1 DEF BookInv, DayIsTheRows, RealisedOn
  <2>2. ASSUME NEW c \in Contracts \ OpenPositions
        PROVE  positions[c].realised = SumFunctionOnSet(Cash, FillsOn(c))
    <3>1. positions[c].qty = 0
      BY <2>2 DEF OpenPositions, IsOpenRow
    <3>2. positions[c].realised \in Int /\ positions[c].avg \in Nat
      BY <1>1 DEF BookInv, OrderInv, PositionsType, Row
    <3>3. SumFunctionOnSet(Cash, FillsOn(c)) = positions[c].realised - 0 * positions[c].avg
      BY <1>1, <3>1 DEF BookInv, CashIsRealised
    <3>4. 0 * positions[c].avg = 0
      BY <3>2
    <3> QED BY <3>2, <3>3, <3>4
  <2> QED BY <2>1, <2>2 DEF RealisedIsCash
<1> QED BY <1>1, BookInvHolds, PTL

-----------------------------------------------------------------------------
(* The guard and the day.                                                    *)

Known == pc # "down" /\ ~blocked /\ ~guard.halted

Guards == [realised : Int, count : Nat, halted : BOOLEAN]
Capped(g) == ~g.halted /\ MaxLoss > 0 => -MaxLoss < g.realised

GuardType == guard \in Guards
WithinCap == Capped(guard)

\* Nothing is gained before a fill, and nothing filled before a start.
NothingYet == (fills = <<>> => dayRealised = 0) /\ (session = 0 => fills = <<>>)

\* The fills that left their contract flat.
Trips == {i \in DOMAIN fills : FlatAfter(FilledContract(i), i)}

OpenLegsAreOpen == \A i \in OpenLegs : IsOpenRow(FilledContract(i))

\* The legs of an opening order, under way and done.
OpeningLegs == Filling /\ ~blocked /\ book = NoBook => OpenLegs = FillsOf(Me)
BookLegs ==
  pc # "down" /\ ~Filling /\ ~blocked /\ book # NoBook =>
    /\ LegCharges * Cardinality(OpenLegs) <= book.charges
    /\ session = 1 => LegCharges * Cardinality(OpenLegs) = book.charges

\* What a close has realised before the guard hears of it, and the charges it
\* has not booked.
Closing == Filling /\ book # NoBook
Pending == IF Closing THEN order.side * order.made * (book.price - order.price) ELSE 0
Gap == dayRealised - Pending - guard.realised
Unbooked == book.charges + (IF Filling THEN LegCharges * Cardinality(FillsOf(Me)) ELSE 0)

GapIsCharges ==
  Known => /\ 0 <= Gap
           /\ Gap + Unbooked <= LegCharges * Len(fills)
           /\ session = 1 => Gap + Unbooked = LegCharges * Len(fills)

TripsAreCounted ==
  Known /\ session = 1 =>
    guard.count + (IF Closing /\ order.made = order.qty THEN 1 ELSE 0) = Cardinality(Trips)

GuardInv ==
  /\ BookInv /\ GuardType /\ WithinCap /\ NothingYet
  /\ OpenLegsAreOpen /\ OpeningLegs /\ BookLegs /\ GapIsCharges /\ TripsAreCounted

LEMMA OpenLegsAre ==
  OpenLegs = {i \in DOMAIN fills :
                \A j \in Trips : FilledContract(j) = FilledContract(i) => ~(i <= j)}
<1>1. ASSUME NEW i \in DOMAIN fills
      PROVE  (\A j \in FillsOn(FilledContract(i)) : i <= j => ~FlatAfter(FilledContract(i), j))
             <=> (\A j \in Trips : FilledContract(j) = FilledContract(i) => ~(i <= j))
  BY DEF Trips, FillsOn
<1> QED BY <1>1 DEF OpenLegs

\* Steps that write no fill leave the trips and the open legs.
LEMMA LegsStay ==
  ASSUME TablesType, fills' = fills, \A n \in DOMAIN intents : intents'[n] = intents[n]
  PROVE  Trips' = Trips /\ OpenLegs' = OpenLegs
         /\ \A i \in DOMAIN fills : FilledContract(i)' = FilledContract(i)
<1>1. \A i \in DOMAIN fills : intents'[fills'[i].order] = intents[fills[i].order]
  BY FillsAreFinite
<1>2. \A i \in DOMAIN fills : FilledContract(i)' = FilledContract(i)
  BY <1>1 DEF FilledContract
<1>3. \A c : FillsOn(c)' = FillsOn(c)
  BY <1>1 DEF FillsOn, FilledContract
<1>4. Signed' = Signed
  BY <1>1 DEF Signed
<1>5. \A c, i : FlatAfter(c, i)' <=> FlatAfter(c, i)
  BY <1>3, <1>4 DEF FlatAfter
<1>6. Trips' = Trips
  <2>1. Trips' = {i \in DOMAIN fills' : FlatAfter(FilledContract(i), i)'}
    BY DEF Trips
  <2>2. ASSUME NEW i \in DOMAIN fills, NEW c, c = FilledContract(i)
        PROVE  FlatAfter(FilledContract(i), i)' <=> FlatAfter(c, i)'
    BY <1>2, <2>2 DEF FlatAfter
  <2> QED BY <2>1, <2>2, <1>5 DEF Trips
<1>7. (OpenLegs = {i \in DOMAIN fills :
                     \A j \in Trips : FilledContract(j) = FilledContract(i) => ~(i <= j)})'
  BY OpenLegsAre, PTL
<1>8. Trips \subseteq DOMAIN fills
  BY DEF Trips
<1>9. OpenLegs' = OpenLegs
  BY <1>2, <1>6, <1>7, <1>8, OpenLegsAre
<1> QED BY <1>2, <1>6, <1>9

LEMMA LegsAreFills ==
  ASSUME TablesType
  PROVE  /\ OpenLegs \subseteq DOMAIN fills /\ IsFiniteSet(OpenLegs)
         /\ Trips \subseteq DOMAIN fills /\ IsFiniteSet(Trips)
         /\ Cardinality(OpenLegs) \in Nat /\ Cardinality(Trips) \in Nat
         /\ Cardinality(OpenLegs) <= Len(fills) /\ Len(fills) \in Nat
<1>1. OpenLegs \subseteq DOMAIN fills /\ Trips \subseteq DOMAIN fills
  BY DEF OpenLegs, Trips
<1>2. IsFiniteSet(DOMAIN fills) /\ Cardinality(DOMAIN fills) = Len(fills) /\ Len(fills) \in Nat
  <2>1. DOMAIN fills = 1..Len(fills) /\ Len(fills) \in Nat /\ IsFiniteSet(DOMAIN fills)
    BY FillsAreFinite
  <2>2. Cardinality(1..Len(fills)) = IF 1 > Len(fills) THEN 0 ELSE Len(fills) - 1 + 1
    BY <2>1, FS_Interval
  <2> QED BY <2>1, <2>2
<1> QED BY <1>1, <1>2, FS_Subset, FS_CardinalityType

\* A fill that leaves its contract flat ends a trip and every leg on it; any
\* other is one more open leg.
LEMMA FillEndsTrip ==
  ASSUME OrderInv, OrderInv', ApplyFill, NEW new, new = NewFill
  PROVE  /\ Trips' = Trips \cup (IF positions'[order.contract].qty = 0 THEN {new} ELSE {})
         /\ \A i \in DOMAIN fills : FilledContract(i)' = FilledContract(i) /\ i \in Nat /\ i < new
         /\ FilledContract(new)' = order.contract /\ new \in Nat
         /\ DOMAIN fills' = DOMAIN fills \cup {new} /\ new \notin DOMAIN fills
<1>1. /\ DOMAIN fills' = DOMAIN fills \cup {new} /\ new \notin DOMAIN fills
      /\ fills'[new] = NewRow /\ intents' = intents /\ new \in Nat
      /\ \A i \in DOMAIN fills : fills'[i] = fills[i] /\ i \in Nat /\ i < new
  <2>1. DOMAIN fills = 1..Len(fills) /\ Len(fills) \in Nat
    BY FillsAreFinite DEF OrderInv
  <2>2. \A i \in DOMAIN fills : i \in Nat /\ i < Len(fills) + 1
    BY <2>1
  <2> QED BY <2>1, <2>2, FillIsAppended DEF NewFill
<1>2. \A i \in DOMAIN fills : FilledContract(i)' = FilledContract(i)
  BY <1>1 DEF FilledContract
<1>3. FilledContract(new)' = order.contract /\ order.contract \in Contracts
  <2>1. intents[Me].contract = order.contract /\ order.contract \in Contracts
    BY SliceOfOrder DEF ApplyFill
  <2> QED BY <1>1, <2>1 DEF FilledContract, NewRow
<1>4. ASSUME NEW c PROVE FillsOn(c)' = FillsOn(c) \cup (IF c = order.contract THEN {new} ELSE {})
  <2>1. FillsOn(c)' = {i \in DOMAIN fills' : FilledContract(i)' = c}
    BY DEF FillsOn
  <2> QED BY <1>1, <1>2, <1>3, <2>1 DEF FillsOn
<1>5. ASSUME NEW i \in DOMAIN fills PROVE i \in Trips' <=> i \in Trips
  <2> DEFINE s == Signed
             t == Signed'
  <2>0. PICK c : c = FilledContract(i) /\ c = FilledContract(i)'
    BY <1>2
  <2> DEFINE S == {j \in FillsOn(c) : j <= i}
  <2>1. i \in Trips <=> SumFunctionOnSet(s, S) = 0
    BY <2>0 DEF Trips, FlatAfter
  <2>2. i \in Trips' <=> SumFunctionOnSet(t, {j \in FillsOn(c)' : j <= i}) = 0
    BY <1>1, <2>0 DEF Trips, FlatAfter, FillsOn
  <2>3. {j \in FillsOn(c)' : j <= i} = S
    <3>1. ~(new <= i)
      BY <1>1
    <3> QED BY <3>1, <1>4
  <2>4. S \subseteq DOMAIN fills /\ IsFiniteSet(S)
    BY SubsetsOfFills, FS_Subset DEF OrderInv
  <2>5. \A j \in S : s[j] = t[j]
    BY <1>1, <2>4 DEF Signed
  <2> HIDE DEF S, s, t
  <2>6. SumFunctionOnSet(s, S) = SumFunctionOnSet(t, S)
    BY <2>4, <2>5, SumSame
  <2> QED BY <2>1, <2>2, <2>3, <2>6
<1>6. new \in Trips' <=> positions'[order.contract].qty = 0
  <2>0. PICK c : c = order.contract /\ c = FilledContract(new)'
    BY <1>3
  <2>1. new \in Trips' <=> SumFunctionOnSet(Signed', {j \in FillsOn(c)' : j <= new}) = 0
    BY <1>1, <2>0 DEF Trips, FlatAfter, FillsOn
  <2>2. {j \in FillsOn(c)' : j <= new} = FillsOn(c)'
    <3>1. \A j \in FillsOn(c)' : j \in DOMAIN fills'
      BY DEF FillsOn
    <3> QED BY <1>1, <3>1
  <2>3. positions'[c].qty = SumFunctionOnSet(Signed', FillsOn(c)')
    BY <1>3, <2>0 DEF OrderInv, TablesAgree, RowsAreSums
  <2> QED BY <2>0, <2>1, <2>2, <2>3
<1>7. Trips' \subseteq DOMAIN fills' /\ Trips \subseteq DOMAIN fills
  BY DEF Trips
<1> QED BY <1>1, <1>2, <1>3, <1>5, <1>6, <1>7

LEMMA FillOpensLeg ==
  ASSUME OrderInv, OrderInv', ApplyFill, NEW new, new = NewFill
  PROVE  OpenLegs' = IF positions'[order.contract].qty = 0
                       THEN {i \in OpenLegs : FilledContract(i) # order.contract}
                       ELSE OpenLegs \cup {new}
<1>1. (OpenLegs = {i \in DOMAIN fills :
                     \A j \in Trips : FilledContract(j) = FilledContract(i) => ~(i <= j)})'
  BY OpenLegsAre, PTL
<1>2. /\ Trips' = Trips \cup (IF positions'[order.contract].qty = 0 THEN {new} ELSE {})
      /\ \A i \in DOMAIN fills : FilledContract(i)' = FilledContract(i) /\ i \in Nat /\ i < new
      /\ FilledContract(new)' = order.contract /\ new \in Nat
      /\ DOMAIN fills' = DOMAIN fills \cup {new} /\ new \notin DOMAIN fills
  BY FillEndsTrip
<1>3. Trips \subseteq DOMAIN fills
  BY DEF Trips
<1>4. ASSUME NEW i \in DOMAIN fills
      PROVE  i \in OpenLegs' <=> /\ i \in OpenLegs
                                 /\ positions'[order.contract].qty = 0
                                      => FilledContract(i) # order.contract
  <2>1. i \in OpenLegs' <=> \A j \in Trips' : FilledContract(j)' = FilledContract(i) => ~(i <= j)
    BY <1>1, <1>2
  <2>2. i \in OpenLegs <=> \A j \in Trips : FilledContract(j) = FilledContract(i) => ~(i <= j)
    BY OpenLegsAre
  <2>3. i <= new /\ FilledContract(i)' = FilledContract(i)
    BY <1>2
  <2>4. \A j \in Trips : FilledContract(j)' = FilledContract(j)
    BY <1>2, <1>3
  <2>5. CASE positions'[order.contract].qty = 0
    <3>1. Trips' = Trips \cup {new}
      BY <1>2, <2>5
    <3>2. i \in OpenLegs' <=> /\ \A j \in Trips : FilledContract(j)' = FilledContract(i) => ~(i <= j)
                              /\ FilledContract(new)' # FilledContract(i)
      BY <2>1, <2>3, <3>1
    <3>3. (\A j \in Trips : FilledContract(j)' = FilledContract(i) => ~(i <= j))
            <=> (\A j \in Trips : FilledContract(j) = FilledContract(i) => ~(i <= j))
      BY <2>4
    <3>4. FilledContract(new)' = order.contract
      BY <1>2
    <3> QED BY <2>2, <2>5, <3>2, <3>3, <3>4
  <2>6. CASE positions'[order.contract].qty # 0
    <3>1. Trips' = Trips
      BY <1>2, <2>6
    <3>2. (\A j \in Trips' : FilledContract(j)' = FilledContract(i) => ~(i <= j))
            <=> (\A j \in Trips : FilledContract(j) = FilledContract(i) => ~(i <= j))
      BY <2>3, <2>4, <3>1
    <3> QED BY <2>1, <2>2, <2>6, <3>2
  <2> QED BY <2>5, <2>6
<1>5. new \in OpenLegs' <=> positions'[order.contract].qty # 0
  <2>1. new \in OpenLegs' <=> \A j \in Trips' : FilledContract(j)' = order.contract => ~(new <= j)
    BY <1>1, <1>2
  <2>2. \A j \in Trips : ~(new <= j)
    BY <1>2, <1>3
  <2>3. new <= new
    BY <1>2
  <2> QED BY <1>2, <2>1, <2>2, <2>3
<1>6. OpenLegs' \subseteq DOMAIN fills' /\ OpenLegs \subseteq DOMAIN fills
  BY DEF OpenLegs
<1>7. CASE positions'[order.contract].qty = 0
  <2>1. new \notin OpenLegs'
    BY <1>5, <1>7
  <2>2. \A i \in DOMAIN fills : i \in OpenLegs' <=> i \in OpenLegs /\ FilledContract(i) # order.contract
    BY <1>4, <1>7
  <2>3. DOMAIN fills' = DOMAIN fills \cup {new}
    BY <1>2
  <2>4. OpenLegs' = {i \in OpenLegs : FilledContract(i) # order.contract}
    BY <1>6, <2>1, <2>2, <2>3
  <2> QED BY <1>7, <2>4
<1>8. CASE positions'[order.contract].qty # 0
  <2>1. new \in OpenLegs'
    BY <1>5, <1>8
  <2>2. \A i \in DOMAIN fills : i \in OpenLegs' <=> i \in OpenLegs
    BY <1>4, <1>8
  <2>3. DOMAIN fills' = DOMAIN fills \cup {new}
    BY <1>2
  <2>4. OpenLegs' = OpenLegs \cup {new}
    BY <1>6, <2>1, <2>2, <2>3
  <2> QED BY <1>8, <2>4
<1> QED BY <1>7, <1>8

LEMMA BookedIsAGuard ==
  ASSUME NEW g \in Guards, Capped(g), NEW realised \in Int, NEW count \in Nat
  PROVE  /\ Booked(g, realised, count) \in Guards /\ Capped(Booked(g, realised, count))
         /\ ~Booked(g, realised, count).halted =>
              /\ ~g.halted /\ Booked(g, realised, count).realised = realised
              /\ Booked(g, realised, count).count = count
<1> DEFINE new == [realised |-> realised, count |-> count, halted |-> OverLimit(realised, count)]
<1>1. CASE g.halted
  BY <1>1 DEF Booked
<1>2. CASE ~g.halted
  <2>1. Booked(g, realised, count) = new
    BY <1>2 DEF Booked
  <2>2. OverLimit(realised, count) \in BOOLEAN
    BY DEF OverLimit
  <2>3. new \in Guards
    <3> HIDE DEF OverLimit
    <3> QED BY <2>2 DEF Guards
  <2>4. MaxLoss > 0 /\ ~OverLimit(realised, count) => -MaxLoss < realised
    BY GuardAssumption DEF OverLimit
  <2> QED BY <1>2, <2>1, <2>3, <2>4 DEF Capped
<1> QED BY <1>1, <1>2

LEMMA FreshGuardIsAGuard ==
  /\ FreshGuard \in Guards /\ Capped(FreshGuard)
  /\ FreshGuard.realised = 0 /\ FreshGuard.count = 0
BY GuardAssumption DEF FreshGuard, Guards, Capped

\* Where no contract is open no leg is.
LEMMA NoLegsWhenFlat ==
  ASSUME OrderInv, OpenLegsAreOpen, \A c \in Contracts : positions[c].qty = 0
  PROVE  OpenLegs = {} /\ Cardinality(OpenLegs) = 0
<1>1. ASSUME NEW i \in OpenLegs PROVE FALSE
  <2>1. i \in DOMAIN fills
    BY DEF OpenLegs
  <2>2. FilledContract(i) \in Contracts
    BY <2>1, FillsAreFinite DEF OrderInv, FilledContract, IntentRow
  <2> QED BY <2>2 DEF OpenLegsAreOpen, IsOpenRow
<1> QED BY <1>1, FS_EmptySet

LEMMA LegsOfOrderAreNat ==
  ASSUME OrderInv
  PROVE  /\ IsFiniteSet(FillsOf(Me)) /\ Cardinality(FillsOf(Me)) \in Nat
         /\ Cardinality(FillsOf(Me)) <= Len(fills) /\ LegCharges \in Nat
         /\ LegCharges * Cardinality(FillsOf(Me)) \in Nat
<1>1. IsFiniteSet(FillsOf(Me)) /\ FillsOf(Me) \subseteq DOMAIN fills /\ LegCharges \in Nat
  BY SubsetsOfFills, OrderAssumption DEF OrderInv
<1>2. DOMAIN fills = 1..Len(fills) /\ Len(fills) \in Nat /\ IsFiniteSet(DOMAIN fills)
  BY FillsAreFinite DEF OrderInv
<1>3. Cardinality(DOMAIN fills) = Len(fills)
  <2>1. Cardinality(1..Len(fills)) = IF 1 > Len(fills) THEN 0 ELSE Len(fills) - 1 + 1
    BY <1>2, FS_Interval
  <2> QED BY <1>2, <2>1
<1>4. Cardinality(FillsOf(Me)) \in Nat /\ Cardinality(FillsOf(Me)) <= Len(fills)
  BY <1>1, <1>2, <1>3, FS_Subset, FS_CardinalityType
<1> QED BY <1>1, <1>4

LEMMA GuardInit == RInit => GuardInv
<1> SUFFICES ASSUME RInit PROVE GuardInv
  OBVIOUS
<1>1. BookInv
  BY BookInit DEF RInit
<1>2. GuardType /\ WithinCap
  BY FreshGuardIsAGuard DEF RInit, GuardType, WithinCap
<1>3. fills = <<>> /\ dayRealised = 0 /\ pc = "down"
  BY DEF RInit, Init
<1>4. NothingYet
  BY <1>3 DEF NothingYet
<1>5. OpenLegsAreOpen
  BY <1>3 DEF OpenLegsAreOpen, OpenLegs
<1>6. OpeningLegs /\ BookLegs /\ GapIsCharges /\ TripsAreCounted
  BY <1>3 DEF OpeningLegs, BookLegs, GapIsCharges, TripsAreCounted, Filling, Known
<1> QED BY <1>1, <1>2, <1>4, <1>5, <1>6 DEF GuardInv

\* Commits outside a fill.
LEMMA QuietKeeps ==
  ASSUME GuardInv, BookInv', GuardType', WithinCap',
         UNCHANGED <<fills, positions, dayRealised, book, session>>,
         \A n \in DOMAIN intents : intents'[n] = intents[n],
         pc # "down", ~Filling, ~Filling', ~blocked' => ~blocked, Known' => guard' = guard
  PROVE  GuardInv'
<1>1. Trips' = Trips /\ OpenLegs' = OpenLegs
      /\ \A i \in DOMAIN fills : FilledContract(i)' = FilledContract(i)
  BY LegsStay DEF GuardInv, BookInv, OrderInv
<1>2. Known' => Known
  BY DEF Known
<1>3. NothingYet'
  BY DEF GuardInv, NothingYet
<1>4. OpenLegsAreOpen'
  <2>1. \A i \in OpenLegs : i \in DOMAIN fills
    BY DEF OpenLegs
  <2>2. \A i \in OpenLegs : positions[FilledContract(i)].qty # 0
    BY DEF GuardInv, OpenLegsAreOpen, IsOpenRow
  <2>3. \A i \in OpenLegs' : positions'[FilledContract(i)'].qty # 0
    BY <1>1, <2>1, <2>2
  <2> QED BY <2>3 DEF OpenLegsAreOpen, IsOpenRow
<1>5. OpeningLegs' /\ BookLegs'
  BY <1>1 DEF GuardInv, OpeningLegs, BookLegs
<1>6. Pending' = Pending /\ Unbooked' = Unbooked
  BY DEF Pending, Closing, Unbooked
<1>7. GapIsCharges'
  BY <1>2, <1>6 DEF GuardInv, GapIsCharges, Gap
<1>8. TripsAreCounted'
  BY <1>1, <1>2 DEF GuardInv, TripsAreCounted, Closing
<1> QED BY <1>3, <1>4, <1>5, <1>7, <1>8 DEF GuardInv

\* From the submission to the first fill.
LEMMA SubmissionTells ==
  ASSUME GuardInv, BookInv', RecordSubmission, Status # "REJECTED", guard' = guard
  PROVE  GuardInv'
<1>1. /\ pc = "record" /\ pc' = "apply"
      /\ UNCHANGED <<fills, positions, dayRealised, book, session, intents, order, blocked, guard>>
  BY DEF RecordSubmission
<1>2. Trips' = Trips /\ OpenLegs' = OpenLegs
      /\ \A i \in DOMAIN fills : FilledContract(i)' = FilledContract(i)
  BY <1>1, LegsStay DEF GuardInv, BookInv, OrderInv
<1>3. /\ FillsOf(Me)' = FillsOf(Me) /\ FillsOf(Me) = {} /\ order.made = 0
      /\ order.side \in {1, -1} /\ order.price \in Nat /\ order.qty \in Nat \ {0}
      /\ book.price \in Nat /\ book.charges \in Nat /\ LegCharges \in Nat
      /\ dayRealised \in Int /\ guard.realised \in Int /\ guard.count \in Nat
  <2>1. FillsOf(Me)' = FillsOf(Me)
    BY <1>1 DEF FillsOf, Me
  <2>2. FillsOf(Me) = {} /\ order.made = 0 /\ order.qty \in Nat \ {0}
    BY <1>1 DEF GuardInv, BookInv, OrderInv, OrderIsFiled, OrderIsAsked, InOrder
  <2>3. /\ order.side \in {1, -1} /\ order.price \in Nat
        /\ book.price \in Nat /\ book.charges \in Nat /\ dayRealised \in Int
    BY DEF GuardInv, BookInv, OrderInv, ProcessType, InHand, BookRow, TablesType
  <2> QED BY <2>1, <2>2, <2>3, OrderAssumption DEF GuardInv, GuardType, Guards
<1>4. ~Filling /\ Filling'
  BY <1>1 DEF Filling
<1>5. GuardType' /\ WithinCap' /\ NothingYet'
  BY <1>1 DEF GuardInv, GuardType, WithinCap, NothingYet
<1>6. OpenLegsAreOpen'
  <2>1. \A i \in OpenLegs : i \in DOMAIN fills /\ positions[FilledContract(i)].qty # 0
    BY DEF OpenLegs, GuardInv, OpenLegsAreOpen, IsOpenRow
  <2>2. \A i \in OpenLegs' : positions'[FilledContract(i)'].qty # 0
    BY <1>1, <1>2, <2>1
  <2> QED BY <2>2 DEF OpenLegsAreOpen, IsOpenRow
<1>7. OpeningLegs'
  <2> SUFFICES ASSUME ~blocked, book = NoBook PROVE OpenLegs = {}
    BY <1>1, <1>2, <1>3 DEF OpeningLegs
  <2>1. Trusted /\ HeldQty = 0 + 0
    BY <1>1, <1>4 DEF Trusted, HeldQty, NoBook
  <2>2. \A c \in Contracts : positions[c].qty = 0
    BY <2>1 DEF GuardInv, BookInv, RowsMatch
  <2> QED BY <2>2, NoLegsWhenFlat DEF GuardInv, BookInv
<1>8. BookLegs'
  BY <1>4 DEF BookLegs
<1>9. Pending = 0 /\ Pending' = 0
  <2>1. Pending' = (IF Closing' THEN order.side * 0 * (book.price - order.price) ELSE 0)
    BY <1>1, <1>3 DEF Pending
  <2>2. order.side * 0 * (book.price - order.price) = 0
    BY <1>3
  <2> QED BY <1>4, <2>1, <2>2 DEF Pending, Closing
<1>10. Unbooked = book.charges + 0 /\ Unbooked' = book.charges + 0
  <2>1. Cardinality({}) = 0 /\ LegCharges * 0 = 0
    BY <1>3, FS_EmptySet
  <2>2. Cardinality(FillsOf(Me))' = 0
    BY <1>3, <2>1
  <2> QED BY <1>1, <1>4, <2>1, <2>2 DEF Unbooked
<1>11. GapIsCharges'
  <2>1. Gap' = Gap /\ Unbooked' = Unbooked
    BY <1>1, <1>9, <1>10 DEF Gap
  <2> QED BY <1>1, <2>1 DEF GuardInv, GapIsCharges, Known
<1>12. TripsAreCounted'
  <2>1. ~Closing /\ order'.made # order'.qty
    BY <1>1, <1>3, <1>4 DEF Closing
  <2> QED BY <1>1, <1>2, <2>1 DEF GuardInv, TripsAreCounted, Known
<1> QED BY <1>5, <1>6, <1>7, <1>8, <1>11, <1>12 DEF GuardInv

\* A fill of the order in hand.
LEMMA FillLegs ==
  ASSUME BookInv, BookInv', ApplyFill, ~blocked
  PROVE  /\ book = NoBook => positions'[order.contract].qty # 0
         /\ book # NoBook => (positions'[order.contract].qty = 0 <=> order'.made = order.qty)
         /\ Realises(FillRowOf, SignedSlice, order.price)
              = (IF book = NoBook THEN 0
                 ELSE order.side * Slice * (book.price - order.price))
<1>1. pc = "apply" /\ blocked' = blocked /\ book' = book
  BY DEF ApplyFill
<1>2. OrderInv /\ RowsMatch /\ Trusted
  BY <1>1 DEF BookInv, Trusted
<1>3. /\ Slice \in Nat \ {0} /\ order.contract \in Contracts /\ order.side \in {1, -1}
      /\ order.made \in Nat /\ order.qty \in Nat \ {0} /\ Slice + order.made <= order.qty
      /\ order.price \in Nat
  BY <1>1, <1>2, SliceOfOrder
<1>4. /\ FillRowOf \in Row /\ SignedSlice \in Int /\ SignedSlice # 0
      /\ positions' = [positions EXCEPT ![order.contract] =
                         Upserted(FillRowOf, SignedSlice, order.price)]
  BY <1>2, FillUpserts
<1>5. positions'[order.contract].qty = FillRowOf.qty + order.side * Slice
  <2> DEFINE new == Upserted(FillRowOf, SignedSlice, order.price)
  <2>1. new.qty = FillRowOf.qty + SignedSlice
    BY <1>3, <1>4, UpsertedIsARow
  <2>2. positions' = [positions EXCEPT ![order.contract] = new]
    BY <1>4
  <2> HIDE DEF new
  <2>3. positions'[order.contract] = new
    BY <1>2, <1>3, <2>2 DEF OrderInv, PositionsType
  <2> QED BY <2>1, <2>3 DEF SignedSlice
<1>6. order'.made = order.made + Slice
  BY <1>2, FillAdvances
<1>7. CASE book = NoBook
  <2>1. /\ FillRowOf.qty = order.side * order.made
        /\ order.made # 0 => FillRowOf.avg = order.price
    BY <1>1, <1>2, <1>7, RowUnderFill
  <2>2. Realises(FillRowOf, SignedSlice, order.price) = 0
    <3> DEFINE row == FillRowOf
    <3>1. row \in Row /\ row.qty = order.side * order.made
          /\ (order.made # 0 => row.avg = order.price)
      BY <1>4, <2>1
    <3> HIDE DEF row
    <3>2. Realises(row, order.side * Slice, order.price) = 0
      BY <1>3, <3>1, OpeningGrows
    <3> QED BY <3>2 DEF row, SignedSlice
  <2>3. positions'[order.contract].qty # 0
    BY <1>3, <1>5, <2>1
  <2> QED BY <1>7, <2>2, <2>3
<1>8. CASE book # NoBook
  <2>1. FillRowOf.qty = -(order.side * (order.qty - order.made)) /\ FillRowOf.avg = book.price
    BY <1>1, <1>2, <1>8, RowUnderFill
  <2>2. order.qty - order.made \in Nat /\ Slice <= order.qty - order.made
    BY <1>3
  <2>3. Realises(FillRowOf, SignedSlice, order.price)
          = (-order.side) * Slice * (order.price - FillRowOf.avg)
    BY <1>3, <1>4, <2>1, <2>2, ClosingShrinks DEF SignedSlice
  <2>4. book.price \in Nat
    BY <1>2 DEF OrderInv, ProcessType, BookRow
  <2>5. (-order.side) * Slice * (order.price - book.price)
          = order.side * Slice * (book.price - order.price)
    BY <1>3, <2>4
  <2>6. positions'[order.contract].qty = 0 <=> order'.made = order.qty
    BY <1>3, <1>5, <1>6, <2>1
  <2> QED BY <1>8, <2>1, <2>3, <2>5, <2>6
<1> QED BY <1>7, <1>8

LEMMA GainsAdd ==
  ASSUME NEW side \in {1, -1}, NEW made \in Nat, NEW k \in Nat, NEW d \in Int
  PROVE  /\ side * (made + k) * d = side * made * d + side * k * d
         /\ side * made * d \in Int /\ side * k * d \in Int
<1>1. CASE side = 1
  BY <1>1
<1>2. CASE side = -1
  BY <1>2
<1> QED BY <1>1, <1>2

LEMMA FillTells ==
  ASSUME GuardInv, BookInv', ApplyFill, guard' = guard
  PROVE  GuardInv'
<1> DEFINE left == positions'[order.contract].qty
<1>1. /\ pc = "apply" /\ UNCHANGED <<book, session, intents, blocked, guard>>
      /\ OrderInv /\ OrderInv' /\ BookInv
  BY DEF ApplyFill, GuardInv, BookInv
<1>2. PICK new : new = NewFill
  OBVIOUS
<1>3. /\ Trips' = Trips \cup (IF left = 0 THEN {new} ELSE {})
      /\ \A i \in DOMAIN fills : FilledContract(i)' = FilledContract(i) /\ i \in Nat /\ i < new
      /\ FilledContract(new)' = order.contract /\ new \in Nat
      /\ DOMAIN fills' = DOMAIN fills \cup {new} /\ new \notin DOMAIN fills
  BY <1>1, <1>2, FillEndsTrip
<1>4. OpenLegs' = IF left = 0 THEN {i \in OpenLegs : FilledContract(i) # order.contract}
                  ELSE OpenLegs \cup {new}
  BY <1>1, <1>2, FillOpensLeg
<1>5. /\ Slice \in Nat \ {0} /\ order.contract \in Contracts /\ order.side \in {1, -1}
      /\ order.made \in Nat /\ order.qty \in Nat \ {0} /\ Slice + order.made <= order.qty
      /\ order.price \in Nat
  BY <1>1, SliceOfOrder
<1>6. /\ Filling /\ Filling' /\ order'.made = order.made + Slice /\ order'.qty = order.qty
      /\ order'.side = order.side /\ order'.price = order.price
      /\ pc' # "down"
  BY <1>1, FillAdvances DEF Filling
<1>7. GuardType' /\ WithinCap'
  BY <1>1 DEF GuardInv, GuardType, WithinCap
<1>8. NothingYet'
  <2>1. fills' # <<>>
    BY <1>3
  <2>2. session # 0
    BY <1>1 DEF OrderInv, StartedOnce
  <2> QED BY <1>1, <2>1, <2>2 DEF NothingYet
<1>9. positions' \in [Contracts -> Row]
      /\ \A c \in Contracts : c # order.contract => positions'[c] = positions[c]
  <2>1. positions' \in [Contracts -> Row]
        /\ positions' = [positions EXCEPT ![order.contract] =
                           Upserted(FillRowOf, SignedSlice, order.price)]
    BY <1>1, FillUpserts
  <2> QED BY <1>1, <2>1 DEF OrderInv, PositionsType
<1>10. \A i \in OpenLegs : /\ i \in DOMAIN fills /\ FilledContract(i) \in Contracts
                           /\ positions[FilledContract(i)].qty # 0
  <2>1. \A i \in DOMAIN fills : FilledContract(i) \in Contracts
    BY <1>1, FillsAreFinite DEF OrderInv, FilledContract, IntentRow
  <2> QED BY <2>1 DEF GuardInv, OpenLegs, OpenLegsAreOpen, IsOpenRow
<1>11. OpenLegsAreOpen'
  <2> SUFFICES ASSUME NEW i \in OpenLegs' PROVE positions'[FilledContract(i)'].qty # 0
    BY DEF OpenLegsAreOpen, IsOpenRow
  <2>1. CASE left = 0
    <3>1. i \in OpenLegs /\ FilledContract(i) # order.contract
      BY <1>4, <2>1
    <3> QED BY <1>3, <1>9, <1>10, <3>1
  <2>2. CASE left # 0
    <3>1. CASE i = new
      BY <1>3, <2>2, <3>1
    <3>2. CASE i # new
      <4>1. i \in OpenLegs
        BY <1>4, <2>2, <3>2
      <4> QED BY <1>3, <1>9, <1>10, <2>2, <4>1
    <3> QED BY <3>1, <3>2
  <2> QED BY <2>1, <2>2
<1>12. PICK m : m = Me /\ m = Me'
  BY <1>1 DEF Me
<1>13. /\ FillsOf(m)' = FillsOf(m) \cup {new} /\ FillsOf(Me)' = FillsOf(m)'
       /\ new \notin FillsOf(m)
  <2>1. \A k : FillsOf(k)' = FillsOf(k) \cup (IF k = Me THEN {NewFill} ELSE {})
    BY <1>1, FillIsCounted
  <2>2. FillsOf(m)' = FillsOf(m) \cup {new}
    BY <1>2, <1>12, <2>1
  <2>3. FillsOf(Me)' = FillsOf(m)'
    BY <1>12 DEF FillsOf
  <2> QED BY <1>3, <2>2, <2>3 DEF FillsOf
<1>14. Cardinality(FillsOf(Me))' = Cardinality(FillsOf(Me)) + 1
       /\ Cardinality(FillsOf(Me)) \in Nat /\ LegCharges \in Nat
  <2>1. /\ IsFiniteSet(FillsOf(Me)) /\ Cardinality(FillsOf(Me)) \in Nat /\ LegCharges \in Nat
    BY <1>1, LegsOfOrderAreNat
  <2>2. Cardinality(FillsOf(m) \cup {new}) = Cardinality(FillsOf(m)) + 1
    BY <1>12, <1>13, <2>1, FS_AddElement
  <2> QED BY <1>12, <1>13, <2>1, <2>2
<1>15. Len(fills') = Len(fills) + 1 /\ Len(fills) \in Nat
  BY <1>1, FillIsAppended, FillsAreFinite DEF OrderInv, NewFill
<1>16. OpeningLegs'
  <2> SUFFICES ASSUME ~blocked, book = NoBook PROVE OpenLegs' = FillsOf(Me)'
    BY <1>1 DEF OpeningLegs
  <2>1. left # 0
    BY <1>1, FillLegs
  <2>2. OpenLegs = FillsOf(Me)
    BY <1>6 DEF GuardInv, OpeningLegs
  <2> QED BY <1>4, <1>12, <1>13, <2>1, <2>2
<1>17. BookLegs'
  BY <1>6 DEF BookLegs
<1>18. GapIsCharges'
  <2> SUFFICES ASSUME Known
               PROVE  /\ Gap' = Gap
                      /\ Unbooked' = Unbooked + LegCharges
                      /\ LegCharges * Len(fills') = LegCharges * Len(fills) + LegCharges
                      /\ Gap \in Int /\ Unbooked \in Int /\ LegCharges * Len(fills) \in Int
                      /\ LegCharges \in Int
    BY <1>1, <1>6 DEF GuardInv, GapIsCharges, Known
  <2>1. book.charges \in Nat /\ book.price \in Nat /\ dayRealised \in Int /\ guard.realised \in Int
    BY <1>1 DEF GuardInv, GuardType, Guards, OrderInv, ProcessType, BookRow, TablesType
  <2>2. Unbooked' = Unbooked + LegCharges /\ Unbooked \in Int
    <3> DEFINE k == Cardinality(FillsOf(Me))
               l == Cardinality(FillsOf(Me))'
    <3>1. Unbooked = book.charges + LegCharges * k /\ Unbooked' = book.charges + LegCharges * l
      BY <1>1, <1>6 DEF Unbooked
    <3>2. k \in Nat /\ l = k + 1
      BY <1>14
    <3> HIDE DEF k, l
    <3>3. LegCharges * l = LegCharges * k + LegCharges /\ LegCharges * k \in Nat
      BY <1>14, <3>2
    <3> QED BY <1>14, <2>1, <3>1, <3>3
  <2>3. /\ LegCharges * Len(fills') = LegCharges * Len(fills) + LegCharges
        /\ LegCharges * Len(fills) \in Int
    BY <1>14, <1>15
  <2> DEFINE gain == Realises(FillRowOf, SignedSlice, order.price)
  <2>4. /\ dayRealised' = dayRealised + gain
        /\ gain = (IF book = NoBook THEN 0 ELSE order.side * Slice * (book.price - order.price))
    BY <1>1, FillLegs, FillUpserts DEF Known
  <2> HIDE DEF gain
  <2>5. /\ gain \in Int /\ Pending \in Int /\ Pending' = Pending + gain
    <3>1. CASE book = NoBook
      BY <1>1, <2>4, <3>1 DEF Pending, Closing
    <3>2. CASE book # NoBook
      <4>1. Pending = order.side * order.made * (book.price - order.price)
        BY <1>6, <3>2 DEF Pending, Closing
      <4>2. Pending' = order.side * (order.made + Slice) * (book.price - order.price)
        BY <1>1, <1>6, <3>2 DEF Pending, Closing
      <4>3. gain = order.side * Slice * (book.price - order.price)
        BY <2>4, <3>2
      <4>4. /\ order.side * (order.made + Slice) * (book.price - order.price)
                 = order.side * order.made * (book.price - order.price)
                     + order.side * Slice * (book.price - order.price)
            /\ order.side * order.made * (book.price - order.price) \in Int
            /\ order.side * Slice * (book.price - order.price) \in Int
        <5> DEFINE d == book.price - order.price
        <5>1. d \in Int
          BY <1>5, <2>1
        <5> HIDE DEF d
        <5>2. /\ order.side * (order.made + Slice) * d
                   = order.side * order.made * d + order.side * Slice * d
              /\ order.side * order.made * d \in Int /\ order.side * Slice * d \in Int
          BY <1>5, <5>1, GainsAdd
        <5> QED BY <5>2 DEF d
      <4> QED BY <4>1, <4>2, <4>3, <4>4
    <3> QED BY <3>1, <3>2
  <2>6. Gap' = Gap /\ Gap \in Int
    <3>1. Gap = dayRealised - Pending - guard.realised
          /\ Gap' = dayRealised' - Pending' - guard.realised
      BY <1>1 DEF Gap
    <3> QED BY <2>1, <2>4, <2>5, <3>1
  <2> QED BY <1>14, <2>2, <2>3, <2>6
<1>19. TripsAreCounted'
  <2> SUFFICES ASSUME Known, session = 1
               PROVE  guard.count + (IF book # NoBook /\ order'.made = order.qty THEN 1 ELSE 0)
                        = Cardinality(Trips')
    BY <1>1, <1>6 DEF TripsAreCounted, Known, Closing
  <2>1. order.made # order.qty /\ guard.count \in Nat
    BY <1>5 DEF GuardInv, GuardType, Guards
  <2>2. guard.count + 0 = Cardinality(Trips)
    BY <2>1 DEF GuardInv, TripsAreCounted, Closing
  <2>3. (book # NoBook /\ order'.made = order.qty) <=> left = 0
    BY <1>1, FillLegs DEF Known
  <2>4. IsFiniteSet(Trips) /\ new \notin Trips
    BY <1>1, <1>3, LegsAreFills DEF OrderInv
  <2>5. CASE left = 0
    <3>1. Cardinality(Trips') = Cardinality(Trips) + 1
      BY <1>3, <2>4, <2>5, FS_AddElement
    <3> QED BY <2>1, <2>2, <2>3, <2>5, <3>1
  <2>6. CASE left # 0
    <3>1. Trips' = Trips
      BY <1>3, <2>6
    <3> QED BY <2>1, <2>2, <2>3, <2>6, <3>1
  <2> QED BY <2>5, <2>6
<1> QED BY <1>1, <1>7, <1>8, <1>11, <1>16, <1>17, <1>18, <1>19 DEF GuardInv

LEMMA GainTurns ==
  ASSUME NEW q \in Int, NEW p \in Nat, NEW r \in Nat, NEW b \in Int, b = -q
  PROVE  b * (r - p) = q * (p - r)
OBVIOUS

LEMMA OutcomeTells ==
  ASSUME GuardInv, BookInv', ROutcome
  PROVE  GuardInv'
<1>1. /\ Outcome /\ pc = "outcome" /\ pc' = "idle"
      /\ UNCHANGED <<fills, positions, dayRealised, session, intents>>
      /\ OrderInv /\ RowsMatch /\ BookInv
  BY DEF ROutcome, Outcome, Raise, db, GuardInv, BookInv
<1>2. guard' = IF book # NoBook /\ OutcomeAccepted(Status) THEN BookTrade ELSE guard
  BY DEF ROutcome
<1>3. Trips' = Trips /\ OpenLegs' = OpenLegs
      /\ \A i \in DOMAIN fills : FilledContract(i)' = FilledContract(i)
  BY <1>1, LegsStay DEF OrderInv
<1>4. /\ order.left = <<>> /\ order.made \in Nat \ {0} /\ order.qty \in Nat \ {0}
      /\ order.side \in {1, -1} /\ order.price \in Nat /\ order.contract \in Contracts
      /\ order.left \in Seq(Nat) /\ SumFunction(order.left) + order.made <= order.qty
      /\ book.price \in Nat /\ book.charges \in Nat /\ book.qty \in Int
      /\ dayRealised \in Int /\ LegCharges \in Nat
  BY <1>1, OrderAssumption
     DEF OrderInv, OrderIsFiled, OrderIsAsked, InOrder, ProcessType, InHand, BookRow, TablesType
<1>5. SumFunction(order.left) = 0
  BY <1>4, SumOfSequence
<1>6. OutcomeAccepted(Status) => order.made = order.qty
  BY <1>4, <1>5 DEF OutcomeAccepted, Status
<1>7. Filling /\ ~Filling' /\ InOrder
  BY <1>1 DEF Filling, InOrder
<1>8. GuardType /\ WithinCap /\ guard.realised \in Int /\ guard.count \in Nat
  BY DEF GuardInv, GuardType, Guards
<1>9. NothingYet'
  BY <1>1 DEF GuardInv, NothingYet
<1>10. OpenLegsAreOpen'
  <2>1. \A i \in OpenLegs : i \in DOMAIN fills /\ positions[FilledContract(i)].qty # 0
    BY DEF OpenLegs, GuardInv, OpenLegsAreOpen, IsOpenRow
  <2>2. \A i \in OpenLegs' : positions'[FilledContract(i)'].qty # 0
    BY <1>1, <1>3, <2>1
  <2> QED BY <2>2 DEF OpenLegsAreOpen, IsOpenRow
<1>11. OpeningLegs'
  BY <1>7 DEF OpeningLegs
<1>12. /\ Cardinality(FillsOf(Me)) \in Nat /\ Unbooked \in Nat /\ OrderCharges \in Nat
       /\ Unbooked = book.charges + OrderCharges
       /\ OrderCharges = LegCharges * Cardinality(FillsOf(Me))
  <2>1. /\ Cardinality(FillsOf(Me)) \in Nat /\ LegCharges * Cardinality(FillsOf(Me)) \in Nat
    BY <1>1, LegsOfOrderAreNat
  <2>2. OrderCharges = LegCharges * Cardinality(FillsOf(Me))
    BY DEF OrderCharges, LegsOf, Me
  <2>3. Unbooked = book.charges + OrderCharges
    BY <1>7, <2>2 DEF Unbooked
  <2> QED BY <1>4, <2>1, <2>2, <2>3
<1>13. Pending' = 0 /\ Unbooked' = book'.charges + 0 /\ ~Closing'
  BY <1>7 DEF Pending, Unbooked, Closing
<1>14. CASE ~OutcomeAccepted(Status)
  <2>1. blocked' = TRUE /\ guard' = guard
    BY <1>1, <1>2, <1>14 DEF Outcome, Raise
  <2>2. BookLegs' /\ GapIsCharges' /\ TripsAreCounted'
    BY <2>1 DEF BookLegs, GapIsCharges, TripsAreCounted, Known
  <2>3. GuardType' /\ WithinCap'
    BY <1>8, <2>1 DEF GuardType, WithinCap
  <2> QED BY <1>9, <1>10, <1>11, <2>2, <2>3 DEF GuardInv
<1>15. CASE OutcomeAccepted(Status) /\ book = NoBook
  <2>1. /\ guard' = guard /\ blocked' = blocked
        /\ book' = [contract |-> order.contract, qty |-> order.side * order.qty,
                    price |-> order.price, charges |-> OrderCharges]
    BY <1>1, <1>2, <1>15 DEF Outcome
  <2>2. GuardType' /\ WithinCap'
    BY <1>8, <2>1 DEF GuardType, WithinCap
  <2>3. book.charges = 0 /\ ~Closing /\ Pending = 0
    BY <1>15 DEF NoBook, Closing, Pending
  <2>4. Unbooked' = Unbooked /\ Gap' = Gap
    BY <1>1, <1>12, <1>13, <2>1, <2>3 DEF Gap
  <2>5. GapIsCharges' /\ TripsAreCounted'
    <3>1. GapIsCharges'
      BY <1>1, <2>1, <2>4 DEF GuardInv, GapIsCharges, Known
    <3>2. TripsAreCounted'
      BY <1>1, <1>3, <1>13, <2>1, <2>3 DEF GuardInv, TripsAreCounted, Known
    <3> QED BY <3>1, <3>2
  <2>6. BookLegs'
    <3> SUFFICES ASSUME ~blocked PROVE LegCharges * Cardinality(OpenLegs) = book'.charges
      BY <1>3, <1>4, <1>12, <2>1 DEF BookLegs
    <3>1. OpenLegs = FillsOf(Me)
      BY <1>7, <1>15 DEF GuardInv, OpeningLegs
    <3> QED BY <1>12, <2>1, <3>1
  <2> QED BY <1>9, <1>10, <1>11, <2>2, <2>5, <2>6 DEF GuardInv
<1>16. CASE OutcomeAccepted(Status) /\ book # NoBook
  <2>1. guard' = BookTrade /\ blocked' = blocked /\ book' = NoBook
    BY <1>1, <1>2, <1>16 DEF Outcome
  <2>2. Net \in Int /\ Net = Gross - book.charges - OrderCharges /\ Gross \in Int
    <3>1. Gross \in Int
      BY <1>4 DEF Gross
    <3> QED BY <1>4, <1>12, <3>1 DEF Net
  <2>3. guard' = Booked(guard, guard.realised + Net, guard.count + 1)
    BY <2>1 DEF BookTrade, RegisterTrade
  <2>4. guard.realised + Net \in Int /\ guard.count + 1 \in Nat
    BY <1>8, <2>2
  <2>5. /\ GuardType' /\ WithinCap'
        /\ ~guard'.halted => /\ ~guard.halted /\ guard'.realised = guard.realised + Net
                             /\ guard'.count = guard.count + 1
    BY <1>8, <2>3, <2>4, BookedIsAGuard DEF GuardType, WithinCap
  <2>6. /\ order.qty = Abs(book.qty) /\ order.side = (IF book.qty > 0 THEN -1 ELSE 1)
    BY <1>1, <1>7, <1>16 DEF OrderInv, OrderIsAsked
  <2>7. Closing /\ Pending = Gross
    <3>1. book.qty = -(order.side * order.qty)
      BY <1>4, <2>6 DEF Abs
    <3>2. Pending = order.side * order.qty * (book.price - order.price) /\ Closing
      BY <1>6, <1>7, <1>16 DEF Pending, Closing
    <3>3. book.qty * (order.price - book.price)
            = (order.side * order.qty) * (book.price - order.price)
      <4> DEFINE q == order.side * order.qty
      <4>1. q \in Int /\ book.qty = -q
        BY <1>4, <3>1
      <4> HIDE DEF q
      <4>2. book.qty * (order.price - book.price) = q * (book.price - order.price)
        BY <1>4, <4>1, GainTurns
      <4> QED BY <4>2 DEF q
    <3> QED BY <3>2, <3>3 DEF Gross
  <2>8. Unbooked' = 0
    BY <1>13, <2>1 DEF NoBook
  <2>9. BookLegs'
    BY <2>1 DEF BookLegs
  <2>10. GapIsCharges'
    <3> SUFFICES ASSUME Known'
                 PROVE  /\ Known /\ Gap' = Gap + Unbooked /\ Unbooked' = 0
                        /\ Gap \in Int /\ Unbooked \in Nat
      BY <1>1 DEF GuardInv, GapIsCharges
    <3>1. Known /\ guard'.realised = guard.realised + Net
      BY <1>1, <2>1, <2>5 DEF Known
    <3>2. Gap = dayRealised - Gross - guard.realised
          /\ Gap' = dayRealised - 0 - guard'.realised
      BY <1>1, <1>13, <2>7 DEF Gap
    <3>3. Gap \in Int /\ Gap' = Gap + Unbooked
      <4>1. /\ dayRealised \in Int /\ Gross \in Int /\ guard.realised \in Int
            /\ book.charges \in Nat /\ OrderCharges \in Nat
            /\ Net = Gross - book.charges - OrderCharges /\ Unbooked = book.charges + OrderCharges
        BY <1>4, <1>8, <1>12, <2>2
      <4>2. guard'.realised = guard.realised + Net
        BY <3>1
      <4>3. Gap \in Int
        BY <3>2, <4>1
      <4>4. Gap' = dayRealised - (guard.realised + Net)
        BY <3>2, <4>1, <4>2
      <4> QED BY <3>2, <4>1, <4>3, <4>4
    <3> QED BY <1>12, <2>8, <3>1, <3>3
  <2>11. TripsAreCounted'
    <3> SUFFICES ASSUME Known', session = 1 PROVE guard'.count + 0 = Cardinality(Trips)
      BY <1>1, <1>3, <1>13 DEF TripsAreCounted
    <3>1. Known /\ guard'.count = guard.count + 1
      BY <1>1, <2>1, <2>5 DEF Known
    <3>2. guard.count + 1 = Cardinality(Trips)
      BY <1>6, <1>16, <2>7, <3>1 DEF GuardInv, TripsAreCounted
    <3> QED BY <1>8, <3>1, <3>2
  <2> QED BY <1>9, <1>10, <1>11, <2>5, <2>9, <2>10, <2>11 DEF GuardInv
<1> QED BY <1>14, <1>15, <1>16

LEMMA TimesIsMonotone ==
  ASSUME NEW a \in Nat, NEW b \in Nat, NEW c \in Nat, b <= c PROVE a * b <= a * c
<1>1. PICK d \in Nat : c = b + d
  <2>1. c - b \in Nat /\ c = b + (c - b)
    OBVIOUS
  <2> QED BY <2>1
<1>2. a * c = a * b + a * d /\ a * d \in Nat /\ a * b \in Nat
  BY <1>1
<1> QED BY <1>2

LEMMA StartTells ==
  ASSUME GuardInv, BookInv', RStart
  PROVE  GuardInv'
<1>1. /\ StartProcess /\ pc = "down" /\ pc' = "idle" /\ session' = session + 1
      /\ UNCHANGED <<fills, positions, dayRealised, intents>>
      /\ guard' = Recovered(FreshGuard) /\ OrderInv /\ OrderInv' /\ BookInv
  BY DEF RStart, StartProcess, db, GuardInv, BookInv
<1>2. Trips' = Trips /\ OpenLegs' = OpenLegs
      /\ \A i \in DOMAIN fills : FilledContract(i)' = FilledContract(i)
  BY <1>1, LegsStay DEF OrderInv
<1>3. book = NoBook /\ ~blocked
  BY <1>1 DEF OrderInv, ProcessType, BlockedType
<1>4. /\ ~Filling' /\ Pending' = 0 /\ Unbooked' = book'.charges + 0 /\ ~Closing'
      /\ book'.charges \in Nat /\ dayRealised \in Int /\ session \in Nat /\ LegCharges \in Nat
      /\ Len(fills) \in Nat
  BY <1>1, FillsAreFinite, OrderAssumption
     DEF Filling, Pending, Unbooked, Closing, OrderInv, ProcessType, BookRow, TablesType
<1>5. NothingYet'
  BY <1>1, <1>4 DEF GuardInv, NothingYet
<1>6. OpenLegsAreOpen'
  <2>1. \A i \in OpenLegs : i \in DOMAIN fills /\ positions[FilledContract(i)].qty # 0
    BY DEF OpenLegs, GuardInv, OpenLegsAreOpen, IsOpenRow
  <2>2. \A i \in OpenLegs' : positions'[FilledContract(i)'].qty # 0
    BY <1>1, <1>2, <2>1
  <2> QED BY <2>2 DEF OpenLegsAreOpen, IsOpenRow
<1>7. OpeningLegs'
  BY <1>4 DEF OpeningLegs
<1>8. /\ GuardType' /\ WithinCap'
      /\ ~guard'.halted => guard'.realised = dayRealised /\ (fills = <<>> => guard'.count = 0)
  <2>1. CASE fills = <<>>
    <3>1. guard' = FreshGuard /\ dayRealised = 0
      BY <1>1, <2>1 DEF Recovered, GuardInv, NothingYet
    <3> QED BY <3>1, FreshGuardIsAGuard DEF GuardType, WithinCap
  <2>2. CASE fills # <<>>
    <3>1. guard' = Booked(FreshGuard, dayRealised, ClosedCount)
      BY <1>1, <2>2 DEF Recovered, Restored
    <3>2. ClosedCount \in Nat
      <4>1. IsFiniteSet({c \in Contracts : positions[c].known /\ ~IsOpenRow(c)})
        BY OrderAssumption, FS_Subset
      <4> QED BY <4>1, FS_CardinalityType DEF ClosedCount
    <3>3. /\ guard' \in Guards /\ Capped(guard')
          /\ ~guard'.halted => guard'.realised = dayRealised
      BY <1>4, <3>1, <3>2, BookedIsAGuard, FreshGuardIsAGuard
    <3> QED BY <2>2, <3>1, <3>3 DEF GuardType, WithinCap
  <2> QED BY <2>1, <2>2
<1>9. Gap' = dayRealised - 0 - guard'.realised
  BY <1>1, <1>4 DEF Gap
<1>10. CASE blocked'
  BY <1>5, <1>6, <1>7, <1>8, <1>10 DEF GuardInv, BookLegs, GapIsCharges, TripsAreCounted, Known
<1>11. CASE ~blocked'
  <2>1. fills = <<>> => book' = NoBook
    <3>1. ASSUME fills = <<>>, NEW c \in Contracts PROVE positions[c].qty = 0
      <4>1. FillsOn(c) = {}
        BY <3>1 DEF FillsOn
      <4>2. SumFunctionOnSet(Signed, {}) = 0
        BY SumUnfolds, FS_EmptySet
      <4> QED BY <1>1, <4>1, <4>2 DEF OrderInv, TablesAgree, RowsAreSums
    <3>2. fills = <<>> => OpenPositions = {}
      BY <3>1 DEF OpenPositions, IsOpenRow
    <3> QED BY <1>1, <1>3, <3>2 DEF StartProcess
  <2>2. session' = 1 => fills = <<>>
    BY <1>1, <1>4 DEF GuardInv, NothingYet
  <2>3. book' # NoBook => /\ LegCharges * Cardinality(OpenLegs) <= book'.charges
                          /\ book'.charges <= LegCharges * Len(fills)
    <3> SUFFICES ASSUME book' # NoBook
                 PROVE  /\ LegCharges * Cardinality(OpenLegs) <= book'.charges
                        /\ book'.charges <= LegCharges * Len(fills)
      OBVIOUS
    <3>1. PICK c \in Contracts : OpenPositions = {c} /\ book' = Adopted(c)
      BY <1>1, <1>3 DEF StartProcess
    <3>2. book'.charges = LegCharges * Cardinality(FillsOn(c))
      BY <1>1, <3>1 DEF Adopted, OrderInv, TablesAgree, ChargesAreSums
    <3>3. OpenLegs \subseteq FillsOn(c)
      <4>1. ASSUME NEW i \in OpenLegs PROVE i \in FillsOn(c)
        <5>1. i \in DOMAIN fills /\ positions[FilledContract(i)].qty # 0
          BY DEF OpenLegs, GuardInv, OpenLegsAreOpen, IsOpenRow
        <5>2. FilledContract(i) \in Contracts
          BY <1>1, <5>1, FillsAreFinite DEF OrderInv, FilledContract, IntentRow
        <5>3. FilledContract(i) = c
          BY <3>1, <5>1, <5>2 DEF OpenPositions, IsOpenRow
        <5> QED BY <5>1, <5>3 DEF FillsOn
      <4> QED BY <4>1
    <3>4. IsFiniteSet(FillsOn(c)) /\ FillsOn(c) \subseteq 1..Len(fills) /\ IsFiniteSet(1..Len(fills))
      BY <1>1, SubsetsOfFills, FillsAreFinite DEF OrderInv
    <3>5. Cardinality(1..Len(fills)) = Len(fills)
      <4>0. Len(fills) \in Nat
        BY <1>4
      <4>1. Cardinality(1..Len(fills)) = IF 1 > Len(fills) THEN 0 ELSE Len(fills) - 1 + 1
        BY <4>0, FS_Interval
      <4> QED BY <1>4, <4>1
    <3>6. /\ Cardinality(OpenLegs) <= Cardinality(FillsOn(c))
          /\ Cardinality(FillsOn(c)) <= Len(fills)
          /\ Cardinality(OpenLegs) \in Nat /\ Cardinality(FillsOn(c)) \in Nat
      BY <3>3, <3>4, <3>5, FS_Subset, FS_CardinalityType
    <3> QED BY <1>4, <3>2, <3>6, TimesIsMonotone
  <2>4. BookLegs'
    BY <1>1, <1>2, <2>1, <2>2, <2>3 DEF BookLegs
  <2>5. GapIsCharges'
    <3> SUFFICES ASSUME ~guard'.halted
                 PROVE  /\ 0 <= Gap'
                        /\ Gap' + Unbooked' <= LegCharges * Len(fills)
                        /\ session' = 1 => Gap' + Unbooked' = LegCharges * Len(fills)
      BY <1>1 DEF GapIsCharges, Known
    <3>1. Gap' = 0
      BY <1>4, <1>8, <1>9
    <3>2. Unbooked' <= LegCharges * Len(fills) /\ LegCharges * Len(fills) \in Nat
      <4>1. CASE book' = NoBook
        <5>1. book'.charges = 0
          BY <4>1 DEF NoBook
        <5> QED BY <1>4, <5>1
      <4>2. CASE book' # NoBook
        BY <1>4, <2>3, <4>2
      <4> QED BY <4>1, <4>2
    <3>3. session' = 1 => Unbooked' = 0 /\ LegCharges * Len(fills) = 0
      <4>1. NoBook.charges = 0 /\ (fills = <<>> => Len(fills) = 0)
        BY DEF NoBook
      <4> QED BY <1>4, <2>1, <2>2, <4>1
    <3> QED BY <1>4, <3>1, <3>2, <3>3
  <2>6. TripsAreCounted'
    <3> SUFFICES ASSUME ~guard'.halted, session' = 1 PROVE guard'.count + 0 = Cardinality(Trips)
      BY <1>1, <1>2, <1>4 DEF TripsAreCounted, Known
    <3>1. fills = <<>> /\ guard'.count = 0
      BY <1>8, <2>2
    <3>2. Trips = {}
      BY <3>1 DEF Trips
    <3> QED BY <3>1, <3>2, FS_EmptySet
  <2> QED BY <1>5, <1>6, <1>7, <1>8, <2>4, <2>5, <2>6 DEF GuardInv
<1> QED BY <1>1, <1>10, <1>11 DEF OrderInv, BlockedType

LEMMA CrashTells ==
  ASSUME GuardInv, BookInv', RCrash
  PROVE  GuardInv'
<1>1. /\ pc' = "down" /\ guard' = FreshGuard /\ OrderInv
      /\ UNCHANGED <<fills, positions, dayRealised, intents, session>>
  BY DEF RCrash, Crash, db, GuardInv, BookInv
<1>2. OpenLegs' = OpenLegs /\ \A i \in DOMAIN fills : FilledContract(i)' = FilledContract(i)
  BY <1>1, LegsStay DEF OrderInv
<1>3. GuardType' /\ WithinCap'
  BY <1>1, FreshGuardIsAGuard DEF GuardType, WithinCap
<1>4. NothingYet'
  BY <1>1 DEF GuardInv, NothingYet
<1>5. OpenLegsAreOpen'
  <2>1. \A i \in OpenLegs : i \in DOMAIN fills /\ positions[FilledContract(i)].qty # 0
    BY DEF OpenLegs, GuardInv, OpenLegsAreOpen, IsOpenRow
  <2>2. \A i \in OpenLegs' : positions'[FilledContract(i)'].qty # 0
    BY <1>1, <1>2, <2>1
  <2> QED BY <2>2 DEF OpenLegsAreOpen, IsOpenRow
<1>6. OpeningLegs' /\ BookLegs' /\ GapIsCharges' /\ TripsAreCounted'
  BY <1>1 DEF OpeningLegs, BookLegs, GapIsCharges, TripsAreCounted, Filling, Known
<1> QED BY <1>3, <1>4, <1>5, <1>6 DEF GuardInv

LEMMA GuardStep == GuardInv /\ [RNext]_<<vars, risk>> => GuardInv'
<1> SUFFICES ASSUME GuardInv, [RNext]_<<vars, risk>> PROVE GuardInv'
  OBVIOUS
<1>0. BookInv /\ BookInv' /\ OrderInv /\ GuardType /\ WithinCap
  BY GuardedStepIsAStep, BookStep DEF GuardInv, BookInv
<1>1. ASSUME guard' = guard PROVE GuardType' /\ WithinCap'
  BY <1>0, <1>1 DEF GuardType, WithinCap
<1>2. CASE UNCHANGED <<vars, risk>>
  <2>1. UNCHANGED <<fills, positions, dayRealised, book, session, intents, pc, blocked, guard, order>>
    BY <1>2 DEF vars, db, memory, risk
  <2>2. Trips' = Trips /\ OpenLegs' = OpenLegs
        /\ \A i \in DOMAIN fills : FilledContract(i)' = FilledContract(i)
    BY <1>0, <2>1, LegsStay DEF OrderInv
  <2>3. FillsOf(Me)' = FillsOf(Me)
    BY <2>1 DEF FillsOf, Me
  <2>4. NothingYet' /\ OpeningLegs' /\ BookLegs'
    BY <2>1, <2>2, <2>3 DEF GuardInv, NothingYet, OpeningLegs, BookLegs, Filling
  <2>5. OpenLegsAreOpen'
    <3>1. \A i \in OpenLegs : i \in DOMAIN fills /\ positions[FilledContract(i)].qty # 0
      BY DEF OpenLegs, GuardInv, OpenLegsAreOpen, IsOpenRow
    <3>2. \A i \in OpenLegs' : positions'[FilledContract(i)'].qty # 0
      BY <2>1, <2>2, <3>1
    <3> QED BY <3>2 DEF OpenLegsAreOpen, IsOpenRow
  <2>6. Gap' = Gap /\ Unbooked' = Unbooked /\ (Closing' <=> Closing)
    BY <2>1, <2>3 DEF Gap, Pending, Unbooked, Closing, Filling
  <2>7. GapIsCharges' /\ TripsAreCounted'
    BY <2>1, <2>2, <2>6 DEF GuardInv, GapIsCharges, TripsAreCounted, Known
  <2> QED BY <1>0, <1>1, <2>1, <2>4, <2>5, <2>7 DEF GuardInv
<1>3. CASE RStart
  BY <1>0, <1>3, StartTells
<1>4. CASE RCrash
  BY <1>0, <1>4, CrashTells
<1>5. CASE RSignal
  <2>1. /\ UNCHANGED <<fills, positions, dayRealised, book, session, intents, guard>>
        /\ pc = "idle" /\ pc' \in {"idle", "intent"} /\ (~blocked' => ~blocked)
    BY <1>5 DEF RSignal, RecordSignal, Raise, risk
  <2> QED BY <1>0, <1>1, <2>1, QuietKeeps DEF Filling
<1>6. CASE RCommit
  <2>0. guard' = guard
    BY <1>6 DEF RCommit, risk
  <2>1. CASE ReserveIntent
    <3>1. /\ UNCHANGED <<fills, positions, dayRealised, book, session, blocked>>
          /\ pc = "intent" /\ pc' = "submit"
      BY <2>1 DEF ReserveIntent, memory
    <3>2. \A n \in DOMAIN intents : intents'[n] = intents[n]
      BY <1>0, <2>1, SumsStayOnReserve DEF OrderInv
    <3> QED BY <1>0, <1>1, <2>0, <3>1, <3>2, QuietKeeps DEF Filling
  <2>2. CASE Submit
    <3>1. /\ UNCHANGED <<fills, positions, dayRealised, book, session, blocked, intents>>
          /\ pc = "submit" /\ pc' = "record"
      BY <2>2 DEF Submit, db
    <3> QED BY <1>0, <1>1, <2>0, <3>1, QuietKeeps DEF Filling
  <2>3. CASE RecordSubmission /\ Status = "REJECTED"
    <3>1. /\ UNCHANGED <<fills, positions, dayRealised, book, session, intents>>
          /\ pc = "record" /\ pc' = "idle" /\ blocked'
      BY <2>3 DEF RecordSubmission, Raise
    <3> QED BY <1>0, <1>1, <2>0, <3>1, QuietKeeps DEF Filling
  <2>4. CASE RecordSubmission /\ Status # "REJECTED"
    BY <1>0, <2>0, <2>4, SubmissionTells
  <2>5. CASE ApplyFill
    BY <1>0, <2>0, <2>5, FillTells
  <2> QED BY <1>6, <2>1, <2>2, <2>3, <2>4, <2>5 DEF RCommit
<1>7. CASE ROutcome
  BY <1>0, <1>7, OutcomeTells
<1>8. CASE MarkToMarket
  <2>1. /\ UNCHANGED <<fills, positions, dayRealised, book, session, intents, pc, blocked>>
        /\ pc = "idle" /\ guard' # guard
    BY <1>8 DEF MarkToMarket, vars, db, memory
  <2>2. PICK mark \in Marks : guard' = CheckOpenMtm(guard, book.qty * (mark - book.price))
    BY <1>8 DEF MarkToMarket
  <2> DEFINE tripped == guard.realised + book.qty * (mark - book.price) <= -MaxLoss
  <2>3. ~guard.halted /\ guard' = [guard EXCEPT !.halted = tripped]
    BY <2>1, <2>2 DEF CheckOpenMtm
  <2>4. tripped \in BOOLEAN
    OBVIOUS
  <2> HIDE DEF tripped
  <2>5. guard' \in Guards /\ guard'.halted = tripped
    BY <1>0, <2>3, <2>4 DEF GuardType, Guards
  <2>6. guard'.halted
    <3>1. CASE tripped
      BY <2>5, <3>1
    <3>2. CASE ~tripped
      <4>1. guard.halted = tripped
        BY <1>0, <2>3, <2>4, <3>2 DEF GuardType, Guards
      <4>2. guard' = guard
        BY <1>0, <2>3, <4>1 DEF GuardType, Guards
      <4> QED BY <2>1, <4>2
    <3> QED BY <3>1, <3>2
  <2>7. GuardType' /\ WithinCap' /\ ~Known'
    BY <2>5, <2>6 DEF GuardType, WithinCap, Capped, Known
  <2> QED BY <1>0, <2>1, <2>7, QuietKeeps DEF Filling
<1> QED BY <1>2, <1>3, <1>4, <1>5, <1>6, <1>7, <1>8 DEF RNext

LEMMA GuardInvHolds == RSpec => []GuardInv
BY GuardInit, GuardStep, PTL DEF RSpec

LEMMA GuardInvIsSound == GuardInv => GuardIsSound
<1> SUFFICES ASSUME GuardInv, Trading PROVE GuardIsSound
  BY DEF GuardIsSound, GuardKnowsTheDay, LossCapSurvivesRestarts
<1>1. /\ Known /\ ~Filling /\ pc = "idle" /\ ~blocked /\ OrderInv /\ BookInv
  BY DEF Trading, Known, Filling, GuardInv, BookInv
<1>2. /\ Gap = dayRealised - 0 - guard.realised /\ Unbooked = book.charges + 0 /\ ~Closing
      /\ dayRealised \in Int /\ guard.realised \in Int /\ guard.count \in Nat
      /\ book.charges \in Nat /\ LegCharges \in Nat /\ MaxLoss \in Nat
  BY <1>1, OrderAssumption, GuardAssumption
     DEF Gap, Pending, Unbooked, Closing, GuardInv, GuardType, Guards, OrderInv, TablesType,
         ProcessType, BookRow
<1>3. /\ Len(fills) \in Nat /\ Cardinality(OpenLegs) \in Nat
      /\ Cardinality(OpenLegs) <= Len(fills)
  BY <1>1, LegsAreFills DEF OrderInv
<1>4. /\ LegCharges * Cardinality(OpenLegs) <= book.charges
      /\ session = 1 => LegCharges * Cardinality(OpenLegs) = book.charges
  <2>1. CASE book = NoBook
    <3>1. Trusted /\ HeldQty = 0 + 0
      BY <1>1, <2>1 DEF Trusted, HeldQty, NoBook
    <3>2. \A c \in Contracts : positions[c].qty = 0
      BY <3>1 DEF GuardInv, BookInv, RowsMatch
    <3>3. Cardinality(OpenLegs) = 0
      BY <1>1, <3>2, NoLegsWhenFlat DEF GuardInv
    <3>4. LegCharges * 0 = 0
      BY <1>2
    <3> QED BY <2>1, <3>3, <3>4 DEF NoBook
  <2>2. CASE book # NoBook
    BY <1>1, <2>2 DEF GuardInv, BookLegs
  <2> QED BY <2>1, <2>2
<1>5. /\ 0 <= Gap /\ Gap + Unbooked <= LegCharges * Len(fills)
      /\ session = 1 => Gap + Unbooked = LegCharges * Len(fills)
  BY <1>1 DEF GuardInv, GapIsCharges
<1>6. DayNet = dayRealised - (LegCharges * Len(fills) - LegCharges * Cardinality(OpenLegs))
  <2> DEFINE k == Cardinality(OpenLegs)
  <2>1. k \in Nat
    BY <1>3
  <2> HIDE DEF k
  <2>2. LegCharges * (Len(fills) - k) = LegCharges * Len(fills) - LegCharges * k
    BY <1>2, <1>3, <2>1
  <2> QED BY <2>2 DEF DayNet, k
<1>7. LegCharges * Len(fills) \in Int /\ LegCharges * Cardinality(OpenLegs) \in Int
  BY <1>2, <1>3
<1>8. DayNet <= guard.realised /\ guard.realised <= dayRealised
  BY SMTT(20), <1>2, <1>4, <1>5, <1>6, <1>7
<1>9. session = 1 => guard.realised = DayNet
  BY <1>2, <1>4, <1>5, <1>6, <1>7
<1>10. session = 1 => guard.count = DayTrips
  <2>1. DayTrips = Cardinality(Trips)
    BY DEF DayTrips, Trips
  <2> QED BY <1>1, <1>2, <2>1 DEF GuardInv, TripsAreCounted
<1>11. LossCapSurvivesRestarts
  <2>1. MaxLoss > 0 => -MaxLoss < guard.realised
    BY <1>1 DEF GuardInv, WithinCap, Capped, Known
  <2> QED BY <1>2, <1>8, <2>1 DEF LossCapSurvivesRestarts
<1> QED BY <1>8, <1>9, <1>10, <1>11 DEF GuardIsSound, GuardKnowsTheDay

\* A guard that lets trades in believes the day no worse than it was and
\* better by no more than charges, exactly so in the process that traded it
\* all; and past the loss cap none does, whichever process crossed it
\* (DailyRiskGuard.register_trade and restore, WorkerEngine._restore_daily_risk).
THEOREM GuardIsSoundHolds == RSpec => []GuardIsSound
BY GuardInvHolds, GuardInvIsSound, PTL
=============================================================================
