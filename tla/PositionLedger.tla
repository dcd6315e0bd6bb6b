---------------------------- MODULE PositionLedger ----------------------------
(***************************************************************************)
(* What a strategy's trading engine promises about the exposure recorded   *)
(* in the positions table: at any moment it is flat, or it holds one whole *)
(* order quantity of one contract; an order either opens that position     *)
(* from flat or closes all of it.  Crashes, restarts, retries and          *)
(* concurrent shutdown requests are not mentioned: they must be invisible. *)
(* TradingEngine implements this specification with ledger <- qty.         *)
(***************************************************************************)
EXTENDS Integers

CONSTANTS Contracts, Sides, Quantity

VARIABLE ledger   \* contract -> signed quantity

Flat == [c \in Contracts |-> 0]

Init == ledger = Flat

Open(c, side) == ledger = Flat /\ ledger' = [Flat EXCEPT ![c] = side * Quantity]

Close(c) == ledger[c] # 0 /\ ledger' = [ledger EXCEPT ![c] = 0]

Next == \E c \in Contracts : Close(c) \/ \E side \in Sides : Open(c, side)

Spec == Init /\ [][Next]_ledger
=============================================================================
