--------------------------- MODULE MCTradingEngine ---------------------------
(***************************************************************************)
(* The instance of TradingEngine TLC explores: a call and a put, one lot   *)
(* of two units, a session of four instants (before the open, inside the   *)
(* entry window, after the cutoff, at the square-off).                     *)
(***************************************************************************)
EXTENDS TradingEngineProps

CONSTANTS CE, PE

MCContracts  == {CE, PE}
MCOptionType == [c \in MCContracts |-> IF c = CE THEN "CE" ELSE "PE"]
MCBuys == {1}
MCBuysAndWrites == {1, -1}
MCNone == {}
MCPartials == {1}
=============================================================================
