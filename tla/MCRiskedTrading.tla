--------------------------- MODULE MCRiskedTrading ---------------------------
(***************************************************************************)
(* The instance of RiskedTrading TLC explores: orders of two units at two  *)
(* prices, so that a round trip gains or loses four, less charges of two.  *)
(***************************************************************************)
EXTENDS RiskedTrading

CONSTANTS C1, C2
MCContracts == {C1, C2}
MCBuys == {1}
MCBuysAndWrites == {1, -1}
MCHalves == {<<1, 1>>}
MCPrices == {10, 12}
MCMarks == {8, 10}
MCOneTime == {4}
=============================================================================
