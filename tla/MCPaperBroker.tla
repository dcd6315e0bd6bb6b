---- MODULE MCPaperBroker ----
(* PaperBroker for TLC: a tick of five units; the touch, a quote without     *)
(* depth, and one with a bid alone, crossed through the limits.  The         *)
(* four configurations are the defaults, a strict live one in basis points,  *)
(* one without tick or latency, and ticks of slippage without a tick.        *)
EXTENDS PaperBroker

BrokerPrices ==
  {[last |-> 101, bid |-> 98, ask |-> 102], [last |-> 101, bid |-> 0, ask |-> 0],
   [last |-> 9, bid |-> 4, ask |-> 0]}
Default == [mode |-> "ticks", amount |-> 1, latency |-> 1, maxAge |-> 0, tick |-> 5, fallback |-> TRUE,
            extra |-> 1, session |-> FALSE, injected |-> {}, brokerage |-> 20,
            fees |-> 4, gst |-> 1800, stamp |-> 1, stt |-> 6]
Strict == [Default EXCEPT !.mode = "basis_points", !.amount = 10, !.maxAge = 1, !.fallback = FALSE,
                          !.session = TRUE, !.injected = {"o2"}]
Coarse == [Default EXCEPT !.mode = "points", !.amount = 3, !.tick = 0, !.latency = 0]
Unknown == [Default EXCEPT !.tick = 0]
BrokerConfigs == {Default, Strict, Coarse, Unknown}

-----------------------------------------------------------------------------
(* What rests is exactly what was submitted and not filled, and no order is *)
(* filled beyond its quantity.                                              *)
BrokerTypeOK ==
  \A i \in Ids :
    /\ orders[i].status \in {"NONE", "SUBMITTED", "PARTIALLY_FILLED", "FILLED"}
    /\ (orders[i].status = "SUBMITTED") = (working[i] # NotWorking)
    /\ Total(orders[i].fills) <= intents[i].qty
    /\ (orders[i].status \in {"PARTIALLY_FILLED", "FILLED"}) = (orders[i].fills # <<>>)

\* What a quote shows to a side: the touch, or the last price where it has none.
Shown(side, q) ==
  LET touch == IF side = 1 THEN q.ask ELSE q.bid IN IF touch = 0 THEN q.last ELSE touch

Surcharge == config.extra * config.tick * Scale

(* With both sides shown a buy pays at least the ask and a sell gets at most *)
(* the bid, whatever the slippage, the tick and the rounding; so does a      *)
(* limit order on any quote.  A market order on a quote that lacks a side    *)
(* is worse than the last price by the extra ticks of the fallback.  Every   *)
(* price is positive and on the grid ("a simulator that can accidentally     *)
(* fill you at a better price is worse than useless", paper.py:29).          *)
NoBargain(side, kind, price, q) ==
  /\ price > 0 /\ (config.tick # 0 => price % (config.tick * Scale) = 0)
  /\ IF kind = "LIMIT" \/ (q.bid # 0 /\ q.ask # 0)
     THEN side * price >= side * Scale * Shown(side, q)
     ELSE side * price >= side * Scale * q.last + Surcharge

FillsAreAdverse ==
  \A i \in Ids : orders[i].fills # <<>> =>
    NoBargain(intents[i].side, intents[i].kind, orders[i].price, orders[i].quote)

(* The docstring has it of every fill: "a buy fills from the ask and a sell  *)
(* from the bid" (paper.py:11).  Not of a market order on a quote with one   *)
(* side: _market_price takes the last price for both, and a last price above *)
(* the bid, less a small slippage, sells above the bid that was shown.       *)
NeverBetterThanShown ==
  \A i \in Ids : orders[i].fills # <<>> =>
    intents[i].side * orders[i].price >= intents[i].side * Scale * Shown(intents[i].side, orders[i].quote)

(* A limit order fills only on a quote of its own latency deadline or       *)
(* later; where there is a latency, never on the one it was submitted on.   *)
RestsBeforeItFills ==
  \A i \in Ids : intents[i].kind = "LIMIT" /\ orders[i].fills # <<>> =>
    orders[i].quote.at >= intents[i].at + config.latency

(* Orders, working book and fills agree, and no fill is better than the      *)
(* quote allows it to be.                                                   *)
FillsAreSound == BrokerTypeOK /\ FillsAreAdverse /\ RestsBeforeItFills

(* A correlation id is answered once.  A second submission changes nothing  *)
(* of what the first one became; only a resting order changes, once, when   *)
(* it fills.                                                                *)
OneAnswerPerId ==
  [][\A i \in Ids : orders[i] # NoOrder /\ orders'[i] # orders[i] =>
       orders[i].status = "SUBMITTED" /\ orders'[i].fills # <<>>]_brokerVars
====
