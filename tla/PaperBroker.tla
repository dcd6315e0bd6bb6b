----------------------------- MODULE PaperBroker -----------------------------
(***************************************************************************)
(* PaperBroker and the QuoteBook it prices from: the refusals, market      *)
(* orders filled off the touch or the last price, the quote of the latency *)
(* deadline, limit orders that rest until a later quote, and the charges   *)
(* of a fill.  One instrument of the master, orders the risk guard let     *)
(* pass.  Quotes and limits are in the exchange's smallest unit, what the  *)
(* broker computes in that unit times Scale, so that basis points stay     *)
(* whole; 0 stands for a side that is not quoted and for a tick that is    *)
(* not known.  OrderLifecycle hands the broker the book's latest quote, or *)
(* the signal's own price when there is none.  A refusal only counts       *)
(* itself: the counters are left out.                                      *)
(***************************************************************************)
EXTENDS Integers, Sequences, FiniteSets, SequencesExt

CONSTANTS
  Ids,            \* correlation ids
  Configs,        \* PaperFillConfig and CostRates, one of which is in force
  QuotePrices,         \* [last, bid, ask] of a tick
  Limits,         \* limit prices
  Quantities,
  Lot, MaxQty,    \* the instrument's rules
  Depth,          \* QuoteBook's maxlen
  SessionEnd,          \* end of the session
  MaxTime, MaxTicks \* bounds

Scale == 10000

\* Zero stands for a tick or a maximum age that is not set; the charges' rates
\* come with it.
SlippageConfig == [mode : {"ticks", "points", "basis_points"}, amount : Nat]
ValidConfig(c) ==
  /\ [mode |-> c.mode, amount |-> c.amount] \in SlippageConfig
  /\ {c.latency, c.maxAge, c.tick, c.extra} \subseteq Nat
  /\ {c.fallback, c.session} \subseteq BOOLEAN /\ c.injected \subseteq Ids

ASSUME BrokerAssumption ==
  /\ QuotePrices # {} /\ QuotePrices \subseteq [last : Nat, bid : Nat, ask : Nat]
  /\ Limits \subseteq Nat /\ Quantities \subseteq Nat /\ Lot \in Nat \ {0} /\ MaxQty \in Nat
  /\ Depth \in Nat \ {0} /\ MaxTime \in Nat /\ MaxTicks \in Nat
  /\ \A c \in Configs : ValidConfig(c)

VARIABLES
  config,
  now,        \* the wall clock; exchange times may be a unit ahead
  book,       \* QuoteBook, oldest first
  ticks,      \* recorded
  orders,     \* _orders
  working,    \* _working: eligible_at of what rests
  \* --- history
  intents     \* what each accepted id asked for, and the quote it was submitted on

brokerVars == <<config, now, book, ticks, orders, working, intents>>

NoOrder == [status |-> "NONE", price |-> 0, fills |-> <<>>, charges |-> 0, late |-> FALSE,
            quote |-> [last |-> 0, bid |-> 0, ask |-> 0, at |-> 0]]
NoIntent == [side |-> 0, kind |-> "NONE", limit |-> 0, qty |-> 0, at |-> 0]
NotWorking == -1

BrokerInit ==
  /\ config \in Configs /\ now = 0 /\ book = <<>> /\ ticks = 0
  /\ orders = [i \in Ids |-> NoOrder] /\ working = [i \in Ids |-> NotWorking]
  /\ intents = [i \in Ids |-> NoIntent]

-----------------------------------------------------------------------------
(* QuoteBook.                                                              *)

Recorded(q) == IF Len(book) < Depth THEN Append(book, q) ELSE Append(Tail(book), q)

HasDepth(q) == q.bid # 0 /\ q.ask # 0

\* Where the quotes at or after the deadline are in the book; the first is the oldest.
After(deadline) == {k \in DOMAIN book : book[k].at >= deadline}

-----------------------------------------------------------------------------
(* _validate: an order is refused when one of its rules says so.            *)

\* Seeded bug: a retried id is taken for a new order.
NeverSubmitted(id) == FALSE

Submitted(id) == orders[id] # NoOrder

OnGrid(limit) == config.tick = 0 \/ limit % config.tick = 0

\* _age_ms: a quote from the future has none.
Age(q) == IF now >= q.at THEN now - q.at ELSE 0

Stale(q) == config.maxAge # 0 /\ Age(q) > config.maxAge

InvalidQuantity(qty) == qty = 0 \/ qty % Lot # 0 \/ qty > MaxQty

MarketClosed(q) == config.session /\ q.at > SessionEnd

Refused(id, i, q) ==
  \/ Submitted(id)                                           \* DUPLICATE_CORRELATION_ID
  \/ id \in config.injected                                  \* INJECTED_FAILURE
  \/ InvalidQuantity(i.qty)                                  \* INVALID_QUANTITY
  \/ i.kind = "LIMIT" /\ (i.limit = 0 \/ ~OnGrid(i.limit))   \* INVALID_TICK_PRICE
  \/ Stale(q)                                                \* STALE_QUOTE
  \/ MarketClosed(q)                                         \* MARKET_CLOSED
  \/ ~HasDepth(q) /\ ~config.fallback                        \* NO_DEPTH

-----------------------------------------------------------------------------
(* Pricing and filling.                                                    *)

\* SlippageConfig.amount
Slippage(base) == CASE config.mode = "ticks" -> config.amount * config.tick * Scale
                    [] config.mode = "points" -> config.amount * Scale
                    [] OTHER -> base * config.amount

\* Seeded bug: to the nearest tick.
NearestTick(price, side) ==
  LET t == config.tick * Scale IN IF t = 0 THEN price ELSE ((price + t \div 2) \div t) * t

\* _round_to_tick: up for a buy, down for a sell.
RoundToTick(price, side) ==
  LET t == config.tick * Scale
  IN IF t = 0 THEN price ELSE (IF side = 1 THEN (price + t - 1) \div t ELSE price \div t) * t

\* What a side is worth on a quote: the touch, or the last price without depth.
Base(side, q) == IF ~HasDepth(q) THEN q.last ELSE IF side = 1 THEN q.ask ELSE q.bid

\* _market_price
MarketPrice(side, q) ==
  LET extra == IF HasDepth(q) THEN 0 ELSE config.extra * config.tick * Scale
  IN RoundToTick(Base(side, q) * Scale + side * (Slippage(Base(side, q)) + extra), side)

\* What _market_price refuses after _validate has passed.
PriceRefusal(side, q) ==
  IF ~HasDepth(q) /\ ~config.fallback THEN "NO_DEPTH"
  ELSE IF (config.mode = "ticks" /\ config.tick = 0) \/ MarketPrice(side, q) <= 0 THEN "INVALID_TICK_PRICE"
  ELSE "none"

\* What fill_quantity_policy may return.
Splits(qty) == {<<n>> : n \in 1..qty} \cup {<<n, qty - n>> : n \in 1..(qty - 1)}

Total(fills) == SumFunction(fills)

\* ChargesCalculator.for_leg, its rates in basis points: brokerage, no more than
\* the turnover; the exchange's and SEBI's fees; GST on both; STT or stamp duty.
LegCharges(side, price, qty) ==
  LET turnover == price * qty
      brokerage == IF config.brokerage * Scale < turnover THEN config.brokerage * Scale ELSE turnover
      fees == (turnover * config.fees) \div Scale
      duty == (turnover * (IF side = 1 THEN config.stamp ELSE config.stt)) \div Scale
  IN brokerage + fees + ((brokerage + fees) * config.gst) \div Scale + duty

\* _make_fills: every fill at the one price, and charged for.
ChargesOfFills(i, price, split) ==
  FoldSeq(LAMBDA n, sum : sum + LegCharges(i.side, price, n), 0, split)

\* _build_order
Filled(i, q, price, late, split) ==
  [status  |-> IF Total(split) >= i.qty THEN "FILLED" ELSE "PARTIALLY_FILLED",
   price   |-> price, fills |-> split, late |-> late, quote |-> q,
   charges |-> ChargesOfFills(i, price, split)]

-----------------------------------------------------------------------------
Tick(p, at) ==
  /\ ticks < MaxTicks
  /\ book' = Recorded([last |-> p.last, bid |-> p.bid, ask |-> p.ask, at |-> at])
  /\ ticks' = ticks + 1
  /\ UNCHANGED <<config, now, orders, working, intents>>

TimePasses == now < MaxTime /\ now' = now + 1
           /\ UNCHANGED <<config, book, ticks, orders, working, intents>>

\* _quote_for
QuoteFor == IF book # <<>> THEN Last(book)
            ELSE [last |-> (CHOOSE p \in QuotePrices : TRUE).last, bid |-> 0, ask |-> 0, at |-> now]

\* _select_quote: the quote of the latency deadline, when there is one.
SelectQuote(q) ==
  LET later == After(q.at + config.latency)
  IN IF config.latency = 0 \/ later = {} THEN [quote |-> q, late |-> FALSE]
     ELSE [quote |-> book[Min(later)], late |-> TRUE]

\* _fill_now
FillNow(id, i, q) ==
  LET late == SelectQuote(q).late
      chosen == SelectQuote(q).quote
      refusal == PriceRefusal(i.side, chosen)
  IN IF refusal # "none" THEN UNCHANGED <<orders, working, intents>>
        ELSE /\ \E s \in Splits(i.qty) :
                  orders' = [orders EXCEPT ![id] = Filled(i, chosen, MarketPrice(i.side, chosen), late, s)]
             /\ intents' = [intents EXCEPT ![id] = i]
             /\ UNCHANGED working

\* _rest
Rest(id, i, q) ==
  /\ working' = [working EXCEPT ![id] = q.at + config.latency]
  /\ orders' = [orders EXCEPT ![id] = [NoOrder EXCEPT !.status = "SUBMITTED"]]
  /\ intents' = [intents EXCEPT ![id] = i]

Submit(id, side, kind, limit, qty) ==
  LET q == QuoteFor
      i == [side |-> side, kind |-> kind, limit |-> limit, qty |-> qty, at |-> q.at]
  IN /\ IF Refused(id, i, q) THEN UNCHANGED <<orders, working, intents>>
        ELSE IF kind = "LIMIT" THEN Rest(id, i, q) ELSE FillNow(id, i, q)
     /\ UNCHANGED <<config, now, book, ticks>>

\* The price a resting order can have on a quote, 0 when there is none.
Candidate(side, q) ==
  LET touch == IF side = 1 THEN q.ask ELSE q.bid
  IN IF touch # 0 THEN touch ELSE IF config.fallback THEN q.last ELSE 0

\* _settle: the deadline has passed and the quote reaches the limit.
Eligible(id, q) ==
  LET i == intents[id] c == Candidate(i.side, q)
  IN working[id] # NotWorking /\ q.at >= working[id] /\ c # 0 /\ i.side * c <= i.side * i.limit

Unlisted(ids) == [i \in Ids |-> IF i \in ids THEN NotWorking ELSE working[i]]

\* on_quote, on the tick just recorded: every order it reaches, at its limit.
OnQuote ==
  LET q == Last(book)
      hit == {i \in Ids : Eligible(i, q)}
  IN /\ book # <<>> /\ hit # {}
     /\ \E s \in [hit -> UNION {Splits(n) : n \in Quantities}] :
          /\ \A i \in hit : s[i] \in Splits(intents[i].qty)
          /\ orders' = [i \in Ids |-> IF i \in hit
                          THEN Filled(intents[i], q, intents[i].limit * Scale, TRUE, s[i]) ELSE orders[i]]
     /\ working' = Unlisted(hit)
     /\ UNCHANGED <<config, now, book, ticks, intents>>

BrokerNext ==
  \/ TimePasses \/ OnQuote
  \/ \E p \in QuotePrices, at \in {now, now + 1} : Tick(p, at)
  \/ \E id \in Ids, side \in {1, -1}, qty \in Quantities :
       \/ Submit(id, side, "MARKET", 0, qty)
       \/ \E l \in Limits : Submit(id, side, "LIMIT", l, qty)

BrokerSpec == BrokerInit /\ [][BrokerNext]_brokerVars
=============================================================================
