# A TLA+ verification of the algo_trading forward-testing runtime

The runtime trades option strategies on paper against a live market-data feed. A supervisor
process owns one connection to the data provider and fans its ticks out, over bounded queues, to
one worker process per strategy. A worker runs a trading engine that turns ticks into candles,
candles into signals and signals into orders; every step of an order is a transaction of a SQLite
database shared by the runtime group. Positions must be closed by a square-off time, once,
whatever crashes. Nothing here places a real order: the broker is simulated, and the point of the
program is that its records can be believed.

This directory holds TLA+ models of the parts in which that can go wrong in ways a unit test
hardly reaches, TLC configurations that check them on small instances, and proofs that TLAPS
checks for every value of the constants.

## 1. The system

| Part (src/) | State it keeps | Operations | Talks to | What is hard | What makes it correct |
|---|---|---|---|---|---|
| Trading engine `common/engine/engine.py`, `hub_feed.py`, `session.py`, `runtimes/intraday_options/engine_worker.py` | pending entry, entry block, square-off flags, exit-state row, candle watermark | `run`, `on_tick`, candle and option-tick handlers, `request_square_off`, warm-up, recovery | tick queue, position manager, authority, guard | requests from other threads at any point, exceptions in clauses that retry, crashes, decisions at one tick and fills at another, replayed ticks | at most one position, the table and the book agree, nothing is sold twice, the day ends |
| Position manager and gateway `positions.py`, `gateway.py` | the book, the window of the last order per contract | `open`, `close`, `adopt`, `_execute` | order lifecycle | a fill that is committed and not recorded; a fill that stops short | the book changes only with a whole fill |
| Square-off policy and authority `common/risk/squareoff.py`, `square_off.py`, `process/square_off_requests.py` | PENDING, IN_PROGRESS, COMPLETED per day; an operator's request file | `trigger_at`, `due`, `completed`, load | engine, repository | a predecessor that died in the middle; a completion that is early | completed only over an empty table |
| Order lifecycle and repository `common/execution/` | signals, intents, orders, fills, positions, strategy_state | one commit per stage of an order | database | a crash between two commits, two slices of a fill, two orders in one second | rows are the sum of their fills |
| Daily risk guard `daily_guard.py` | realised, count, halted | `register_trade`, `check_open_mtm`, `restore` | engine, repository | what a restarted guard knows | a loss past the cap stops every later process |
| Paper broker `common/broker/paper.py`, `quotes.py`, `costs.py` | working orders, quotes, answers by id | `submit`, `on_quote` | order lifecycle | latency, a limit that rests, depth, one-sided quotes | no fill favours the strategy; an id is answered once |
| Candles `common/candles/` | the forming bar | `add`, `mark_feed_gap`, `flush`; `reset`, `retarget` | hub, engine | late ticks, outages, a clean stop | a published bar has no hole after its first tick and comes once |
| Warm-up `common/warmup/` | required bars, fetched history, status | requirements, fetch with retries, replay, verification | engine, strategy | a provider that leaves out or answers late; where history ends and live bars begin | no trade on a past that is not known |
| Exit policies `common/exit/` | best profit, best close, run of adverse closes | `should_exit`, `snapshot`, `restore` | engine, strategy | stale or foreign snapshots, several rules at once | a rule's memory is the open trade's |
| Fixture worker `runtimes/intraday_options/worker.py` | candles seen, square-off state | `run_worker`, `_maybe_square_off` | candle queue, lifecycle | a restart inside a candle or a square-off | its honest days end flat |
| Tick channel `common/feed/queues.py`, `hub.py` | queue, drop counters, last notice | `publish`, drop-oldest, drop notice, sentinel | worker process | three operations on a queue another process reads | drops are counted, the worker learns of a loss |
| Feed `common/feed/hub.py`, `reconnect.py`, `common/market_data/dhan.py` | pending requests, routes, subscriptions, attempts, flags | connect, tick, reconnect, subscribe, stop | supervisor thread, provider | a socket that drops under a subscription, a stop that crosses a connect | what a worker waits for is carried, a stop is taken up |
| Supervisor `runtimes/intraday_options/supervisor.py`, `__main__.py` | admitted strategies, workers, control queues, heartbeat, lock | `add_worker`, `run`, `_run_feed`, shutdown | feed thread, workers | a silent socket, a worker that will not die, a feed that fails | the run ends; orders keep their owner |
| Token bootstrap `common/authentication/` | token cache, cooldown file, lock file | `get_token`, `refresh`, `_generate`, `_persist` | login server | N processes at once, lost answers, crashes between files | one login serves all, one rejection each |
| Launch: `orchestration/`, `scripts/`, `common/process/locks.py`, `common/persistence/migrations.py`, `common/retention/` | flock, PID file, schema, attempts | acquire, release, stop, migrate, retry | operating system | PIDs that are reused, kills at any step, duplicate launches | one group at a time, on a whole schema |
| Notifications `common/notifications/base.py` | repeat windows, bounded queue, counters | `notify`, drain, `close` | worker, Telegram | three queue calls against a drain thread | no event is lost uncounted |
| Option chain `common/market_data/option_chain.py` | snapshots, last calls | `get` | broker | a sleep under a lock, failures, stale answers | requests are spaced |
| Instrument master `scrip_master.py`, `common/engine/selection.py` | day-stamped copies, indexes, the session's expiry | load, select, prune | workers of one machine | several writers, midnight, rounding of strikes | the contract is listed and is the one asked for |
| Health, dashboards, logging | | | | | not modelled: section 7 |

`PROJECT.json` lists every component with its status, and under "hazards" the places in the code
where these things bite.

## 2. Modules

    SquareOffPolicy ─┬─ TradingEngine ── TradingEngineProps ─┬─ MCTradingEngine
                     │        PositionLedger (abstract) ──┘  └─ TradingEngineProofs
    Candles ─────────┴─ FixtureDay ── MCFixtureDay ──────────┐
    ProcessLock ── Launch ── MCLaunch ───────────────────────┤
    Admission ───────────────────────────────────────────────┼─ RuntimeProofs
    SharedFeed ── Supervisor ── SupervisorProps ─────────────┘
    OrderLifecycle ── OrderLifecycleProps ─┐
                          DailyRiskGuard ──┴─ RiskedTrading ─┬─ MCRiskedTrading
                                                             └─ RiskedTradingProofs
    PremiumExit ── MCPremiumExit ── PremiumExitProofs
    LossyChannel (abstract) ── TickChannel ───────────────────┐
    OptionChain, InstrumentMaster, WarmUp ── MCWarmUp ────────┴─────── MarketDataProofs
    ExitPolicies, PaperBroker ── MCPaperBroker ────────────────────── TradeRulesProofs
    TokenBootstrap, Notifier ── MCNotifier ────────────────────────── ServicesProofs
    SumTheorems (sums over finite sets and of sequences; used by the last four)

**SquareOffPolicy** holds the clock decisions as pure operators: the entry window, the session,
and what `trigger_at` answers.

**TradingEngine** is one strategy's day. Its variables are what survives a crash (`qty` and
`record`, the positions table and the contract record recovery compares it with; `soState`;
`opFile`), what the process knows (`book`, `pending`, `blocked`, `halted`, `requested`,
`squaredOff`, the authority's `authState` and `attempted`), and where the engine's thread is (`pc`,
and in which clause of `run` an exception would be caught, `phase`). Each action is a handler, or
a part of one up to its next database commit, because a crash or another thread's request can fall
there. An order is one commit here (`apply_fill`); `RecordEntry` and `RecordExit` are the separate
commit of the contract record. `Raise` is an exception on its way out of `run`, which squares off
in its except clause and again in its finally clause.
*Abstractions.* Prices, candles and profit are reduced to the decisions they lead to: a tick may
bring a signal, an exit or a tripped loss cap, or nothing (`QuietPoll`). The time of a tick is the
clock's, which stands still during a handler. The exit-policy row, the candle watermark and the
marks are PremiumExit's; warm-up is one more reason to start blocked, and WarmUp's own subject.

**PositionLedger** is what the engine promises: exposure is nothing, or one whole order quantity
of one contract; it is opened from flat and closed entirely. `RefinesLedger` says that the
positions table implements it.

**PremiumExit** is the part of the engine that TradingEngine leaves out: the held contract's own
candles (`CandleBuilder`), the strategy's `CombinedCandleExit` (a momentum break, or a trail from
the best close), the checkpoint written after every candle, the clearing write after a close, the
marks, the candle mark that the checkpoints and the fills both write, and what a restarted worker
adopts from them. Each write is a step of its own that may fail
or never be reached. After a restart the feed may deliver the day again from any earlier trade.

**WarmUp** is how a worker's indicators get their past: requirements of the configured indicators,
the sessions to fetch, a provider that may leave out buckets, fail or answer late, the verification
against the calendar's bucket grid, the replay into the strategy, and then live ticks, the first of
which have waited in the queue since before the fetch. The strategy is kept as its readiness and
its `ConfirmedCrossover`: what a close does to the EMA spread is any side.

**ExitPolicies** is every exit rule (what the SuperTrend indicator answers is any), the composite that asks them all and
lets the first in priority close, and the snapshot restored by label. The composite's sort and loop
are taken by their outcome (`First`), so nothing is claimed of them.

**OrderLifecycle** opens up the order: `RecordSignal`, `ReserveIntent`, `Submit` (the broker, in
memory), `RecordSubmission`, one `ApplyFill` per fill, `Outcome`. The tables are variables; a crash
loses the rest. **DailyRiskGuard** is the guard as pure operators, and **RiskedTrading** composes
the two: the guard is asked before an entry, told of every closed trade, marks the open one, and
is rebuilt by a restart from what the repository kept. Prices are integers. The broker answers an
order with one fill (the default policy), with the slices a `Splits` policy gives, or not at all.

**PaperBroker** is what `Submit` abstracts: refusals in their order, market orders on the touch, the
quote of the latency deadline, limit orders that rest, slippage in ticks, points or basis points,
rounding to the grid, depth, and charges. Broker arithmetic is scaled by 10000 so that basis points
stay whole.

**Candles** is one instrument's `CandleAggregator` in the hub, fed by a connection that drops, is
silently dead, and comes back, with ticks up to `MaxDelay` late. **FixtureDay** extends it with the
walking-skeleton worker that trades on those candles, and its restarts.

**TickChannel** is the queue between hub and worker at the grain at which the two processes and
the queue's own feeder thread interleave: `put`, `get_nowait` and the second `put` are three
actions, a blocked `get` holds the pipe's lock, and an item read is still counted until the
reader releases it. **LossyChannel** is what hub and worker promise each other about ticks: they may be
lost, but are delivered in order and once, no more than the depth and one are on their way, and a
closed channel ends empty. `RefinesLossyChannel` maps the ticks being published, buffered, in the
pipe or in the worker's hand to those in transit.

**SharedFeed** is the feed thread: the loop of `ReconnectingFeed`, the adapter's socket, and the
hub's runtime subscriptions, with another thread's two statements of `request_subscription` and of
`request_stop` as separate actions. **Supervisor** adds the main thread and the workers: the poll
loop's duties, the signal, the grace period, sentinels, joining or terminating workers, the last
heartbeat and the lock. The underlying, registered before the start, stands behind any tick; only
contracts asked for at run time are followed one by one.

**Admission** is which strategies a start lets trade and under whose name their orders are filed:
`add_worker` in the order of the files, workers that take their own lock and may outlive their
supervisor, starts of single strategies, and the unique correlation id of an order.

**TokenBootstrap** has several processes run `get_token` and `refresh` over the cache, the cooldown
and the refresh lock, with a login server that may accept, reject, refuse as too frequent, fail, or
decide and have its answer lost, and an operator who changes the PIN or clears the cooldown.

**ProcessLock** is the flock and the PID file of one identity; reading the file, removing it,
winning the flock and writing the record are steps of their own, and a PID is reused. **Launch**
puts it in its place: `supervised_launch`'s attempts, `main`'s order (gates, backup, migration,
retention, token, run), `stop_runtime`, and kills at any step.

**Notifier** is `SafeNotifier`: the repeat window, the bounded queue between the worker's thread and
the drain thread, failures on their way back, and `close` with its bounded join. The drain thread's
`get` that raises Empty and its test of `_stop` are two steps (`FindNothing`, `EndOrWait`).

**OptionChain** is the throttle and cache under one lock, the sleep included. **InstrumentMaster**
is the way from a spot price to a listed contract: the file shared by the worker processes of one
machine, its indexes, the expiry fixed for the session and the strike a moneyness asks for.

A definition preceded by "Seeded bug" is a deliberately broken variant of the one after it. No
specification uses it; it shows that the property named with it in `PROJECT.json` ("mutants")
would notice.

## 3. The passing runs

A property that is a conjunction is listed with its parts.

| Run | Instance | Question |
|---|---|---|
| `engine` | a call and a put, buying and writing, one lot of two, four instants (before the open, entry window, after the cutoff, square-off), three processes, writes that may fail | does the positions table implement the ledger (`RefinesLedger`), agree with the book (`BookMatchesStore`), is completion recorded only when flat (`CompletionAfterFlat`), is an entry filled only in its window, before any square-off and unhalted (`EntriesOnlyWhenAllowed`; of the entry block see `BlockedMeansNoEntry` in section 4), and does the day end, an inherited attempt included (`SquareOffEndsTheDay`, `RequestEndsTheRun`) |
| `premium` | two contracts, two trades, seven instants, a restart at any commit, failed writes, replayed ticks | `ExitStateIsSound` (an adopted position never runs on another contract's exit state), `ProgressIsKept` (a stored trail never falls), `MomentumComparesNeighbours`, `CandlesCountOnce` |
| `warmup` | buckets of two minutes, a holiday, three boot times, five kinds of strategy, two fetch attempts | `WarmUpIsSound` (a trusted replay ends with the exchange's last bars, a complete history is trusted, a path-dependent strategy does not trade untrusted), `FedBarsHaveNoHole`, `SignalsAreFresh` |
| `fixture` | candles of two minutes, six minutes, ticks one minute late, a queue of two, three starts | `CandlesAreSound` (none twice, none with a hole after its first tick), `HonestDayIsFlat`, `DayIsKept` (entries stay closed, the operator's request is kept until done, one order per candle) |
| `orders` | two contracts, both sides, orders of two units whole or in two slices, two prices, four orders, two processes, one exchange second | `RowsAreSound`, `RealisedIsCash`, `BookAgreesWithRows`, `NeverSuppressesItself`; `GuardIsSound` (the guard knows the day, the loss cap survives restarts) |
| `paper` | two ids, four configurations, three quotes (a touch, no depth, a bid alone, crossed through the limits), lots of two, three instants | `FillsAreSound` (orders, working book and fills agree; with both sides shown no fill is better than the touch, without them a market order is worse than the last price by the extra ticks; a limit order waits for its deadline), `OneAnswerPerId` |
| `ticks` | a queue of three, seven ticks, a notice asked for at every sixth drop and sent at every one (the cadence is clamped to half the depth) | `ChannelIsSound` (every drop is counted), `DropsAreReported` |
| `feed` | two workers asking for one contract in one of two segments, two attempts | `RoutedIsCarried`, `RecoveredFeedHasItsBudget`, `GroupStops` (the shutdown completes, and a stop is taken up by the feed), `RequestIsServed` |
| `auth` | three processes, two retries, two tokens, one crash, one lost answer | `OneLoginForAll`, `OneRejectionEach`, `NeverTheDeadOne`, `EveryCallReturns` |
| `launch` | two PIDs of two processes each, two attempts, a migration of two statements | `LaunchIsSound` (one supervisor, a record names its writer, never beside the legacy system, a stop is final), `SchemaIsWhole`, `RefusedOnlyByTheLiving`, `EveryLaunchSettles` |
| `notify` | two keys, a queue of two, four sends, windows of two units | `NotifierIsSound` (every event in one place, failures handed over once; a close that joined leaves an event queued only if it came between the drain thread's look and its test of `_stop`), `RepeatsAreTold`, `CloseEnds` |

*Bounds and why they are enough.* Three processes let one die, its successor die in recovery or in
the inherited square-off, and a third face both. Two contracts are the fewest that can be held
wrongly at once; four instants are the distinct answers of the policy. Two trades are one whose
state is left behind and one to inherit it; seven instants make three candles, a neighbour, a gap
and a replay. Buckets of two minutes give a bucket an inside, and a day of twelve one that begins
before the open; the holiday is what a look-back in sessions has to cross. Four orders make two
round trips, which is what accumulation, re-entry and the trade limit need; one exchange second
makes every pair of orders on a contract collide. Seven ticks fill a queue of three and go on
until a notice that is not followed by another ages out of it. With two segments two requests can conflict; two attempts are the fewest
of which one can be spent and given back. Three processes are one at the server and two waiting;
two tokens are one to be replaced and one to replace it. Two PIDs given twice let a dead holder's
number return as a launcher or as a stranger. `MaxStarts`, `MaxOrders`, `MaxTicks`, `MaxTokens`,
`MaxCrashes`, `MaxLost`, `MaxTrades`, `MaxSends`, `MaxBorn`, `MaxDelay`, `MaxTime` and `LastTime`
bound the models and nothing in the code. The contracts of `premium` are symmetric; only safety is
checked there. Deadlock is not checked where the bounds, or the end of the day or of the run,
really stop the system.

*Fairness.* `TradingEngine`: the operating system schedules the engine's thread and a poll timeout
wakes it without ticks (`WF EngineStep`); the clock never stops, and a handler only postpones it
(`SF Advance`). No tick, request, crash or restart is promised. `TickChannel`: the hub inside a
publish, the queue's feeder thread and the worker's loop are scheduled; no tick and no shutdown is
promised. `Supervisor`: the main thread performs each of its poll's duties and its shutdown. That
the connection delivers frames or fails is not the program's to promise: it is a hypothesis of the
two properties that need it (`FairFeed => ...`), and `ShutdownCompletes` holds without it.
`TokenBootstrap`: a process in a call goes on with it; the lock's timeout is one way to go on.
`Launch`: a living launcher goes on, and no stop is promised. `Notifier`: both threads are
scheduled; a delivery ends, because Telegram's request has a timeout.

Some properties exclude conditions of the environment, by a history variable, and say so:
`DropsAreReported` the two ways a notice is lost (section 4), `OneRejectionEach` verdicts nobody
heard, `HonestDayIsFlat` a crash in the middle of a square-off, a suppressed signal and an order
that did not fill, `NotifierIsSound` a join that timed out and a close
that came between the drain thread's look at the queue and its test of `_stop` (`unseen`).

## 4. Where the code and its documentation disagree

One run checks a sentence of the repository and ends in a counterexample. `premium_inherit`: the
clearing write of a trade fails or is never reached; the next trade of the same contract is
restarted before its first candle, and adopts the closed trade's best close
(`TradeStartsClean`; `strategy.py:291` says that every close "clears all premium-exit state so
trade N+1 starts clean", and `engine.py:754` knows a snapshot by its contract alone).

The others are definitions that no run checks, because the code does not keep them; each becomes a
counterexample when it takes the place of the properties of the run named with it.

| Definition | With | What happens | What is said |
|---|---|---|---|
| `EngineStrategiesRun` (Admission) | two strategies, one with an engine | the worker of the engine strategy ends at once with exit code 1: see "No engine from the entry point" | `worker.py:137`: "drive TradingEngine off the tick channel" |
| `NoCollisionCrash` (Admission) | `Selections` of single strategies | `start_strategy` of one and then, on the same day, of another with the same first four characters: the second one's first order meets the first one's correlation id, and its worker crashes; `WholeStartsNeverCollide` is what is left | `correlation.py:84`: what surfaced "as a plain worker crash" is now refused at admission |
| `BlockedMeansNoEntry` (TradingEngineProps) | `engine` | an entry queued before `block_entries` is filled after it | `engine.py:548`: "Refuse new entries for the rest of the day" |
| `ClosesNeverOvershoot` (TradingEngineProps) | `engine`, `Partials <- MCPartials` | see "A partial close is sold again" | `gateway.py:316`: "it leaves the position exactly as the database has it" |
| `ForceClosedAtSquareOff` (TradingEngineProps) | `engine` | see "The day closed early" | `engine.py:21`: open positions are managed "until the hard square-off, when any position is force-closed" |
| `OrdersReportTheirFills` (OrderLifecycleProps) | `orders` | a crash between `record_submission` and `apply_fill` leaves an order FILLED that has no fill | `repository.py:11`: "Fill + order update + position update + strategy state commit together" |
| `NoEntryAfterHalt` (RiskedTrading) | `orders` | a halt on a mark or on charges is not persisted; a restarted process trades on | `daily_guard.py:81`: "latches ... and stays that way until reset at the start of the next day" |
| `AtLeastOneGetsThrough` (TickChannel) | `ticks` | the only notice of a drop is itself refused or evicted, and the worker trades on candles with a hole | `queues.py:61`: "at least one gets through" |
| `EveryWorkerIsTold` (SupervisorProps) | `feed` | a feed that fails for good makes `run` raise past the sentinels, and releases the lock over running workers | `supervisor.py:597`: "Sentinel per worker, on every channel it has" |
| `WrongPinCostsOneRequest` (TokenBootstrap) | `auth` | a lost answer, or a crash before the record, costs a second rejected request | `dhan_login.py:122`: "nothing was decided by Dhan" |
| `RecoveringWorkerSquaresOff` (MCFixtureDay) | `fixture` | a worker that dies IN_PROGRESS is never squared off; an order that is refused or suppressed leaves the strategy believing in its position | `squareoff.py:9`: "a recovering worker reaches the same conclusion as the one that died" |
| `NeverBetterThanShown` (MCPaperBroker) | `paper` | a quote with a bid and no ask has no depth (`paper.py:662`), and its last price, above the bid, is the base of a sell: with a slippage smaller than the gap the sell fills above the bid that was shown | `paper.py:11`: "a buy fills from the ask and a sell from the bid" |
| `NothingIsLeftAtClose` (MCNotifier) | `notify` | the drain thread's `get` raises Empty; before it reads `_stop` (`base.py:349-353`) the last event is put and `close` sets it; the thread ends, and the event is delivered and counted by nobody, although the join succeeded | `base.py:408`, `close`: "Stop the drain thread once its queue is empty", so that the last notifications "are not silently abandoned" |
| `NeverDoubleCounted` (MCWarmUp) | `warmup` | a bucket that was fetched whole is built again from the ticks that waited in the queue | `historical.py:283`: "so warm-up and the live feed never double-count or gap at the boundary" |

*No engine from the entry point.* `build_supervisor` (`__main__.py:147`) registers every worker
with `add_worker(worker_config, live_gate=...)` and never passes `tick_channel=True`, which
`supervisor.py:311` and the runbook (`IMPLEMENTATION_STATUS_AND_RUNBOOK.md:3331`) require of a
worker with an engine; only tests pass it. `run_engine` then refuses to start
(`engine_worker.py:446`). So the shipped, enabled strategy `ema_cross_9_21_buy` never trades from
the production entry point. What is modelled of the engine, of warm-up and of premium exits is the
engine as the tests and `run_engine` drive it.

*A partial close is sold again.* A closing order that stops short raises; `run`'s except clause
squares off from the book, which still has the full quantity, and sells it again: the table goes
from long to short. The default fill policy fills whole orders.

*The day closed early.* `due()` answers FALSE for the whole day once COMPLETED is loaded, and the
engine does not read the persisted entry block: a process restarted after an operator's early
square-off opens a position that nothing closes at the square-off time.

Met while modelling, and kept in the models as the code has them:

- *Starting and stopping.* `release` frees the flock before it reads and unlinks the PID file, and
  `acquire` sweeps the file it read as stale: a second launch that wins in between loses its live
  record (`locks.py:293`: "never another process's"), and `stop_runtime` then finds nothing to
  stop. Housekeeping runs before the group's lock is taken, so that a duplicate launch purges rows
  of a trading group (`__main__.py:223`: "so storage housekeeping cannot race a trading write"). A
  shutdown that raises after the signal is retried ("a deliberate shutdown must never loop"). A
  refused duplicate is retried, so that a second supervised launch starts trading after the
  operator stopped the first. `_record_attempt` opens the database outside the try, so that a busy
  one ends the wrapper. A worker that outlives its termination is recorded with exit code 0. The
  heartbeat left DEGRADED for a stuck subscription is overwritten by the next beat.
- *Notifications.* A join that times out pumps before the drain thread's last failure, which is
  then lost ("so nothing is lost at shutdown", `base.py:394`). An event evicted from the queue still
  suppresses its repeats.
- *Paper broker.* A market order is handed the book's latest quote, so that on a replayed tape too
  it is priced without latency (`paper.py:51` says otherwise). Brokerage is charged per fill. A
  partly filled limit order leaves the working book. With no latency a limit order may fill on its
  submission quote. `on_quote` is called by tests only.
- *Premium exits.* The positions row is reused by a re-entry, which inherits its opening time,
  excursions and charges. The watermark shared by underlying and premium candles can refuse one
  premium candle on a replay that was never processed. An adopted position's first tick may look
  like a gap.
- *Candles and fixture worker.* A bar begun inside an outage is published without its first ticks.
  A clean stop publishes the forming bar with an end in the future; a restart in the same interval
  builds it again, its square-off signal is suppressed as a duplicate, and COMPLETED is saved over
  an open position. The request file carries no date.
- *Warm-up.* A late tick moves the last tick's time back and can look like a gap. A look-back may
  need one more session than is fetched; it then answers PARTIAL, which is safe.
- *Exit policies.* A trail that was armed fires under water when a single candle gives back more
  than the profit (`trailing_exit.py:5`: "it never fires while the trade is still under water").
  The composite is wired to no runtime.
- *Option chain.* The throttle is per key, while the class says that it limits the group
  "regardless of key" (`option_chain.py:128`). The service is used by no runtime.
- *Instrument master.* `ContractNotListed` "must" mean "do not enter" (`selection.py:116`), and the
  engine's call is in no try: it ends the worker. A download that straddles midnight is stored under
  the new day's name, so that this day never refetches (`scrip_master.py:242`). A blank expiry date
  makes `nearest_expiry` raise. The lot size is that of whichever series is listed last.
- *Retention.* A compressed log is a new file, so that its age begins again (`logs.py:55` takes it
  from the rotation). `RotatingFileHandler` renumbers only plain backups, so that a later backup of
  the same number overwrites the compressed one before its age. (Read from the code; not modelled.)
- *Guard.* `closed_position_count` counts rows and not round trips, and the guard is restored from
  the gross figure, without charges.
- *Feed.* The hub's clock may be cleared under a waiting request, or be an older request's.
- *Token.* "Too many requests" is recorded nowhere, so that each waiting process asks once more.

## 5. Proofs

| Module | Theorems (for all values of the constants) |
|---|---|
| `TradingEngineProofs` | `TypeCorrect`, `NeverTwoPositions`, `BookIsTheTable`; with whole fills, `ImplementsLedger`, `NoOvershoot`, `CompletionHolds`, `EntriesHold` |
| `RiskedTradingProofs` | `RowsAreSoundHolds`, `BookAgreesWithRowsHolds`, `NeverSuppressesItselfHolds`, `GuardIsSoundHolds`; with whole fills, `RealisedIsCashHolds` |
| `PremiumExitProofs` | `ExitStateIsSoundHolds`, `ProgressIsKeptHolds`, `MomentumComparesNeighboursHolds`, `CandlesCountOnceHolds` |
| `RuntimeProofs` | launch: `LaunchIsSoundHolds`, `SchemaIsWholeHolds`, `RefusedOnlyByTheLivingHolds`; admission: `LiveNeverTradesHolds`, `TrailsAreSeparateHolds`, `WholeStartsNeverCollide`; feed and supervisor: `RoutedCarried`, `WholeBudget`, `HealthIsTrue`, `SegmentsAreKept`; fixture worker: `CandlesAreSoundHolds`, `HonestDayIsFlatHolds`, `DayIsKeptHolds` |
| `MarketDataProofs` | tick channel: `ChannelIsSoundHolds`, `ImplementsLossyChannel`; option chain: `RequestsAreSpacedHolds`, `OneRequestAtATimeHolds`, `OnlyNeededRequestsHolds`, `AnswersAreRealHolds`; instrument master: `AtmIsNearest`, `MoneynessIsRight`, `CopiesAreWholeHolds`, `PickIsAskedHolds`, `RulesAreThePicksHolds`, `SeriesIsNearestHolds`, `OneSeriesHolds`; warm-up: `FedBarsHaveNoHoleHolds`, `SignalsAreFreshHolds`, `WarmUpIsSoundHolds` |
| `TradeRulesProofs` | exit rules: `MemoryIsTheTradeHolds`, `TrailGivesBackHolds`, `ReversalIsARunHolds`, `RestartForgetsNothingHolds`, `StopAndTargetExclude`; paper broker: `FillsAreSoundHolds`, `OneAnswerPerIdHolds` |
| `ServicesProofs` | token bootstrap: `TypeCorrect`, `OneRejection`, `Cooldown`, `OneLogin`, `DeadOneIsGone`, `CacheAdvances`; notifier: `NotifierIsSoundHolds`, `RepeatsAreToldHolds` |

`SumTheorems` holds the lemmas about the community module's sums (of nothing, of zeros, of one
element more, of a change at one element, of a sequence with one more at its end) that the orders,
the broker and the notifier rest on, and those about a member's place in a finite set of numbers
(every place is taken, by one member), which the warm-up's "n newest" rests on.

*Engine.* None of the properties is inductive. That no second position is opened depends on an
entry being queued only from flat and on the table staying flat until its order is placed; that
nothing is oversold depends on how the table and the book relate before, during and after a close.
`Inv` adds these relations to the types, one conjunct per stretch of the program counter
(`WaitingAgrees`, `PendingIsFlat`, `EntryInProgress`, `CloseInProgress`, `WholeFills`,
`DownIsEmpty`), and each conjunct is preserved action by action. A second invariant over it,
`Rules`, relates the flags of the day (squared off, halted, blocked, the authority's state) to the
table and to the queued entry: that an entry is filled only when allowed depends on what was true
when it was queued, several ticks before. The theorems with whole fills assume `Partials = {}`, the
default fill policy; "A partial close is sold again" shows that the assumption is needed. The other
assumptions are those named in the modules (`ClockAssumption`, `EngineAssumption`).

*Orders and guard.* Three invariants, one on the other, for any contracts, prices, number of orders
and processes, and any answer of the broker. `OrderInv` says at each point of the program counter
which rows of the order in hand exist and what they say (`OrderIsAsked`, `OrderIsFiled`), and that
orders, fills and intents refer to one another; `RowsAreSound` follows. `BookInv` adds how the book
in memory relates to the row of the open position while an order is in progress (`RowsMatch`), and,
if every order is filled whole, that a row is never carried past zero and that its realised
profit is what its fills brought in less its open units at cost (`CashIsRealised`): that is the
inductive form of `RealisedIsCash`, which speaks of closed contracts only. `GuardInv` accounts for
the difference between the guard's figure and the rows: it is charges of trades that earlier
processes closed (`GapIsCharges`), the guard counts the trips of its own process
(`TripsAreCounted`), and the fills of open positions are exactly those after the last that left
the contract flat (`OpeningLegs`, `BookLegs`). The hypothesis `WholeFills` (`Splits` holds no
answer short of an order) is needed for `RealisedIsCash` alone and cannot be dropped: with partial
answers TLC finds a close that stopped short, was sold again and crossed zero, where
`_upsert_position` keeps the old average for the new side (`repository.py:557`). The sums are those
of the community module; their lemmas (one element more, none, a change at one element) are proved
by a smallest counterexample over finite subsets, since induction over data is out of reach.

*Premium exits.* `ExitInv` adds what each stored thing is behind of: the snapshot of the open trade
behind the memory (`SnapshotIsBehind`), the row's marks behind the position's (`MarksAreBehind`),
the previous candle directly behind the open bar (`PrevIsNeighbour`), and every counted candle
behind a tick that opened a later bar (`CountedIsPast`, `SavedIsPast`), which a replayed stream comes
by again before anything the watermark does not refuse. Flat memory is clean (`FlatIsClean`), and the
one open row is the position of a living engine (`OneOpenRow`).

*Launch.* `LaunchInv` ties the stage of each launcher to its place in `acquire` and `release`
(`StageAndPhase`), the flock to those places (`FlockIsHeld`), the PID file to the processes its
PID was given to (`RecordIsPast`: a record that verifies is of the living process that wrote it,
because PIDs are told apart by their start), and the migration lock to the script, of which the
schema holds what was done (`ScriptOf`). *Admission.* `OwnersOnly`: when the group is always started
whole, the first of each token is the only one that is ever spawned, lives or has rows, on any day
and over any kill.

*Tick channel.* `DropsAreCounted` bounds what was accepted by what was dropped, read or is in flight
through each of the three queue calls; `TicksAreAccepted` is the strict accounting that holds until
the first drop. Types carry the depth. `OrderInv` sees the line from the worker's hand back to the
hub's: pipe, buffer and what is being published are in the order offered, the sentinel comes after
everything (`LineIsOrdered`), and no tick in the line was handled (`LineIsNew`). Every action moves
one item by one place or loses it, so a tick that is read is the least in transit, and when the
sentinel is read nothing is behind it. The assumption `MarksAreNoTicks` says that notices and the
sentinel are told from ticks, as `HubTickFeed.run` tells them by their types. The refinement and
its invariant were explored by TLC on a queue of three and six ticks (where a first put that falls
through to the eviction breaks it) and have no run: the theorem replaces it.

*Option chain.* `SleepIsLongEnough` is the point: what was computed before the sleep still holds
after it, because the lock is not given up. It needs that every request still under way is its
owner's (`EveryRequestCounts`).

*Instrument master.* Strikes are arithmetic: `RoundIsNear` bounds the rounding by half a step and
everything about moneyness follows. The cache is a safety argument over files that several
processes replace; that no run selects from two series is an action property of the expiry fixed
at the load.

*Feed and supervisor.* `OnlyTheFeed` is the frame: whoever is not the feed thread leaves the
socket, the subscriptions, the routes and the attempts alone. `RoutedInv` then adds to
`RoutedIsCarried` what holds while no socket is open: everything routed is in the adapter's books,
from which the next socket is built. The budget must be unspent while the thread lives, and the
last heartbeat follows from what is known at each point of the shutdown (`HealthInv`).

*Token bootstrap.* Everything rests on `Exclusive`: whoever is past the lock holds it. Hence what
its second look found (no cooldown, no usable token but the one to replace: `LoginIsDue`) still
holds at the request, a token that was heard is the newest there is (`AnswerIsNew`), and a rejection
that was counted is recorded or about to be (`VerdictIsKept`).

*Exit policies.* Each stateful rule's memory is specified by a history variable, the candles it has
seen since the entry: the best profit, the best close and the run of adverse closes of that
sequence, stated pointwise, so that no induction over sequences is needed. The stored snapshot has
a history of its own (`StandsFor`), and a restore exchanges the two.

*Paper broker.* An id is in one of three conditions (`Answered`): nothing is known of it; a limit
order rests, listed under its deadline, with a limit on the grid and no fill; or it was filled, is
listed no more, and its price is no better than the quote it was made on allows (`NoBargain`, in
the quote's own fields: the side traded against, or the last price and the extra ticks). The third
rests on arithmetic that is proved for every price, slippage and tick: rounding away from the
trader (an integer division up for a buy, down for a sell) gives a multiple of the tick that is at
least, or at most, what was rounded, and the limit itself bounds what a limit order is worth. A
retried id finds its answer before any rule is asked. The constants are those of the code's own
checks: `ValidConfig` is `PaperFillConfig`'s and prices and quantities are natural numbers.

*Fixture worker.* Two invariants. `CandleInv`: a bar that lost a tick carries the gap mark
(`LossIsMarked`), through outages that are noticed and silences that are not, and what is in the
queue is whole. `DayInv`: a process sells at most once (`SoldOncePerStart`), an order in hand is
the first on its candle (`OrderInHand`), and as long as nothing went wrong that the history
variable `spoiled` names, the strategy believes what the table says (`BeliefIsTrue`); `LateCandles`
then makes a late candle and an open position exclude each other.

*Notifier.* `EveryEventIsCounted` adds up the places an event may be in (delivered, failed,
dropped, queued, in either thread's hand, waiting to be handed over). It needs what each thread
holds at each of its steps (`CallerHolds`, `DrainHolds`), that the two modes use disjoint parts of
the state (`Synchronous`, `Deferred`), and the sum of all repeat counts over the keys
(`OwedIsSuppressed`), for which the set of keys is assumed finite. `Stopping` carries the last look:
once the stop is set nobody puts, so a look that finds the queue empty after it finds it as it stays.

*Warm-up.* `BarInv` says that the open bar begins on a bucket and that its last tick is not in a
later one, although a late tick may carry it back; then a tick one bucket on is the only one that
closes a bar without `SpansGap`. `CrossInv` says that what the crossover knows it has observed and
that its side is the last one signalled. `WarmUpIsSound` needs no more of the state than that what
the manager replays is a set of complete buckets in order, and all it asked for if nothing was left
out (`ManagerReplays`); the work is in the calendar. `LatestIsNewest`: the boundary is the newest
complete bucket. `ExpectedIs`: going back session by session until there are enough gives the n
newest complete ones, because each stretch reached is a newer part of the whole. `EndsInOrder`: a
rising list that holds all of a set and nothing else from its least member on ends with it, so what
was verified ends as `TrustedIsCurrent` says. `WholeFetchWarms`: the sessions asked for hold enough
buckets (`SessionsSuffice`, `DaysHoldBuckets`), the look-back budget reaches them whether the
boundary is today's or the day before's (`BackReachesAskedFor`), and a list with nothing left out
has no gap. The hypothesis `CalendarReaches` says that a session holds a whole bucket and that the
calendar begins `MaxLookback` trading days before today, as the code's does: it walks back over
calendar days until it has counted the sessions asked for, within a bound (five days a session and
fourteen more, `session.py:155`) that no ordinary run of weekends and holidays reaches.

`ExitPolicies`, `OptionChain`, `InstrumentMaster` and `Admission` have no run: each was explored by
TLC on small instances before it was proved, and the theorems replace the instances. They name
their assumptions as definitions (`PolicyParameters`, `ChainParameters`, `MasterParameters`,
`AdmissionParameters`) that are hypotheses of each theorem.

Each invariant was checked by TLC before it was proved. Liveness under fairness
(`SquareOffEndsTheDay`, `RequestEndsTheRun`, `DropsAreReported`, `GroupStops`, `RequestIsServed`,
`EveryCallReturns`, `EveryLaunchSettles`, `CloseEnds`) and
ENABLED are beyond the prover and stay with TLC. Every safety invariant a run checks is proved.

## 6. Plan

Modelled are the parts that decide what is traded and what is recorded.

An abstract specification worth stating besides the ledger and the lossy channel: one login per
need, that `TokenBootstrap` implements.

## 7. Not modelled, and why

- *Indicators and the regime filter* are floating-point recurrences; to the engine their values
  are data. WarmUp has how many bars each needs. *SuperTrend's exit* rests on them.
- *Validation of configuration* happens once and its result is frozen. *Dashboards, reporting,
  the health snapshot and logging* read and format. *Scripts* other than those that start and stop
  are command lines over the parts above.
- *Wire formats* of the market-data adapter, JWT claims and TOTP codes are data; a token given in
  the environment touches no file. The recorded adapter is for tests.
- *Audit, error and heartbeat rows* change no state another part decides on. Which rows and files
  retention removes is a comparison of dates; when it does is in Launch.
- *The live broker* does not exist: `add_worker` refuses, and `LiveNeverTradesHolds` proves what
  follows.
