---------------------------- MODULE TradingEngine ----------------------------
(***************************************************************************)
(* One strategy's trading day in one worker process, as the engine path    *)
(* runs it: HubTickFeed's loop, TradingEngine.on_tick and the handlers     *)
(* under it, PositionManager, LifecycleGateway, the persisted square-off   *)
(* authority, and restart recovery.  The process may crash between any two *)
(* database commits and be started again on what it had committed; other   *)
(* threads and an operator may ask for a square-off at any moment.         *)
(*                                                                         *)
(* Prices, candles and profit are abstracted to the decisions they lead    *)
(* to: a tick may or may not produce a signal, an exit or a tripped daily  *)
(* loss cap.  The transactions inside one order are those of module        *)
(* OrderLifecycle; here an order is the one commit that moves the position *)
(* (ExecutionRepository.apply_fill).                                       *)
(***************************************************************************)
EXTENDS Integers, FiniteSets, SquareOffPolicy

CONSTANTS Contracts,    \* option contracts the selector may pick
          NoContract,
          OptionType,   \* contract -> option type (call, put)
          Sides,        \* of the strategy's entries: 1 buys, -1 writes
          LotSize, Lots,
          Partials,     \* quantities a fill may stop short at; {} for the
                        \* default fill policy, which fills whole orders
          StoreFaults,  \* TRUE: a database write may raise
          LiveDay,      \* TRUE: the wall clock's date is the trading date
          LastTime, MaxStarts   \* bounds

Quantity == Lots * LotSize

ASSUME EngineAssumption ==
  /\ NoContract \notin Contracts
  /\ Sides \subseteq {1, -1}
  /\ LotSize \in Nat \ {0} /\ Lots \in Nat \ {0}
  /\ Partials \subseteq 1 .. (Quantity - 1)
  /\ StoreFaults \in BOOLEAN /\ LiveDay \in BOOLEAN
  /\ LastTime \in Nat /\ MaxStarts \in Nat

VARIABLES
  \* --- the database and the request file: what survives a crash
  qty,        \* positions.quantity per contract, signed; 0 is CLOSED or absent
  record,     \* strategy_state.payload's open_position record
  soState,    \* strategy_state.square_off_state
  opFile,     \* the operator's square-off request file exists
  \* --- the process
  pc,         \* where the engine's thread is
  phase,      \* which clause of TradingEngine.run it is in
  then,       \* what follows the close in progress
  book,       \* PositionManager's position; quantity is lots * lot_size, signed
  pending,    \* _pending and _pending_side
  blocked,    \* _entry_blocked is set
  halted,     \* DailyRiskGuard.halted
  requested,  \* _square_off_requested is set
  squaredOff, \* _squared_off
  authState,  \* PersistedSquareOffAuthority._state
  attempted,  \* PersistedSquareOffAuthority._attempt_recorded
  failed,     \* an exception is on its way out of run()
  \* --- the environment
  now,        \* the clock, and the exchange time of the tick in hand
  overdue,    \* the contract's expiry lead has passed (holding_overdue)
  starts      \* processes started so far

store  == <<qty, record, soState, opFile>>
memory == <<book, pending, blocked, halted, requested, squaredOff,
            authState, attempted>>
flow   == <<pc, phase, then, failed>>
env    == <<now, overdue, starts>>
vars   == <<store, memory, flow, env>>

NoLeg    == [contract |-> NoContract, side |-> 0]
NoBook   == [contract |-> NoContract, qty |-> 0]
Legs     == [contract : Contracts, side : Sides]

Pcs == {"down",       \* no process
        "loop",       \* HubTickFeed.run, before on_poll
        "get",        \* blocked in the tick queue's get
        "buy",        \* an entry order is about to be placed
        "bought",     \* its fill is committed
        "sell",       \* a closing order is about to be placed
        "sold",       \* its fill is committed
        "closed",     \* and the contract record is updated
        "squareoff",  \* entering (or re-entering) _handle_square_off
        "completing", \* the book is empty; the completion is to be recorded
        "finally",    \* feed.run has returned or raised
        "exit"}       \* run() is over; run_engine finishes

Up == pc # "down"
Abs(n) == IF n < 0 THEN -n ELSE n
Sign(n) == IF n < 0 THEN -1 ELSE 1
Opposite(side) == IF side = 1 THEN -1 ELSE 1
OpenIn(q) == {c \in Contracts : q[c] # 0}

Init ==
  /\ qty = [c \in Contracts |-> 0] /\ record = NoContract
  /\ soState = "PENDING" /\ opFile = FALSE
  /\ pc = "down" /\ phase = "feed" /\ then = "loop" /\ failed = FALSE
  /\ book = NoBook /\ pending = NoLeg /\ blocked = FALSE /\ halted = FALSE
  /\ requested = FALSE /\ squaredOff = FALSE
  /\ authState = "PENDING" /\ attempted = FALSE
  /\ now = 0 /\ overdue \in BOOLEAN /\ starts = 0

-----------------------------------------------------------------------------
(* Start-up and the end of the process.                                    *)

\* recover_position's cross-check of the two records; failing it, it raises.
Recoverable(c) == record = c /\ Abs(qty[c]) % LotSize = 0

\* PositionManager.adopt: the table's signed quantity, in lots and a side.
Adopted(c) == [contract |-> c, qty |-> qty[c]]

\* _adopt_recovered_position: take over what the table holds open, placing
\* no order, or block entries for the day when that cannot be established.
Adopt(otherBlock) ==
  \/ /\ OpenIn(qty) = {}
     /\ book' = NoBook /\ blocked' = otherBlock
  \/ \E c \in OpenIn(qty) :
       /\ Recoverable(c)
       /\ book' = Adopted(c) /\ blocked' = otherBlock
  \/ /\ StoreFaults \/ \E c \in OpenIn(qty) : ~Recoverable(c)
     /\ book' = NoBook /\ blocked' = TRUE

\* Seeded bug: an attempt of a dead process is taken for one in flight.
LoadedAsStored == soState

\* PersistedSquareOffAuthority._load_state: whoever wrote IN_PROGRESS is dead.
LoadedState == IF soState = "IN_PROGRESS" THEN "PENDING" ELSE soState

\* _restore_daily_risk: a guard restored from an earlier process's trades may
\* be halted already.
RestoreDailyRisk == \E restored \in BOOLEAN : halted' = (restored /\ starts > 0)

\* run_engine up to the first poll: _build, _start_day, _warm_up.  Warm-up
\* and a daily-risk recovery that raises may block entries.
StartProcess ==
  /\ pc = "down" /\ starts < MaxStarts
  /\ starts' = starts + 1
  /\ authState' = LoadedState /\ attempted' = FALSE
  /\ RestoreDailyRisk
  /\ \E otherBlock \in BOOLEAN : Adopt(otherBlock)
  /\ pc' = "loop"
  /\ UNCHANGED <<store, phase, then, failed, pending, requested, squaredOff,
                 now, overdue>>

\* What a dead process leaves in memory: nothing.
GoDown ==
  /\ pc' = "down" /\ phase' = "feed" /\ then' = "loop" /\ failed' = FALSE
  /\ book' = NoBook /\ pending' = NoLeg /\ blocked' = FALSE /\ halted' = FALSE
  /\ requested' = FALSE /\ squaredOff' = FALSE
  /\ authState' = "PENDING" /\ attempted' = FALSE

Crash == Up /\ GoDown /\ UNCHANGED <<store, env>>

\* run_engine's tail.  The operator's request is consumed only by an orderly
\* return with the completion persisted.
ProcessExit ==
  /\ pc = "exit" /\ GoDown
  /\ opFile' = (opFile /\ (failed \/ soState # "COMPLETED"))
  /\ UNCHANGED <<qty, record, soState, env>>

\* An exception leaves the current clause of TradingEngine.run: the feed's
\* is caught and squares off, that one's is carried through the finally.
Raise ==
  /\ failed' = TRUE
  /\ \/ phase = "feed"    /\ phase' = "except"  /\ pc' = "squareoff"
     \/ phase = "except"  /\ phase' = "except"  /\ pc' = "finally"
     \/ phase = "finally" /\ phase' = "finally" /\ pc' = "exit"

EnterFinally ==
  /\ pc = "finally"
  /\ phase' = "finally"
  /\ pc' = IF requested THEN "squareoff" ELSE "exit"
  /\ UNCHANGED <<store, memory, then, failed, env>>

-----------------------------------------------------------------------------
(* Requests from other threads, the operator and the clock.                *)

\* request_square_off from a signal handler or the candle-drain thread.
RequestSquareOff ==
  /\ Up /\ pc # "exit" /\ ~requested /\ requested' = TRUE
  /\ UNCHANGED <<store, book, pending, blocked, halted, squaredOff, authState,
                 attempted, flow, env>>

\* scripts/square_off.py writes its request file.
OperatorRequests ==
  /\ ~opFile /\ opFile' = TRUE
  /\ UNCHANGED <<qty, record, soState, memory, flow, env>>

\* A handler works with the time of the tick that started it, so the clock
\* moves only while the thread waits (or there is none).
Advance ==
  /\ now < LastTime /\ pc \in {"get", "down"} /\ now' = now + 1
  /\ UNCHANGED <<store, memory, flow, overdue, starts>>

-----------------------------------------------------------------------------
(* HubTickFeed.run: on_poll, should_stop, then the queue.                  *)

Due == TriggerAt(now, authState, overdue) = "SQUARE_OFF"

\* authority.due answering TRUE: the first time, the attempt is recorded.
RecordAttempt ==
  /\ attempted' = TRUE
  /\ soState' = IF attempted THEN soState ELSE "IN_PROGRESS"

\* ... and the write may raise out of due(), already marked as recorded.
AttemptFails ==
  /\ StoreFaults /\ ~attempted /\ attempted' = TRUE /\ Raise
  /\ UNCHANGED <<store, book, pending, blocked, halted, requested, squaredOff,
                 authState, then, env>>

\* Seeded bug: should_stop not wired, so a request waits for a tick.
PollStopIgnored ==
  /\ pc = "loop" /\ requested /\ pc' = "get"
  /\ UNCHANGED <<store, memory, phase, then, failed, env>>

PollStop ==
  /\ pc = "loop" /\ requested /\ pc' = "finally"
  /\ UNCHANGED <<store, memory, phase, then, failed, env>>

\* Seeded bug: the wall-clock net notices and does not ask.
WallClockPollSilent ==
  /\ pc = "loop" /\ ~requested /\ LiveDay /\ Due /\ pc' = "get"
  /\ UNCHANGED <<store, memory, phase, then, failed, env>>

\* _wall_clock_square_off, then should_stop on the same wake.
WallClockPoll ==
  /\ pc = "loop" /\ ~requested /\ LiveDay /\ Due
  /\ \/ /\ RecordAttempt /\ requested' = TRUE /\ pc' = "finally"
        /\ UNCHANGED <<qty, record, opFile, book, pending, blocked, halted,
                       squaredOff, authState, phase, then, failed, env>>
     \/ AttemptFails

\* _operator_requested_square_off, then should_stop on the same wake.
OperatorPoll ==
  /\ pc = "loop" /\ ~requested /\ ~(LiveDay /\ Due) /\ opFile
  /\ requested' = TRUE /\ pc' = "finally"
  /\ UNCHANGED <<store, book, pending, blocked, halted, squaredOff, authState,
                 attempted, phase, then, failed, env>>

PollContinues ==
  /\ pc = "loop" /\ ~requested /\ ~(LiveDay /\ Due) /\ ~opFile /\ pc' = "get"
  /\ UNCHANGED <<store, memory, phase, then, failed, env>>

QuietPoll ==
  /\ pc = "get" /\ pc' = "loop"
  /\ UNCHANGED <<store, memory, phase, then, failed, env>>

IdleTimeout ==
  /\ pc = "get" /\ pc' = "finally"
  /\ UNCHANGED <<store, memory, phase, then, failed, env>>

\* The supervisor's shutdown sentinel on the tick queue.
Sentinel ==
  /\ pc = "get" /\ pc' = "finally" /\ requested' = TRUE
  /\ UNCHANGED <<store, book, pending, blocked, halted, squaredOff, authState,
                 attempted, phase, then, failed, env>>

\* A TickDropNotice: this worker's candles may be wrong from here on.
DropNotice ==
  /\ pc = "get" /\ pc' = "loop" /\ blocked' = TRUE
  /\ UNCHANGED <<store, book, pending, halted, requested, squaredOff,
                 authState, attempted, phase, then, failed, env>>

-----------------------------------------------------------------------------
(* TradingEngine.on_tick.  A tick that decides nothing (no candle closed,  *)
(* a gap bar, no signal, an exit with nothing open, an already-processed   *)
(* candle) leaves this state as QuietPoll does.                            *)

TickHonoursRequest ==
  /\ pc = "get" /\ requested /\ pc' = "squareoff"
  /\ UNCHANGED <<store, memory, phase, then, failed, env>>

TickSquareOff ==
  /\ pc = "get" /\ ~requested /\ Due
  /\ \/ /\ RecordAttempt /\ pc' = "squareoff"
        /\ UNCHANGED <<qty, record, opFile, book, pending, blocked, halted,
                       requested, squaredOff, authState, phase, then, failed, env>>
     \/ AttemptFails

TickIsRouted == pc = "get" /\ ~requested /\ ~Due

\* _enter: queue the selected contract, replacing one already queued.
MayQueue(isHalted) == CanEnter(now) /\ ~blocked /\ ~isHalted

BeginClose(next) == pc' = "sell" /\ then' = next

\* _on_candle_close with an EXIT signal for the open position.
ExitSignal ==
  /\ TickIsRouted /\ IsOpen(now) /\ book # NoBook
  /\ BeginClose("loop")
  /\ UNCHANGED <<store, memory, phase, failed, env>>

SameLeg(leg) ==
  /\ OptionType[leg.contract] = OptionType[book.contract]
  /\ leg.side = Sign(book.qty)

\* _on_candle_close with an ENTER signal: flat, it queues the entry; an open
\* opposite leg is closed first (FinishClose then queues the entry).
EnterSignal ==
  /\ TickIsRouted /\ IsOpen(now)
  /\ \/ /\ book = NoBook /\ MayQueue(halted)
        /\ \E leg \in Legs : pending' = leg
        /\ pc' = "loop" /\ UNCHANGED <<book, then>>
     \/ /\ book # NoBook /\ \E leg \in Legs : ~SameLeg(leg)
        /\ BeginClose("enter") /\ UNCHANGED <<book, pending>>
  /\ UNCHANGED <<store, blocked, halted, requested, squaredOff, authState,
                 attempted, phase, failed, env>>

\* _on_option_tick for the open position: a risk, strategy or premium-candle
\* exit, or the daily loss cap tripping on the live mark.
ExitTick ==
  /\ TickIsRouted /\ book # NoBook
  /\ \E trips \in BOOLEAN : halted' = (halted \/ trips)
  /\ BeginClose("loop")
  /\ UNCHANGED <<store, book, pending, blocked, requested, squaredOff,
                 authState, attempted, phase, failed, env>>

\* Seeded bug: the entry window is not asked again at the fill.
PendingTickUnchecked ==
  /\ TickIsRouted /\ pending # NoLeg /\ book = NoBook /\ pc' = "buy"
  /\ UNCHANGED <<store, memory, phase, then, failed, env>>

\* _on_option_tick for the pending contract: the entry is placed at its
\* first tick inside the entry window, and dropped by one outside.
PendingTick ==
  /\ TickIsRouted /\ pending # NoLeg /\ book = NoBook
  /\ IF CanEnter(now)
       THEN pc' = "buy" /\ UNCHANGED pending
       ELSE pc' = "loop" /\ pending' = NoLeg
  /\ UNCHANGED <<store, book, blocked, halted, requested, squaredOff,
                 authState, attempted, phase, then, failed, env>>

-----------------------------------------------------------------------------
(* PositionManager.open and close through LifecycleGateway.  An order is   *)
(* filled, refused (nothing committed), or stops short: the gateway raises *)
(* on everything but a whole fill (_require_a_fill).                       *)

\* What an order may trade before it is done (the broker's fill policy).
Fills(wanted) == {0, wanted} \cup {p \in Partials : p < wanted}

\* ExecutionRepository.apply_fill: the table's position moves by the fill.
ApplyFill(c, side, filled) == qty' = [qty EXCEPT ![c] = @ + side * filled]

\* The side that closes the book's position.
ExitSide == Opposite(Sign(book.qty))

\* The gateway goes on only from a whole fill.
RequireAFill(filled, wanted, next) ==
  \/ filled = wanted /\ pc' = next /\ UNCHANGED <<phase, failed>>
  \/ filled # wanted /\ Raise

PlaceEntry ==
  /\ pc = "buy"
  /\ \E filled \in Fills(Quantity) :
       /\ ApplyFill(pending.contract, pending.side, filled)
       /\ RequireAFill(filled, Quantity, "bought")
  /\ UNCHANGED <<record, soState, opFile, memory, then, env>>

\* _record_contract: the table decides whether this was an open or a close.
\* A write that fails is logged.
RecordContract(c) ==
  \/ record' = IF qty[c] # 0 THEN c ELSE NoContract
  \/ StoreFaults /\ UNCHANGED record

RecordEntry ==
  /\ pc = "bought"
  /\ RecordContract(pending.contract)
  /\ book' = [contract |-> pending.contract, qty |-> pending.side * Quantity]
  /\ pending' = NoLeg /\ pc' = "loop"
  /\ UNCHANGED <<qty, soState, opFile, blocked, halted, requested, squaredOff,
                 authState, attempted, phase, then, failed, env>>

\* Seeded bug: an order that did not trade is reported as a whole fill.
PlaceExitFabricated ==
  LET held == Abs(book.qty)
  IN /\ pc = "sell" /\ pc' = "sold"
     /\ \E filled \in {0, held} :
          ApplyFill(book.contract, ExitSide, filled)
     /\ UNCHANGED <<record, soState, opFile, memory, phase, then, failed, env>>

PlaceExit ==
  /\ pc = "sell"
  /\ LET held == Abs(book.qty)
     IN \E filled \in Fills(held) :
          /\ ApplyFill(book.contract, ExitSide, filled)
          /\ RequireAFill(filled, held, "sold")
  /\ UNCHANGED <<record, soState, opFile, memory, then, env>>

RecordExit ==
  /\ pc = "sold"
  /\ RecordContract(book.contract)
  /\ pc' = "closed"
  /\ UNCHANGED <<qty, soState, opFile, memory, phase, then, failed, env>>

\* Seeded bug: the closed position stays in the book.
FinishCloseKeepsBook ==
  /\ pc = "closed"
  /\ \E trips \in BOOLEAN : halted' = (halted \/ trips)
  /\ pc' = IF then = "squareoff" THEN "squareoff" ELSE "loop"
  /\ then' = "loop"
  /\ UNCHANGED <<store, book, pending, blocked, requested, squaredOff,
                 authState, attempted, phase, failed, env>>

\* The rest of _close: the trade is booked (it may trip the daily cap), the
\* position leaves the book; then whatever the close was part of goes on.
FinishClose ==
  /\ pc = "closed"
  /\ book' = NoBook
  /\ \E trips \in BOOLEAN : halted' = (halted \/ trips)
  /\ pc' = IF then = "squareoff" THEN "squareoff" ELSE "loop"
  /\ then' = "loop"
  /\ IF then = "enter" /\ MayQueue(halted')
       THEN \E leg \in Legs : ~SameLeg(leg) /\ pending' = leg
       ELSE UNCHANGED pending
  /\ UNCHANGED <<store, blocked, requested, squaredOff, authState, attempted,
                 phase, failed, env>>

-----------------------------------------------------------------------------
(* _handle_square_off.                                                     *)

\* Returning from it: to the feed, which has been stopped, to the except
\* clause, which re-raises, or to the end of the finally clause.
SquareOffReturns == pc' = IF phase = "finally" THEN "exit" ELSE "finally"

\* Seeded bug: the completion is recorded before the closes.
SquareOffOptimistic ==
  /\ pc = "squareoff"
  /\ \/ squaredOff /\ SquareOffReturns /\ UNCHANGED squaredOff
     \/ ~squaredOff /\ squaredOff' = TRUE /\ pc' = "completing"
  /\ UNCHANGED <<store, book, pending, blocked, halted, requested, authState,
                 attempted, then, phase, failed, env>>

SquareOff ==
  /\ pc = "squareoff"
  /\ \/ /\ squaredOff /\ SquareOffReturns /\ UNCHANGED <<then, squaredOff>>
     \/ /\ ~squaredOff /\ book # NoBook
        /\ BeginClose("squareoff") /\ UNCHANGED squaredOff
     \/ /\ ~squaredOff /\ book = NoBook
        /\ squaredOff' = TRUE /\ pc' = "completing" /\ UNCHANGED then
  /\ UNCHANGED <<store, book, pending, blocked, halted, requested, authState,
                 attempted, phase, failed, env>>

\* authority.completed: idempotent, and once per process.
RecordCompletion ==
  /\ pc = "completing"
  /\ authState' = "COMPLETED"
  /\ \/ /\ soState' = IF authState = "COMPLETED" THEN soState ELSE "COMPLETED"
        /\ SquareOffReturns /\ UNCHANGED <<phase, failed>>
     \/ StoreFaults /\ authState # "COMPLETED" /\ Raise /\ UNCHANGED soState
  /\ UNCHANGED <<qty, record, opFile, book, pending, blocked, halted,
                 requested, squaredOff, attempted, then, env>>

-----------------------------------------------------------------------------

Poll == PollStop \/ WallClockPoll \/ OperatorPoll \/ PollContinues

OnTick == \/ TickHonoursRequest \/ TickSquareOff \/ ExitSignal \/ EnterSignal
          \/ ExitTick \/ PendingTick

Handler == \/ PlaceEntry \/ RecordEntry \/ PlaceExit \/ RecordExit
           \/ FinishClose \/ SquareOff \/ RecordCompletion

\* What the engine's thread does when it is scheduled.
EngineStep == \/ Poll \/ QuietPoll \/ Sentinel \/ DropNotice \/ IdleTimeout
              \/ OnTick \/ Handler \/ EnterFinally \/ ProcessExit

Next == \/ EngineStep \/ StartProcess \/ Crash
        \/ RequestSquareOff \/ OperatorRequests \/ Advance

Spec == Init /\ [][Next]_vars

\* The operating system schedules the engine's thread, and the poll timeout
\* wakes it when no tick arrives; nothing is assumed of ticks, requests or
\* restarts.  The clock never stops: a model step of the handlers only
\* postpones it, hence strong fairness.
FairSpec == Spec /\ WF_vars(EngineStep) /\ SF_vars(Advance)

=============================================================================
