------------------------------ MODULE FixtureDay ------------------------------
(***************************************************************************)
(* A day of the walking-skeleton worker (run_worker without an engine):    *)
(* FixtureSignalStrategy on the hub's candles, its signals through         *)
(* OrderLifecycle.handle_signal, the square-off it decides for itself, the *)
(* operator's request file, and its recovery when the runtime is started   *)
(* again on the same database, with a fresh hub.  A signal is two commits  *)
(* here, the unique row in `signals' and the last one, the fill; what lies *)
(* between them is OrderLifecycle's.  The strategy's quantity is one.      *)
(***************************************************************************)
EXTENDS Candles, SquareOffPolicy

CONSTANTS EntryOn, ExitOn,   \* entry_on_candle, exit_on_candle
          Fills,             \* what of an order may be filled: 1, or 0 when rejected
          MaxStarts          \* bound

ASSUME FixtureAssumption ==
  /\ EntryOn \in Nat \ {0} /\ ExitOn \in Nat /\ EntryOn < ExitOn
  /\ Fills \subseteq {0, 1} /\ MaxStarts \in Nat

VARIABLES
  \* --- what survives
  qty,       \* the position row
  row,       \* strategy_state: whether there is one, and square_off_state
  signals,   \* candle ends of the signals recorded
  request,   \* the operator's request file exists
  \* --- the worker
  pc,
  candle,    \* in hand
  requested,     \* operator_request, read with it
  so,        \* square_off_state
  seen, holds, \* the strategy's candles_seen and position_open
  order,     \* the order in hand: its side, and where it returns to
  acted,
  \* --- history
  starts,
  filledAt,  \* ends of the candles an order was filled on
  spoiled    \* a crash in the middle of a square-off, a signal suppressed, an
             \* order not filled

db == <<qty, row, signals>>
strategy == <<seen, holds>>
workerVars == <<pc, candle, requested, so, strategy, order, acted>>
historyVars == <<starts, filledAt, spoiled>>
dayVars == <<db, request, workerVars, historyVars>>
fixtureVars == <<candleVars, dayVars>>

NoCandle == [start |-> -1, end |-> -1, hole |-> FALSE]
NoOrder == [side |-> 0, back |-> "idle"]
Pcs == {"down", "stopped", "idle", "squareOff", "fill", "save", "complete", "clear"}
WorkerAlive == pc \notin {"down", "stopped"}

FixtureInit ==
  /\ CandleInit
  /\ qty = 0 /\ row = [known |-> FALSE, so |-> "PENDING"] /\ signals = {} /\ request = FALSE
  /\ pc = "down" /\ candle = NoCandle /\ requested = FALSE /\ so = "PENDING"
  /\ seen = 0 /\ holds = FALSE /\ order = NoOrder /\ acted = FALSE
  /\ starts = 0 /\ filledAt = {} /\ spoiled = FALSE

-----------------------------------------------------------------------------
(* Starting, recovering, dying.                                            *)

\* _load_square_off_state: as it was stored, IN_PROGRESS included.
LoadSquareOffState == IF row.known THEN row.so ELSE "PENDING"

\* Seeded bug: an open position is not adopted.
NothingOpen == FALSE

OpenPosition == qty # 0

\* The runtime is started: a new hub, and a worker that recovers.
Start ==
  /\ ~WorkerAlive /\ link \in {"off", "stopped"} /\ starts < MaxStarts
  /\ link' = "up" /\ opened' = now /\ bar' = NoBar /\ closed' = {} /\ queue' = <<>>
  /\ silent' = 0
  /\ pc' = "idle" /\ candle' = NoCandle /\ requested' = FALSE /\ order' = NoOrder /\ acted' = FALSE
  /\ so' = LoadSquareOffState
  /\ holds' = OpenPosition
  /\ seen' = IF OpenPosition /\ row.known THEN EntryOn ELSE 0
  /\ starts' = starts + 1
  /\ UNCHANGED <<now, db, request, filledAt, spoiled>>

InSquareOff == pc = "squareOff" \/ (pc = "fill" /\ order.back = "complete")

\* The worker dies, or an exception ends it; nothing restarts it alone.
WorkerDies ==
  /\ WorkerAlive /\ pc' = "down" /\ spoiled' = (spoiled \/ InSquareOff)
  /\ UNCHANGED <<candleVars, db, request, candle, requested, so, strategy, order, acted, starts, filledAt>>

\* The hub dies while a worker may still be there to finish its queue.
HubDies ==
  /\ link \in {"up", "dead", "down"} /\ link' = "off"
  /\ UNCHANGED <<now, opened, bar, closed, queue, silent, dayVars>>

\* scripts/square_off.py
OperatorAsks == ~request /\ request' = TRUE /\ UNCHANGED <<candleVars, db, workerVars, historyVars>>

-----------------------------------------------------------------------------
(* The loop of _run_locked.                                                *)

\* No candle in the queue's timeout, or the sentinel: a clean end.
LoopEnds ==
  /\ pc = "idle" /\ (queue # <<>> => Head(queue) = Sentinel) /\ pc' = "stopped"
  /\ queue' = IF queue = <<>> THEN queue ELSE Tail(queue)
  /\ UNCHANGED <<now, link, opened, bar, closed, silent, db, request, candle, requested, so, strategy, order,
                 acted, historyVars>>

\* record_signal finds the row of an earlier signal on this candle.
AlreadyRecorded(end) == end \in signals

\* handle_signal: the first commit, or nothing.
HandleSignal(side, end, back) ==
  IF AlreadyRecorded(end)
    THEN pc' = back /\ acted' = FALSE /\ spoiled' = TRUE /\ UNCHANGED <<signals, order>>
    ELSE /\ signals' = signals \cup {end} /\ order' = [side |-> side, back |-> back]
         /\ pc' = "fill" /\ UNCHANGED <<acted, spoiled>>

\* The rest of handle_signal.  A fill writes the day's row with the position.
Fill ==
  /\ pc = "fill"
  /\ \E f \in Fills :
       /\ qty' = qty + order.side * f /\ acted' = (f > 0)
       /\ filledAt' = IF f > 0 THEN filledAt \cup {candle.end} ELSE filledAt
       /\ spoiled' = (spoiled \/ f = 0)
       /\ row' = IF f > 0 THEN [row EXCEPT !.known = TRUE] ELSE row
  /\ pc' = order.back
  /\ UNCHANGED <<candleVars, signals, request, candle, requested, so, strategy, order, starts>>

\* FixtureSignalStrategy.on_candle: what it believes changes before the order.
OnCandle(end) ==
  LET n == seen + 1 IN
  /\ seen' = n
  /\ IF n = EntryOn /\ ~holds THEN holds' = TRUE /\ HandleSignal(1, end, "save")
     ELSE IF n = ExitOn /\ holds THEN holds' = FALSE /\ HandleSignal(-1, end, "save")
     ELSE pc' = "save" /\ UNCHANGED <<holds, signals, order, acted, spoiled>>

ReadSquareOffRequest == request

\* _maybe_square_off's decision: the ladder, or the operator.
SquareOffDue(end) ==
  TriggerAt(end, so, FALSE) = "SQUARE_OFF" \/ (ReadSquareOffRequest /\ so # "COMPLETED")

\* An exit is not looked for either once entries are over.
EntriesOver(end) == so # "PENDING" \/ end >= EntryEnd

\* Seeded bug: the file goes before the square-off is done.
ClearedOnSight == IF request THEN "clear" ELSE "squareOff"

\* The file stays until the square-off is on record.
BeginsWith == "squareOff"

TakeCandle ==
  /\ pc = "idle" /\ queue # <<>> /\ Head(queue) # Sentinel
  /\ candle' = Head(queue) /\ queue' = Tail(queue) /\ requested' = ReadSquareOffRequest
  /\ LET end == Head(queue).end IN
     IF SquareOffDue(end)
       THEN /\ row' = [known |-> TRUE, so |-> "IN_PROGRESS"] /\ pc' = BeginsWith
            /\ UNCHANGED <<strategy, signals, order, acted, spoiled>>
     ELSE IF EntriesOver(end)
       THEN UNCHANGED <<pc, row, strategy, signals, order, acted, spoiled>>
     ELSE OnCandle(end) /\ UNCHANGED row
  /\ UNCHANGED <<now, link, opened, bar, closed, silent, qty, request, so, starts, filledAt>>

\* FixtureSignalStrategy.square_off_signal: one order, or none.
SquareOffSignal == holds /\ holds' = FALSE

\* What it asks for, through handle_signal.
SquareOff ==
  /\ pc = "squareOff"
  /\ \/ SquareOffSignal /\ HandleSignal(-1, candle.end, "complete")
     \/ /\ ~holds /\ pc' = "complete" /\ acted' = FALSE
        /\ UNCHANGED <<holds, signals, order, spoiled>>
  /\ UNCHANGED <<candleVars, qty, row, request, candle, requested, so, seen, starts, filledAt>>

\* The worker leaves its loop when the square-off traded.
AfterSquareOff == pc' = IF acted THEN "stopped" ELSE "idle"

\* Recorded whatever became of the order.
SaveCompleted ==
  /\ pc = "complete" /\ row' = [known |-> TRUE, so |-> "COMPLETED"] /\ so' = "COMPLETED"
  /\ IF requested THEN pc' = "clear" ELSE AfterSquareOff
  /\ UNCHANGED <<candleVars, qty, signals, request, candle, requested, strategy, order, acted, historyVars>>

ClearRequest ==
  /\ pc = "clear" /\ request' = FALSE /\ AfterSquareOff
  /\ UNCHANGED <<candleVars, db, candle, requested, so, strategy, order, acted, historyVars>>

\* save_strategy_state leaves square_off_state as it is.
SaveState ==
  /\ pc = "save" /\ row' = [row EXCEPT !.known = TRUE] /\ pc' = "idle"
  /\ UNCHANGED <<candleVars, qty, signals, request, candle, requested, so, strategy, order, acted,
                 historyVars>>

WorkerStep == LoopEnds \/ TakeCandle \/ Fill \/ SquareOff \/ SaveCompleted \/ ClearRequest \/ SaveState

FixtureNext ==
  \/ (HubStep \/ Advance) /\ UNCHANGED dayVars
  \/ WorkerStep \/ Start \/ WorkerDies \/ HubDies \/ OperatorAsks

FixtureSpec == FixtureInit /\ [][FixtureNext]_fixtureVars
=============================================================================
