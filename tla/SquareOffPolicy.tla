--------------------------- MODULE SquareOffPolicy ---------------------------
(***************************************************************************)
(* The clock decisions of one trading day, as pure operators: the session  *)
(* windows of common/engine/session.py and the square-off ladder of        *)
(* common/risk/squareoff.py.  Times of day are natural numbers; the        *)
(* session's bounds are derived from the policy                            *)
(* (SessionConfig.from_square_off_policy), so both modules of the code     *)
(* share the three constants below.                                        *)
(***************************************************************************)
EXTENDS Naturals

CONSTANTS SessionStart,   \* MarketSession.start
          EntryEnd,       \* SquareOffPolicy.entry_cutoff = MarketSession.end
          SquareOffAt     \* SquareOffPolicy.square_off_at = MarketSession.square_off

\* SquareOffPolicy.__post_init__ refuses square_off_at < entry_cutoff.
ASSUME ClockAssumption ==
  /\ SessionStart \in Nat /\ EntryEnd \in Nat /\ SquareOffAt \in Nat
  /\ EntryEnd <= SquareOffAt

\* No code of the engine writes FAILED; one that is read back stays as it is.
SquareOffStates == {"PENDING", "IN_PROGRESS", "COMPLETED", "FAILED"}

\* A tick of the underlying is turned into candles only inside this window.
IsOpen(ts) == SessionStart <= ts /\ ts <= SquareOffAt

\* A new position may be opened only inside this window; the end is exclusive.
CanEnter(ts) == SessionStart <= ts /\ ts < EntryEnd

\* What should happen at ts.  Persisted progress is consulted before the
\* clock, and an overdue expiry before the time-of-day ladder.
TriggerAt(ts, state, overdue) ==
  IF state # "PENDING" THEN "NONE"
  ELSE IF overdue \/ SquareOffAt <= ts THEN "SQUARE_OFF"
  ELSE IF EntryEnd <= ts THEN "BLOCK_NEW_ENTRIES"
  ELSE "NONE"
=============================================================================
