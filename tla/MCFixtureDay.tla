----------------------------- MODULE MCFixtureDay -----------------------------
(***************************************************************************)
(* What the fixture worker's day promises, and the instance TLC explores.  *)
(***************************************************************************)
EXTENDS FixtureDay

FixtureTypeOK ==
  /\ now \in Times /\ link \in Links /\ opened \in Times /\ silent \in Times
  /\ bar = NoBar \/ (bar.first \in Times /\ bar.start = FloorToInterval(bar.first)
                    /\ {bar.gap, bar.hole} \subseteq BOOLEAN)
  /\ closed \subseteq Times /\ Len(queue) <= Depth
  /\ qty \in -MaxStarts .. 1 /\ row.known \in BOOLEAN /\ row.so \in SquareOffStates /\ so \in SquareOffStates
  /\ pc \in Pcs /\ order.side \in {-1, 0, 1} /\ order.back \in Pcs
  /\ {request, requested, holds, acted, spoiled} \subseteq BOOLEAN
  /\ seen \in Nat /\ starts \in 0 .. MaxStarts

\* Nothing is bought once a square-off was begun or the cutoff passed, by
\* this process or one started after it (squareoff.py: a restart must not
\* re-open entries).
EntriesStayClosed == [][qty' > qty => row.so = "PENDING" /\ candle.end < EntryEnd]_fixtureVars

\* The operator's request is there until a square-off is on record, so that
\* no crash loses it (square_off_requests.py).
RequestIsKept == [][request /\ ~request' => row.so = "COMPLETED"]_fixtureVars

\* One completed candle creates one order (record_signal), even when a
\* restart inside its interval builds it a second time.
OneOrderPerCandle == [][qty' # qty => candle.end \notin filledAt]_fixtureVars

\* The worker is given whole candles, each once.
CandlesAreSound == FixtureTypeOK /\ NeverRepublished /\ NoHoleAfterFirst

\* What one process settled, the next does not undo.
DayIsKept == EntriesStayClosed /\ RequestIsKept /\ OneOrderPerCandle

ClosedBySquareOff ==
  pc \in {"idle", "stopped"} /\ candle.end >= SquareOffAt => qty = 0

\* A worker that has dealt with a candle of the square-off time or later is
\* flat, across crashes anywhere but in the middle of a square-off, as long
\* as its orders fill and no signal falls on a candle signalled on before.
HonestDayIsFlat == ~spoiled => ClosedBySquareOff

\* squareoff.py: "the decision is a pure function of (clock, persisted state)
\* so a recovering worker reaches the same conclusion as the one that died".
RecoveringWorkerSquaresOff == ClosedBySquareOff
=============================================================================
