------------------------- MODULE TradingEngineProps -------------------------
(***************************************************************************)
(* What must hold of TradingEngine, and what its documentation says of it. *)
(***************************************************************************)
EXTENDS TradingEngine

StoreType == /\ qty \in [Contracts -> Int] /\ record \in Contracts \cup {NoContract}
             /\ soState \in SquareOffStates \ {"FAILED"}

FlowType == /\ pc \in Pcs /\ phase \in {"feed", "except", "finally"}
            /\ then \in {"loop", "enter", "squareoff"}
            /\ authState \in {"PENDING", "COMPLETED"}

BookType == /\ book \in [contract : Contracts, qty : Int \ {0}] \cup {NoBook}
            /\ pending \in Legs \cup {NoLeg}

FlagType == /\ opFile \in BOOLEAN /\ failed \in BOOLEAN /\ overdue \in BOOLEAN
            /\ blocked \in BOOLEAN /\ halted \in BOOLEAN
            /\ requested \in BOOLEAN /\ squaredOff \in BOOLEAN
            /\ attempted \in BOOLEAN

EnvType == now \in 0 .. LastTime /\ starts \in 0 .. MaxStarts

TypeOK == StoreType /\ FlowType /\ BookType /\ FlagType /\ EnvType

-----------------------------------------------------------------------------
(* Safety.                                                                 *)

\* A strategy never holds two contracts at once, across crashes, failed
\* recoveries, opposite signals and retried square-offs: what recover_position
\* and _adopt_recovered_position fail closed for.
OneOpenPosition == Cardinality(OpenIn(qty)) <= 1

\* Whenever the engine waits for the feed, the position it manages is the one
\* the positions table holds; if it manages none although the table holds one,
\* entries are blocked ("manage nothing new", recover_position).
BookMatchesStore ==
  pc \in {"loop", "get"} =>
    \/ \A c \in Contracts : qty[c] = IF c = book.contract THEN book.qty ELSE 0
    \/ blocked /\ book = NoBook

\* No step moves a held quantity past zero or enlarges it: a close is never
\* sent twice, by a retry, by the except and finally clauses of run(), or by
\* the process that inherits a half-finished square-off.
ClosesNeverOvershoot ==
  [][\A c \in Contracts : qty[c] # 0 =>
       /\ Abs(qty'[c]) <= Abs(qty[c])
       /\ qty[c] * qty'[c] >= 0]_vars

Unmanaged == blocked /\ book = NoBook

\* The day is recorded as squared off only over an empty table, unless the
\* position left in it is one recovery refused and reported.
CompletionAfterFlat ==
  [][soState # "COMPLETED" /\ soState' = "COMPLETED" =>
       OpenIn(qty) = {} \/ Unmanaged]_vars

Entry(c) == Abs(qty'[c]) > Abs(qty[c])

\* Exposure is taken only inside the entry window, before any square-off and
\* never once the daily cap has halted the day, although the decision and the
\* fill are made at different ticks.
EntriesOnlyWhenAllowed ==
  [][\A c \in Contracts : Entry(c) => CanEnter(now) /\ ~squaredOff /\ ~halted]_vars

\* The positions table follows the abstract ledger: from flat to one whole
\* order quantity of one contract and back, whatever crashes in between.
Ledger == INSTANCE PositionLedger WITH ledger <- qty
RefinesLedger == Ledger!Spec

-----------------------------------------------------------------------------
(* Liveness.                                                               *)

\* A process that is up at the square-off time with the day not completed
\* ends its day without needing a single further tick (the wall-clock net),
\* also when it inherited an attempt that a dead process had begun.
SquareOffEndsTheDay ==
  (Up /\ SquareOffAt <= now /\ authState # "COMPLETED") ~> ~Up

\* Every request, from whatever thread, ends the run: in on_tick, on a poll
\* wake, or at the latest in run()'s finally.
RequestEndsTheRun == requested ~> ~Up

-----------------------------------------------------------------------------
(* What the documentation says and the code does not do.                   *)

\* "Refuse new entries for the rest of the day" (engine.py, block_entries):
\* no entry fills in a process whose entries are blocked.
BlockedMeansNoEntry == [][\A c \in Contracts : Entry(c) => ~blocked]_vars

\* "Open positions are managed until the hard square-off, when any position
\* is force-closed and the feed is stopped" (engine.py, Timing).
ForceClosedAtSquareOff ==
  (Up /\ SquareOffAt <= now /\ book # NoBook) ~> book = NoBook
=============================================================================
