------------------------- MODULE TradingEngineProofs -------------------------
(***************************************************************************)
(* Theorems about TradingEngine for every set of contracts, every lot      *)
(* size, every number of restarts and every length of day.                 *)
(*                                                                         *)
(* The properties are not inductive: what keeps a second position out is   *)
(* a relation between the table, the book and the pending entry that       *)
(* differs from one program counter to the next.  Inv collects it.         *)
(***************************************************************************)
EXTENDS TradingEngineProps, TLAPS, FiniteSetTheorems

Waiting == {"loop", "get"}

\* At most one contract is open in the table.
AtMostOne == \A c, d \in Contracts : qty[c] # 0 /\ qty[d] # 0 => c = d

\* The book names the only contract that can be open.
BookIsWhere == book # NoBook => \A c \in Contracts \ {book.contract} : qty[c] = 0

\* While waiting, the book is what the table holds; an empty book with a
\* position in the table is a blocked one.
WaitingAgrees ==
  pc \in Waiting =>
    /\ book # NoBook => qty[book.contract] = book.qty
    /\ book = NoBook /\ ~blocked => \A c \in Contracts : qty[c] = 0

\* An entry is queued, and its order placed, only from flat.
PendingIsFlat ==
  pending # NoLeg =>
    /\ book = NoBook
    /\ pc \in Waiting \cup {"buy"} => \A c \in Contracts : qty[c] = 0

EntryInProgress ==
  /\ pc \in {"buy", "bought"} => pending # NoLeg
  /\ pc = "bought" =>
       /\ qty[pending.contract] = pending.side * Quantity
       /\ \A c \in Contracts \ {pending.contract} : qty[c] = 0

\* A close has a position to close; unless it follows a failed one, the table
\* holds what the book says before it and nothing after it.
CloseInProgress ==
  /\ pc \in {"sell", "sold", "closed"} => book # NoBook
  /\ pc = "sell" /\ then # "squareoff" => qty[book.contract] = book.qty
  /\ pc \in {"sold", "closed"} /\ then # "squareoff" => qty[book.contract] = 0

\* With whole fills only, that is so of every close.
WholeFills ==
  Partials = {} /\ book # NoBook =>
    qty[book.contract] = IF pc \in {"sold", "closed"} THEN 0 ELSE book.qty

\* A dead process leaves no queued entry to the next.
DownIsEmpty == pc = "down" => pending = NoLeg

Agreement == /\ AtMostOne /\ BookIsWhere /\ WaitingAgrees /\ PendingIsFlat
             /\ EntryInProgress /\ CloseInProgress /\ WholeFills /\ DownIsEmpty

Inv == TypeOK /\ Agreement

-----------------------------------------------------------------------------

LEMMA QuantityIsPositive == Quantity \in Nat /\ Quantity > 0
<1>1. ASSUME NEW m \in Nat \ {0}, NEW n \in Nat \ {0} PROVE m * n \in Nat /\ m * n > 0
  OBVIOUS
<1> QED BY <1>1, EngineAssumption DEF Quantity

LEMMA SignTimesAbs ==
  ASSUME NEW n \in Int
  PROVE  /\ Opposite(Sign(n)) \in {1, -1} /\ Abs(n) \in Nat
         /\ Opposite(Sign(n)) * Abs(n) = -n /\ Opposite(Sign(n)) * 0 = 0
         /\ n # 0 => Abs(n) # 0
<1>1. CASE n < 0
  <2>1. Abs(n) = -n /\ Opposite(Sign(n)) = 1
    BY <1>1 DEF Sign, Abs, Opposite
  <2> QED BY <1>1, <2>1
<1>2. CASE ~(n < 0)
  <2>1. Abs(n) = n /\ Opposite(Sign(n)) = -1
    BY <1>2 DEF Sign, Abs, Opposite
  <2> QED BY <1>2, <2>1
<1> QED BY <1>1, <1>2

LEMMA IntTimes == ASSUME NEW m \in Int, NEW n \in Int PROVE m * n \in Int
OBVIOUS

LEMMA MoveKeepsInt ==
  ASSUME NEW q \in [Contracts -> Int], NEW c, NEW k \in Int
  PROVE  [q EXCEPT ![c] = @ + k] \in [Contracts -> Int]
<1>1. \A d \in Contracts : q[d] \in Int /\ q[d] + k \in Int
  OBVIOUS
<1>2. ASSUME NEW v, c \in Contracts => v \in Int
      PROVE  [q EXCEPT ![c] = v] \in [Contracts -> Int]
  BY <1>2
<1> QED BY <1>1, <1>2

LEMMA SidesAreSigns == \A s \in Sides : s = 1 \/ s = -1
BY EngineAssumption

LEMMA PartialsAreSmall == \A p \in Partials : p \in Int /\ 0 < p /\ p < Quantity
BY EngineAssumption, QuantityIsPositive

\* The initial state satisfies the invariant.
LEMMA InitInv == Init => Inv
<1> SUFFICES ASSUME Init PROVE Inv
  OBVIOUS
<1> USE DEF Init
<1>1. StoreType /\ FlowType /\ BookType
  BY DEF StoreType, FlowType, BookType, SquareOffStates, Pcs
<1>2. FlagType
  BY DEF FlagType
<1>3. EnvType
  BY EngineAssumption DEF EnvType
<1>4. AtMostOne /\ BookIsWhere /\ WaitingAgrees /\ PendingIsFlat
  BY DEF AtMostOne, BookIsWhere, WaitingAgrees, PendingIsFlat, Waiting
<1>5. EntryInProgress /\ CloseInProgress /\ WholeFills /\ DownIsEmpty
  BY DEF EntryInProgress, CloseInProgress, WholeFills, DownIsEmpty
<1> QED BY <1>1, <1>2, <1>3, <1>4, <1>5 DEF Inv, Agreement, TypeOK

\* Flags stay Boolean.
LEMMA FlagStep == FlagType /\ [Next]_vars => FlagType'
<1> SUFFICES ASSUME FlagType, [Next]_vars PROVE FlagType'
  OBVIOUS
<1> USE DEF FlagType
<1> USE DEF vars, store, memory, flow, env
<1>1. CASE StartProcess
  BY <1>1 DEF StartProcess, Adopt, Adopted, RestoreDailyRisk, LoadedState, OpenIn, Recoverable
<1>2. CASE Crash
  BY <1>2 DEF Crash, GoDown, Up
<1>3. CASE ProcessExit
  BY <1>3 DEF ProcessExit, GoDown
<1>4. CASE EnterFinally
  BY <1>4 DEF EnterFinally
<1>5. CASE RequestSquareOff
  BY <1>5 DEF RequestSquareOff, Up
<1>6. CASE OperatorRequests
  BY <1>6 DEF OperatorRequests
<1>7. CASE Advance
  BY <1>7 DEF Advance
<1>8. CASE PollStop
  BY <1>8 DEF PollStop
<1>9. CASE WallClockPoll
  BY <1>9 DEF WallClockPoll, RecordAttempt, AttemptFails, Raise
<1>10. CASE OperatorPoll
  BY <1>10 DEF OperatorPoll
<1>11. CASE PollContinues
  BY <1>11 DEF PollContinues
<1>12. CASE QuietPoll
  BY <1>12 DEF QuietPoll
<1>13. CASE IdleTimeout
  BY <1>13 DEF IdleTimeout
<1>14. CASE Sentinel
  BY <1>14 DEF Sentinel
<1>15. CASE DropNotice
  BY <1>15 DEF DropNotice
<1>16. CASE TickHonoursRequest
  BY <1>16 DEF TickHonoursRequest
<1>17. CASE TickSquareOff
  BY <1>17 DEF TickSquareOff, RecordAttempt, AttemptFails, Raise
<1>18. CASE ExitSignal
  BY <1>18 DEF ExitSignal, BeginClose, TickIsRouted
<1>19. CASE EnterSignal
  BY <1>19 DEF EnterSignal, BeginClose, TickIsRouted, MayQueue
<1>20. CASE ExitTick
  BY <1>20 DEF ExitTick, BeginClose, TickIsRouted
<1>21. CASE PendingTick
  BY <1>21 DEF PendingTick, TickIsRouted
<1>22. CASE PlaceEntry
  BY <1>22 DEF PlaceEntry, ApplyFill, RequireAFill, Raise
<1>23. CASE RecordEntry
  BY <1>23 DEF RecordEntry, RecordContract
<1>24. CASE PlaceExit
  BY <1>24 DEF PlaceExit, ApplyFill, RequireAFill, Raise
<1>25. CASE RecordExit
  BY <1>25 DEF RecordExit, RecordContract
<1>26. CASE FinishClose
  BY <1>26 DEF FinishClose, MayQueue
<1>27. CASE SquareOff
  BY <1>27 DEF SquareOff, SquareOffReturns, BeginClose
<1>28. CASE RecordCompletion
  BY <1>28 DEF RecordCompletion, SquareOffReturns, Raise
<1>29. CASE UNCHANGED vars
  BY <1>29
<1> QED
  BY <1>1, <1>2, <1>3, <1>4, <1>5, <1>6, <1>7, <1>8, <1>9, <1>10,
     <1>11, <1>12, <1>13, <1>14, <1>15, <1>16, <1>17, <1>18, <1>19, <1>20,
     <1>21, <1>22, <1>23, <1>24, <1>25, <1>26, <1>27, <1>28, <1>29
     DEF Next, EngineStep, Poll, OnTick, Handler

\* Control stays in its states; a loaded IN_PROGRESS never reaches memory.
LEMMA FlowStep == FlowType /\ StoreType /\ [Next]_vars => FlowType'
<1> SUFFICES ASSUME FlowType, StoreType, [Next]_vars PROVE FlowType'
  OBVIOUS
<1> USE DEF FlowType, StoreType, SquareOffStates, Pcs
<1> USE DEF vars, store, memory, flow, env
<1>1. CASE StartProcess
  BY <1>1 DEF StartProcess, Adopt, Adopted, RestoreDailyRisk, LoadedState, OpenIn, Recoverable
<1>2. CASE Crash
  BY <1>2 DEF Crash, GoDown, Up
<1>3. CASE ProcessExit
  BY <1>3 DEF ProcessExit, GoDown
<1>4. CASE EnterFinally
  BY <1>4 DEF EnterFinally
<1>5. CASE RequestSquareOff
  BY <1>5 DEF RequestSquareOff, Up
<1>6. CASE OperatorRequests
  BY <1>6 DEF OperatorRequests
<1>7. CASE Advance
  BY <1>7 DEF Advance
<1>8. CASE PollStop
  BY <1>8 DEF PollStop
<1>9. CASE WallClockPoll
  BY <1>9 DEF WallClockPoll, RecordAttempt, AttemptFails, Raise
<1>10. CASE OperatorPoll
  BY <1>10 DEF OperatorPoll
<1>11. CASE PollContinues
  BY <1>11 DEF PollContinues
<1>12. CASE QuietPoll
  BY <1>12 DEF QuietPoll
<1>13. CASE IdleTimeout
  BY <1>13 DEF IdleTimeout
<1>14. CASE Sentinel
  BY <1>14 DEF Sentinel
<1>15. CASE DropNotice
  BY <1>15 DEF DropNotice
<1>16. CASE TickHonoursRequest
  BY <1>16 DEF TickHonoursRequest
<1>17. CASE TickSquareOff
  BY <1>17 DEF TickSquareOff, RecordAttempt, AttemptFails, Raise
<1>18. CASE ExitSignal
  BY <1>18 DEF ExitSignal, BeginClose, TickIsRouted
<1>19. CASE EnterSignal
  BY <1>19 DEF EnterSignal, BeginClose, TickIsRouted, MayQueue
<1>20. CASE ExitTick
  BY <1>20 DEF ExitTick, BeginClose, TickIsRouted
<1>21. CASE PendingTick
  BY <1>21 DEF PendingTick, TickIsRouted
<1>22. CASE PlaceEntry
  BY <1>22 DEF PlaceEntry, ApplyFill, RequireAFill, Raise
<1>23. CASE RecordEntry
  BY <1>23 DEF RecordEntry, RecordContract
<1>24. CASE PlaceExit
  BY <1>24 DEF PlaceExit, ApplyFill, RequireAFill, Raise
<1>25. CASE RecordExit
  BY <1>25 DEF RecordExit, RecordContract
<1>26. CASE FinishClose
  BY <1>26 DEF FinishClose, MayQueue
<1>27. CASE SquareOff
  BY <1>27 DEF SquareOff, SquareOffReturns, BeginClose
<1>28. CASE RecordCompletion
  BY <1>28 DEF RecordCompletion, SquareOffReturns, Raise
<1>29. CASE UNCHANGED vars
  BY <1>29
<1> QED
  BY <1>1, <1>2, <1>3, <1>4, <1>5, <1>6, <1>7, <1>8, <1>9, <1>10,
     <1>11, <1>12, <1>13, <1>14, <1>15, <1>16, <1>17, <1>18, <1>19, <1>20,
     <1>21, <1>22, <1>23, <1>24, <1>25, <1>26, <1>27, <1>28, <1>29
     DEF Next, EngineStep, Poll, OnTick, Handler

\* The clock and the number of processes stay in their bounds.
LEMMA EnvStep == EnvType /\ [Next]_vars => EnvType'
<1> SUFFICES ASSUME EnvType, [Next]_vars PROVE EnvType'
  OBVIOUS
<1> USE EngineAssumption DEF EnvType
<1> USE DEF vars, store, memory, flow, env
<1>1. CASE StartProcess
  BY <1>1 DEF StartProcess, Adopt, Adopted, RestoreDailyRisk, LoadedState, OpenIn, Recoverable
<1>2. CASE Crash
  BY <1>2 DEF Crash, GoDown, Up
<1>3. CASE ProcessExit
  BY <1>3 DEF ProcessExit, GoDown
<1>4. CASE EnterFinally
  BY <1>4 DEF EnterFinally
<1>5. CASE RequestSquareOff
  BY <1>5 DEF RequestSquareOff, Up
<1>6. CASE OperatorRequests
  BY <1>6 DEF OperatorRequests
<1>7. CASE Advance
  BY <1>7 DEF Advance
<1>8. CASE PollStop
  BY <1>8 DEF PollStop
<1>9. CASE WallClockPoll
  BY <1>9 DEF WallClockPoll, RecordAttempt, AttemptFails, Raise
<1>10. CASE OperatorPoll
  BY <1>10 DEF OperatorPoll
<1>11. CASE PollContinues
  BY <1>11 DEF PollContinues
<1>12. CASE QuietPoll
  BY <1>12 DEF QuietPoll
<1>13. CASE IdleTimeout
  BY <1>13 DEF IdleTimeout
<1>14. CASE Sentinel
  BY <1>14 DEF Sentinel
<1>15. CASE DropNotice
  BY <1>15 DEF DropNotice
<1>16. CASE TickHonoursRequest
  BY <1>16 DEF TickHonoursRequest
<1>17. CASE TickSquareOff
  BY <1>17 DEF TickSquareOff, RecordAttempt, AttemptFails, Raise
<1>18. CASE ExitSignal
  BY <1>18 DEF ExitSignal, BeginClose, TickIsRouted
<1>19. CASE EnterSignal
  BY <1>19 DEF EnterSignal, BeginClose, TickIsRouted, MayQueue
<1>20. CASE ExitTick
  BY <1>20 DEF ExitTick, BeginClose, TickIsRouted
<1>21. CASE PendingTick
  BY <1>21 DEF PendingTick, TickIsRouted
<1>22. CASE PlaceEntry
  BY <1>22 DEF PlaceEntry, ApplyFill, RequireAFill, Raise
<1>23. CASE RecordEntry
  BY <1>23 DEF RecordEntry, RecordContract
<1>24. CASE PlaceExit
  BY <1>24 DEF PlaceExit, ApplyFill, RequireAFill, Raise
<1>25. CASE RecordExit
  BY <1>25 DEF RecordExit, RecordContract
<1>26. CASE FinishClose
  BY <1>26 DEF FinishClose, MayQueue
<1>27. CASE SquareOff
  BY <1>27 DEF SquareOff, SquareOffReturns, BeginClose
<1>28. CASE RecordCompletion
  BY <1>28 DEF RecordCompletion, SquareOffReturns, Raise
<1>29. CASE UNCHANGED vars
  BY <1>29
<1> QED
  BY <1>1, <1>2, <1>3, <1>4, <1>5, <1>6, <1>7, <1>8, <1>9, <1>10,
     <1>11, <1>12, <1>13, <1>14, <1>15, <1>16, <1>17, <1>18, <1>19, <1>20,
     <1>21, <1>22, <1>23, <1>24, <1>25, <1>26, <1>27, <1>28, <1>29
     DEF Next, EngineStep, Poll, OnTick, Handler

\* The table keeps integer quantities, the records their values.
LEMMA StoreStep == StoreType /\ BookType /\ [Next]_vars => StoreType'
<1> SUFFICES ASSUME StoreType, BookType, [Next]_vars PROVE StoreType'
  OBVIOUS
<1> USE DEF StoreType, SquareOffStates
<1> USE DEF vars, store, memory, flow, env
<1>1. CASE StartProcess
  BY <1>1 DEF StartProcess, Adopt, Adopted, RestoreDailyRisk, LoadedState, OpenIn, Recoverable
<1>2. CASE Crash
  BY <1>2 DEF Crash, GoDown, Up
<1>3. CASE ProcessExit
  BY <1>3 DEF ProcessExit, GoDown
<1>4. CASE EnterFinally
  BY <1>4 DEF EnterFinally
<1>5. CASE RequestSquareOff
  BY <1>5 DEF RequestSquareOff, Up
<1>6. CASE OperatorRequests
  BY <1>6 DEF OperatorRequests
<1>7. CASE Advance
  BY <1>7 DEF Advance
<1>8. CASE PollStop
  BY <1>8 DEF PollStop
<1>9. CASE WallClockPoll
  BY <1>9 DEF WallClockPoll, RecordAttempt, AttemptFails, Raise
<1>10. CASE OperatorPoll
  BY <1>10 DEF OperatorPoll
<1>11. CASE PollContinues
  BY <1>11 DEF PollContinues
<1>12. CASE QuietPoll
  BY <1>12 DEF QuietPoll
<1>13. CASE IdleTimeout
  BY <1>13 DEF IdleTimeout
<1>14. CASE Sentinel
  BY <1>14 DEF Sentinel
<1>15. CASE DropNotice
  BY <1>15 DEF DropNotice
<1>16. CASE TickHonoursRequest
  BY <1>16 DEF TickHonoursRequest
<1>17. CASE TickSquareOff
  BY <1>17 DEF TickSquareOff, RecordAttempt, AttemptFails, Raise
<1>18. CASE ExitSignal
  BY <1>18 DEF ExitSignal, BeginClose, TickIsRouted
<1>19. CASE EnterSignal
  BY <1>19 DEF EnterSignal, BeginClose, TickIsRouted, MayQueue
<1>20. CASE ExitTick
  BY <1>20 DEF ExitTick, BeginClose, TickIsRouted
<1>21. CASE PendingTick
  BY <1>21 DEF PendingTick, TickIsRouted
<1>22. CASE PlaceEntry
  <2>1. pending.side \in Int
    BY SidesAreSigns DEF BookType, Legs, NoLeg
  <2>2. PICK filled \in {0, Quantity} \cup Partials :
          qty' = [qty EXCEPT ![pending.contract] = @ + pending.side * filled]
    BY <1>22 DEF PlaceEntry, Fills, ApplyFill
  <2>3. filled \in Int
    BY <2>2, QuantityIsPositive, PartialsAreSmall
  <2> DEFINE change == pending.side * filled
  <2>4. change \in Int
    BY <2>1, <2>3, IntTimes
  <2>5. qty' = [qty EXCEPT ![pending.contract] = @ + change]
    BY <2>2
  <2> HIDE DEF change
  <2>6. qty' \in [Contracts -> Int]
    BY <2>4, <2>5, MoveKeepsInt
  <2> QED BY <1>22, <2>6 DEF PlaceEntry
<1>23. CASE RecordEntry
  BY <1>23 DEF RecordEntry, RecordContract, BookType, Legs, NoLeg
<1>24. CASE PlaceExit
  <2>1. book.qty \in Int
    BY DEF BookType, NoBook
  <2>2. /\ Abs(book.qty) \in Int
        /\ ExitSide \in Int
    BY <2>1, SignTimesAbs DEF ExitSide
  <2>3. PICK filled \in {0, Abs(book.qty)} \cup Partials :
          qty' = [qty EXCEPT ![book.contract] = @ + ExitSide * filled]
    BY <1>24 DEF PlaceExit, Fills, ApplyFill
  <2>4. filled \in Int
    BY <2>2, <2>3, PartialsAreSmall
  <2> DEFINE change == ExitSide * filled
  <2>5. change \in Int
    BY <2>2, <2>4, IntTimes
  <2>6. qty' = [qty EXCEPT ![book.contract] = @ + change]
    BY <2>3
  <2> HIDE DEF change
  <2>7. qty' \in [Contracts -> Int]
    BY <2>5, <2>6, MoveKeepsInt
  <2> QED BY <1>24, <2>7 DEF PlaceExit
<1>25. CASE RecordExit
  BY <1>25 DEF RecordExit, RecordContract, BookType, NoBook
<1>26. CASE FinishClose
  BY <1>26 DEF FinishClose, MayQueue
<1>27. CASE SquareOff
  BY <1>27 DEF SquareOff, SquareOffReturns, BeginClose
<1>28. CASE RecordCompletion
  BY <1>28 DEF RecordCompletion, SquareOffReturns, Raise
<1>29. CASE UNCHANGED vars
  BY <1>29
<1> QED
  BY <1>1, <1>2, <1>3, <1>4, <1>5, <1>6, <1>7, <1>8, <1>9, <1>10,
     <1>11, <1>12, <1>13, <1>14, <1>15, <1>16, <1>17, <1>18, <1>19, <1>20,
     <1>21, <1>22, <1>23, <1>24, <1>25, <1>26, <1>27, <1>28, <1>29
     DEF Next, EngineStep, Poll, OnTick, Handler

\* The book and the pending entry are whole or empty.
LEMMA BookStep == BookType /\ StoreType /\ EntryInProgress /\ [Next]_vars => BookType'
<1> SUFFICES ASSUME BookType, StoreType, EntryInProgress, [Next]_vars PROVE BookType'
  OBVIOUS
<1> USE DEF BookType
<1> USE DEF vars, store, memory, flow, env
<1>1. CASE StartProcess
  BY <1>1 DEF StartProcess, Adopt, Adopted, OpenIn, StoreType
<1>2. CASE Crash
  BY <1>2 DEF Crash, GoDown, Up
<1>3. CASE ProcessExit
  BY <1>3 DEF ProcessExit, GoDown
<1>4. CASE EnterFinally
  BY <1>4 DEF EnterFinally
<1>5. CASE RequestSquareOff
  BY <1>5 DEF RequestSquareOff, Up
<1>6. CASE OperatorRequests
  BY <1>6 DEF OperatorRequests
<1>7. CASE Advance
  BY <1>7 DEF Advance
<1>8. CASE PollStop
  BY <1>8 DEF PollStop
<1>9. CASE WallClockPoll
  BY <1>9 DEF WallClockPoll, RecordAttempt, AttemptFails, Raise
<1>10. CASE OperatorPoll
  BY <1>10 DEF OperatorPoll
<1>11. CASE PollContinues
  BY <1>11 DEF PollContinues
<1>12. CASE QuietPoll
  BY <1>12 DEF QuietPoll
<1>13. CASE IdleTimeout
  BY <1>13 DEF IdleTimeout
<1>14. CASE Sentinel
  BY <1>14 DEF Sentinel
<1>15. CASE DropNotice
  BY <1>15 DEF DropNotice
<1>16. CASE TickHonoursRequest
  BY <1>16 DEF TickHonoursRequest
<1>17. CASE TickSquareOff
  BY <1>17 DEF TickSquareOff, RecordAttempt, AttemptFails, Raise
<1>18. CASE ExitSignal
  BY <1>18 DEF ExitSignal, BeginClose, TickIsRouted
<1>19. CASE EnterSignal
  BY <1>19 DEF EnterSignal, BeginClose, TickIsRouted, MayQueue
<1>20. CASE ExitTick
  BY <1>20 DEF ExitTick, BeginClose, TickIsRouted
<1>21. CASE PendingTick
  BY <1>21 DEF PendingTick, TickIsRouted
<1>22. CASE PlaceEntry
  BY <1>22 DEF PlaceEntry, ApplyFill, RequireAFill, Raise
<1>23. CASE RecordEntry
  <2>1. pending \in Legs
    BY <1>23 DEF RecordEntry, EntryInProgress
  <2>2. pending.contract \in Contracts /\ pending.side \in {1, -1}
    BY <2>1, SidesAreSigns DEF Legs
  <2>3. pending.side * Quantity \in Int \ {0}
    BY <2>2, QuantityIsPositive
  <2> QED BY <1>23, <2>2, <2>3 DEF RecordEntry
<1>24. CASE PlaceExit
  BY <1>24 DEF PlaceExit, ApplyFill, RequireAFill, Raise
<1>25. CASE RecordExit
  BY <1>25 DEF RecordExit, RecordContract
<1>26. CASE FinishClose
  BY <1>26 DEF FinishClose, MayQueue
<1>27. CASE SquareOff
  BY <1>27 DEF SquareOff, SquareOffReturns, BeginClose
<1>28. CASE RecordCompletion
  BY <1>28 DEF RecordCompletion, SquareOffReturns, Raise
<1>29. CASE UNCHANGED vars
  BY <1>29
<1> QED
  BY <1>1, <1>2, <1>3, <1>4, <1>5, <1>6, <1>7, <1>8, <1>9, <1>10,
     <1>11, <1>12, <1>13, <1>14, <1>15, <1>16, <1>17, <1>18, <1>19, <1>20,
     <1>21, <1>22, <1>23, <1>24, <1>25, <1>26, <1>27, <1>28, <1>29
     DEF Next, EngineStep, Poll, OnTick, Handler

\* Table, book and pending entry stay in agreement.
LEMMA AgreementStep == StoreType /\ BookType /\ Agreement /\ [Next]_vars => Agreement'
<1> SUFFICES ASSUME StoreType, BookType, Agreement, [Next]_vars PROVE Agreement'
  OBVIOUS
<1> USE DEF Agreement, AtMostOne, BookIsWhere, WaitingAgrees, PendingIsFlat, EntryInProgress,
        CloseInProgress, WholeFills, DownIsEmpty,
        Waiting
<1> USE DEF vars, store, memory, flow
<1>1. CASE StartProcess
  <2>1. pending' = NoLeg /\ qty' = qty /\ pc' = "loop"
    BY <1>1 DEF StartProcess
  <2>2. CASE OpenIn(qty) = {} /\ book' = NoBook
    BY <2>1, <2>2 DEF OpenIn
  <2>3. CASE \E c \in OpenIn(qty) : book' = [contract |-> c, qty |-> qty[c]]
    <3>1. PICK c \in Contracts : qty[c] # 0 /\ book' = [contract |-> c, qty |-> qty[c]]
      BY <2>3 DEF OpenIn
    <3>2. book'.contract = c /\ book'.qty = qty[c]
      BY <3>1
    <3>3. \A d \in Contracts \ {c} : qty[d] = 0
      BY <3>1
    <3>4. book' # NoBook
      BY <3>1, <3>2, EngineAssumption DEF NoBook
    <3> QED BY <2>1, <3>2, <3>3, <3>4
  <2>4. CASE book' = NoBook /\ blocked'
    BY <2>1, <2>4
  <2> QED BY <1>1, <2>2, <2>3, <2>4 DEF StartProcess, Adopt, Adopted
<1>2. CASE Crash
  BY <1>2 DEF Crash, GoDown, Up
<1>3. CASE ProcessExit
  BY <1>3 DEF ProcessExit, GoDown
<1>4. CASE EnterFinally
  BY <1>4 DEF EnterFinally
<1>5. CASE RequestSquareOff
  BY <1>5 DEF RequestSquareOff, Up
<1>6. CASE OperatorRequests
  BY <1>6 DEF OperatorRequests
<1>7. CASE Advance
  BY <1>7 DEF Advance
<1>8. CASE PollStop
  BY <1>8 DEF PollStop
<1>9. CASE WallClockPoll
  BY <1>9 DEF WallClockPoll, RecordAttempt, AttemptFails, Raise
<1>10. CASE OperatorPoll
  BY <1>10 DEF OperatorPoll
<1>11. CASE PollContinues
  BY <1>11 DEF PollContinues
<1>12. CASE QuietPoll
  BY <1>12 DEF QuietPoll
<1>13. CASE IdleTimeout
  BY <1>13 DEF IdleTimeout
<1>14. CASE Sentinel
  BY <1>14 DEF Sentinel
<1>15. CASE DropNotice
  BY <1>15 DEF DropNotice
<1>16. CASE TickHonoursRequest
  BY <1>16 DEF TickHonoursRequest
<1>17. CASE TickSquareOff
  BY <1>17 DEF TickSquareOff, RecordAttempt, AttemptFails, Raise
<1>18. CASE ExitSignal
  BY <1>18 DEF ExitSignal, BeginClose, TickIsRouted
<1>19. CASE EnterSignal
  BY <1>19 DEF EnterSignal, BeginClose, TickIsRouted, MayQueue
<1>20. CASE ExitTick
  BY <1>20 DEF ExitTick, BeginClose, TickIsRouted
<1>21. CASE PendingTick
  BY <1>21 DEF PendingTick, TickIsRouted
<1>22. CASE PlaceEntry
  <2>1. /\ pending # NoLeg /\ pending' = pending
        /\ book = NoBook /\ book' = NoBook
        /\ \A c \in Contracts : qty[c] = 0
    BY <1>22 DEF PlaceEntry
  <2>2. pending.contract \in Contracts
    BY <2>1 DEF BookType, Legs
  <2>3. PICK filled \in {0, Quantity} \cup Partials :
          /\ qty' = [qty EXCEPT ![pending.contract] = @ + pending.side * filled]
          /\ \/ filled = Quantity /\ pc' = "bought"
             \/ pc' \in {"squareoff", "finally", "exit"}
    BY <1>22 DEF PlaceEntry, Fills, ApplyFill, RequireAFill, Raise
  <2>4. \A c \in Contracts \ {pending.contract} : qty'[c] = 0
    BY <2>1, <2>2, <2>3 DEF StoreType
  <2>5. pc' = "bought" => qty'[pending.contract] = pending.side * Quantity
    <3>1. pending.side * Quantity \in Int
      BY <2>1, QuantityIsPositive, SidesAreSigns, IntTimes DEF BookType, Legs
    <3>2. filled = Quantity => qty'[pending.contract] = 0 + pending.side * Quantity
      BY <2>1, <2>2, <2>3 DEF StoreType
    <3> QED BY <2>3, <3>1, <3>2
  <2>6. AtMostOne' /\ BookIsWhere' /\ WaitingAgrees' /\ PendingIsFlat' /\ DownIsEmpty'
    BY <2>1, <2>3, <2>4
  <2>7. EntryInProgress' /\ CloseInProgress' /\ WholeFills'
    BY <2>1, <2>3, <2>4, <2>5
  <2> QED BY <2>6, <2>7
<1>23. CASE RecordEntry
  <2>1. /\ pending \in Legs /\ pending.contract \in Contracts
        /\ qty[pending.contract] = pending.side * Quantity
        /\ \A c \in Contracts \ {pending.contract} : qty[c] = 0
    BY <1>23 DEF RecordEntry, BookType, Legs
  <2>2. /\ book'.contract = pending.contract
        /\ book'.qty = pending.side * Quantity
        /\ pending' = NoLeg /\ pc' = "loop" /\ qty' = qty
    BY <1>23 DEF RecordEntry
  <2>3. book' # NoBook
    BY <2>1, <2>2, EngineAssumption DEF NoBook
  <2> QED BY <2>1, <2>2, <2>3
<1>24. CASE PlaceExit
  <2>1. /\ book # NoBook /\ book' = book /\ pending = NoLeg /\ pending' = NoLeg
        /\ then' = then
    BY <1>24 DEF PlaceExit
  <2>2. book.contract \in Contracts /\ book.qty \in Int \ {0}
    BY <2>1 DEF BookType
  <2>3. PICK filled \in {0, Abs(book.qty)} \cup Partials :
          /\ qty' = [qty EXCEPT ![book.contract] = @ + ExitSide * filled]
          /\ \/ filled = Abs(book.qty) /\ pc' = "sold"
             \/ filled # Abs(book.qty) /\ pc' \in {"squareoff", "finally", "exit"}
    <3>1. PICK filled \in Fills(Abs(book.qty)) :
            /\ ApplyFill(book.contract, ExitSide, filled)
            /\ RequireAFill(filled, Abs(book.qty), "sold")
      BY <1>24 DEF PlaceExit
    <3>2. filled \in {0, Abs(book.qty)} \cup Partials
      BY <3>1 DEF Fills
    <3> QED BY <3>1, <3>2 DEF ApplyFill, RequireAFill, Raise
  <2>4. \A c \in Contracts \ {book.contract} : qty'[c] = 0
    BY <2>1, <2>2, <2>3 DEF StoreType
  <2>5. pc' = "sold" => qty'[book.contract] = qty[book.contract] - book.qty
    <3>1. filled = Abs(book.qty) => ExitSide * filled = -book.qty
      BY <2>2, SignTimesAbs DEF ExitSide
    <3> QED BY <2>2, <2>3, <3>1 DEF StoreType
  <2>6. Partials = {} /\ pc' # "sold" => qty'[book.contract] = qty[book.contract]
    <3>1. ExitSide * 0 = 0
      BY <2>2, SignTimesAbs DEF ExitSide
    <3> QED BY <2>2, <2>3, <3>1 DEF StoreType
  <2>7. qty[book.contract] \in Int
    BY <2>2 DEF StoreType
  <2>8. AtMostOne' /\ BookIsWhere' /\ WaitingAgrees' /\ PendingIsFlat' /\ DownIsEmpty'
    BY <2>1, <2>3, <2>4
  <2>9. EntryInProgress' /\ CloseInProgress'
    BY <1>24, <2>1, <2>2, <2>3, <2>5, <2>7 DEF PlaceExit
  <2>10. WholeFills'
    BY <1>24, <2>1, <2>2, <2>3, <2>5, <2>6, <2>7 DEF PlaceExit
  <2> QED BY <2>8, <2>9, <2>10
<1>25. CASE RecordExit
  BY <1>25 DEF RecordExit, RecordContract
<1>26. CASE FinishClose
  BY <1>26 DEF FinishClose, MayQueue
<1>27. CASE SquareOff
  BY <1>27 DEF SquareOff, SquareOffReturns, BeginClose
<1>28. CASE RecordCompletion
  BY <1>28 DEF RecordCompletion, SquareOffReturns, Raise
<1>29. CASE UNCHANGED vars
  BY <1>29
<1> QED
  BY <1>1, <1>2, <1>3, <1>4, <1>5, <1>6, <1>7, <1>8, <1>9, <1>10,
     <1>11, <1>12, <1>13, <1>14, <1>15, <1>16, <1>17, <1>18, <1>19, <1>20,
     <1>21, <1>22, <1>23, <1>24, <1>25, <1>26, <1>27, <1>28, <1>29
     DEF Next, EngineStep, Poll, OnTick, Handler

-----------------------------------------------------------------------------

\* Types and agreement together are inductive.
THEOREM Invariance == Spec => []Inv
<1>1. Init => Inv
  BY InitInv
<1>2. Inv /\ [Next]_vars => Inv'
  BY FlagStep, FlowStep, EnvStep, StoreStep, BookStep, AgreementStep
     DEF Inv, TypeOK, Agreement
<1> QED BY <1>1, <1>2, PTL DEF Spec

\* Every variable of TradingEngine keeps its type.
THEOREM TypeCorrect == Spec => []TypeOK
<1>1. Inv => TypeOK
  BY DEF Inv
<1> QED BY <1>1, Invariance, PTL

\* recover_position, _adopt_recovered_position, _enter and _close together:
\* a strategy never holds two contracts, for any number of contracts, lots and
\* restarts, whether or not fills can be partial and writes can fail.
THEOREM NeverTwoPositions == Spec => []OneOpenPosition
<1>1. AtMostOne => OneOpenPosition
  <2> SUFFICES ASSUME AtMostOne PROVE OneOpenPosition
    OBVIOUS
  <2>1. CASE OpenIn(qty) = {}
    BY <2>1, FS_EmptySet DEF OneOpenPosition
  <2>2. CASE OpenIn(qty) # {}
    <3>1. PICK c \in Contracts : qty[c] # 0
      BY <2>2 DEF OpenIn
    <3>2. \A d \in Contracts : qty[d] # 0 => d = c
      BY <3>1 DEF AtMostOne
    <3>3. OpenIn(qty) = {c}
      BY <3>1, <3>2 DEF OpenIn
    <3>4. Cardinality({c}) = 1
      BY FS_Singleton
    <3> QED BY <3>3, <3>4 DEF OneOpenPosition
  <2> QED BY <2>1, <2>2
<1> QED BY <1>1, Invariance, PTL DEF Inv, Agreement

\* While the engine waits, its book is the table's open position, or it
\* manages nothing and has blocked entries.
THEOREM BookIsTheTable == Spec => []BookMatchesStore
<1>1. Inv => BookMatchesStore
  BY DEF Inv, TypeOK, BookType, NoBook, Agreement, BookIsWhere, WaitingAgrees,
         Waiting, BookMatchesStore
<1> QED BY <1>1, Invariance, PTL

-----------------------------------------------------------------------------
(* With the default fill policy (Partials = {}) the table implements the   *)
(* abstract ledger.                                                        *)

\* Only the two order placements touch the table, and each of them opens a
\* whole position from flat, closes all of one, or leaves it alone.
LEMMA StepIsLedgerStep ==
  ASSUME Partials = {} PROVE Inv /\ [Next]_vars => [Ledger!Next]_qty
<1> SUFFICES ASSUME Inv, [Next]_vars PROVE qty' = qty \/ Ledger!Next
  OBVIOUS
<1> USE DEF Inv, TypeOK, StoreType, BookType, Agreement
<1>1. CASE PlaceEntry
  <2>1. pending \in Legs /\ \A c \in Contracts : qty[c] = 0
    BY <1>1 DEF PlaceEntry, EntryInProgress, PendingIsFlat, Waiting
  <2>2. pending.contract \in Contracts /\ pending.side \in Sides
    BY <2>1 DEF Legs
  <2>3. pending.side \in Int /\ Quantity \in Int
    BY <2>2, SidesAreSigns, QuantityIsPositive
  <2> DEFINE change == pending.side * Quantity
  <2>4. change \in Int
    BY <2>3, IntTimes
  <2>5. pending.side * 0 = 0
    BY <2>3
  <2>6. \/ qty' = [qty EXCEPT ![pending.contract] = @ + 0]
        \/ qty' = [qty EXCEPT ![pending.contract] = @ + change]
    BY <1>1, <2>5 DEF PlaceEntry, Fills, ApplyFill
  <2>7. qty = Ledger!Flat
    BY <2>1 DEF Ledger!Flat
  <2> HIDE DEF change
  <2>8. \/ qty' = qty
        \/ qty' = [Ledger!Flat EXCEPT ![pending.contract] = change]
    BY <2>1, <2>2, <2>4, <2>6, <2>7 DEF Ledger!Flat
  <2> QED BY <2>2, <2>7, <2>8 DEF Ledger!Next, Ledger!Open, change
<1>2. CASE PlaceExit
  <2>1. book # NoBook /\ qty[book.contract] = book.qty
    BY <1>2 DEF PlaceExit, CloseInProgress, WholeFills
  <2>2. book.contract \in Contracts /\ book.qty \in Int \ {0}
    BY <2>1
  <2>3. ExitSide * 0 = 0 /\ ExitSide * Abs(book.qty) = -book.qty
    BY <2>2, SignTimesAbs DEF ExitSide
  <2>4. \/ qty' = [qty EXCEPT ![book.contract] = @ + 0]
        \/ qty' = [qty EXCEPT ![book.contract] = @ + -book.qty]
    BY <1>2, <2>3 DEF PlaceExit, Fills, ApplyFill
  <2>5. \/ qty' = qty
        \/ qty' = [qty EXCEPT ![book.contract] = 0]
    BY <2>1, <2>2, <2>4
  <2> QED BY <2>1, <2>2, <2>5 DEF Ledger!Next, Ledger!Close
<1>3. CASE Next /\ ~PlaceEntry /\ ~PlaceExit
  BY <1>3 DEF Next, EngineStep, Poll, OnTick, Handler, StartProcess, Crash, ProcessExit,
     EnterFinally, RequestSquareOff, OperatorRequests, Advance, PollStop, WallClockPoll,
     AttemptFails, OperatorPoll, PollContinues, QuietPoll, IdleTimeout, Sentinel,
     DropNotice, TickHonoursRequest, TickSquareOff, ExitSignal, EnterSignal, ExitTick,
     PendingTick, RecordEntry, RecordExit, FinishClose, SquareOff, RecordCompletion, store
<1>4. CASE UNCHANGED vars
  BY <1>4 DEF vars, store
<1> QED BY <1>1, <1>2, <1>3, <1>4

\* The positions table follows the abstract ledger, for every number of
\* contracts, lots, crashes and restarts.
THEOREM ImplementsLedger ==
  ASSUME Partials = {} PROVE Spec => RefinesLedger
<1>1. Init => Ledger!Init
  BY DEF Init, Ledger!Init, Ledger!Flat
<1>2. Inv /\ [Next]_vars => [Ledger!Next]_qty
  BY StepIsLedgerStep
<1> QED BY <1>1, <1>2, Invariance, PTL DEF Spec, RefinesLedger, Ledger!Spec

LEMMA SquareIsNotNegative == \A n \in Int : n * n >= 0 /\ n * 0 >= 0
OBVIOUS

\* No close is sent twice: what a ledger step may do to a held quantity.
THEOREM NoOvershoot ==
  ASSUME Partials = {} PROVE Spec => ClosesNeverOvershoot
<1> DEFINE Shrinks == \A c \in Contracts : qty[c] # 0 =>
                        /\ Abs(qty'[c]) <= Abs(qty[c])
                        /\ qty[c] * qty'[c] >= 0
<1>1. StoreType /\ [Ledger!Next]_qty => Shrinks
  <2> SUFFICES ASSUME StoreType, [Ledger!Next]_qty,
                      NEW c \in Contracts, qty[c] # 0
               PROVE  Abs(qty'[c]) <= Abs(qty[c]) /\ qty[c] * qty'[c] >= 0
    OBVIOUS
  <2>1. qty[c] \in Int
    BY DEF StoreType
  <2>2. qty'[c] = qty[c] \/ qty'[c] = 0
    BY DEF StoreType, Ledger!Next, Ledger!Open, Ledger!Close, Ledger!Flat
  <2>3. CASE qty'[c] = qty[c]
    BY <2>1, <2>3, SquareIsNotNegative DEF Abs
  <2>4. CASE qty'[c] = 0
    BY <2>1, <2>4, SquareIsNotNegative DEF Abs
  <2> QED BY <2>2, <2>3, <2>4
<1>2. Inv /\ [Next]_vars => [Shrinks]_vars
  BY <1>1, StepIsLedgerStep DEF Inv, TypeOK
<1> QED BY <1>2, Invariance, PTL DEF Spec, ClosesNeverOvershoot
-----------------------------------------------------------------------------
(* When the day may be called done, and when an entry may be placed.       *)

\* An engine that manages nothing and is not blocked has nothing in the table,
\* except between the fill of an entry and its entry in the book.
UnblockedIsFlat ==
  pc \notin {"down", "bought"} /\ book = NoBook /\ ~blocked => \A c \in Contracts : qty[c] = 0

\* The completion is recorded with an empty book.
CompletingIsEmpty == pc = "completing" => book = NoBook

\* Once squared off, the thread is on its way out.
SquaredOffIsOver == squaredOff => pc \in {"completing", "squareoff", "finally", "exit"}

\* The cap trips while a position is managed, and an entry waits only when
\* none is.
PendingIsNotHalted == pending # NoLeg => ~halted

\* The clock stands still between the check of the entry window and the order.
BuyIsInWindow == pc = "buy" => CanEnter(now)

Rules == /\ UnblockedIsFlat /\ CompletingIsEmpty /\ SquaredOffIsOver
         /\ PendingIsNotHalted /\ BuyIsInWindow

\* The rules are kept by every step of an engine whose orders fill whole.
LEMMA RulesStep == ASSUME Partials = {} PROVE Inv /\ Rules /\ [Next]_vars => Rules'
<1> SUFFICES ASSUME Inv, Rules, [Next]_vars PROVE Rules'
  OBVIOUS
<1> USE DEF Rules, UnblockedIsFlat, CompletingIsEmpty, SquaredOffIsOver, PendingIsNotHalted,
        BuyIsInWindow
<1>0. FlowType /\ FlagType /\ BookType /\ StoreType /\ Agreement
  BY DEF Inv, TypeOK
<1>1. CASE StartProcess
  <2>1. qty' = qty /\ pc' = "loop" /\ pending' = pending /\ pending = NoLeg
        /\ squaredOff' = squaredOff /\ ~squaredOff
    BY <1>1, <1>0 DEF StartProcess, store, Agreement, DownIsEmpty
  <2>2. CASE OpenIn(qty) = {}
    BY <2>1, <2>2 DEF OpenIn
  <2>3. CASE \E c \in OpenIn(qty) : book' = [contract |-> c, qty |-> qty[c]]
    <3>1. PICK c \in Contracts : book' = [contract |-> c, qty |-> qty[c]]
      BY <2>3 DEF OpenIn
    <3>2. book' # NoBook
      BY <3>1, EngineAssumption DEF NoBook
    <3> QED BY <2>1, <3>2
  <2>4. CASE blocked'
    BY <2>1, <2>4
  <2> QED BY <1>1, <2>2, <2>3, <2>4 DEF StartProcess, Adopt, Adopted
<1>2. CASE Crash
  BY <1>2 DEF Crash, GoDown
<1>3. CASE ProcessExit
  BY <1>3 DEF ProcessExit, GoDown
<1>4. CASE EnterFinally
  BY <1>4 DEF EnterFinally, store, memory, env
<1>5. CASE RequestSquareOff
  BY <1>5 DEF RequestSquareOff, store, flow, env
<1>6. CASE OperatorRequests
  BY <1>6 DEF OperatorRequests, memory, flow, env
<1>7. CASE Advance
  BY <1>7 DEF Advance, store, memory, flow
<1>8. CASE PollStop \/ PollContinues \/ QuietPoll \/ IdleTimeout \/ TickHonoursRequest
  BY <1>8 DEF PollStop, PollContinues, QuietPoll, IdleTimeout, TickHonoursRequest, store,
              memory, env
<1>9. CASE WallClockPoll
  BY <1>9 DEF WallClockPoll, RecordAttempt, AttemptFails, Raise, store, env
<1>10. CASE OperatorPoll \/ Sentinel
  BY <1>10 DEF OperatorPoll, Sentinel, store, env
<1>11. CASE DropNotice
  BY <1>11 DEF DropNotice, store, env
<1>12. CASE TickSquareOff
  BY <1>12 DEF TickSquareOff, RecordAttempt, AttemptFails, Raise, store, env
<1>13. CASE ExitSignal
  BY <1>13 DEF ExitSignal, BeginClose, TickIsRouted, store, memory, env
<1>14. CASE EnterSignal
  BY <1>14 DEF EnterSignal, BeginClose, TickIsRouted, MayQueue, store, env
<1>15. CASE ExitTick
  <2>1. pending = NoLeg
    BY <1>15, <1>0 DEF ExitTick, Agreement, PendingIsFlat
  <2> QED BY <1>15, <2>1 DEF ExitTick, BeginClose, TickIsRouted, store, env
<1>16. CASE PendingTick
  BY <1>16 DEF PendingTick, TickIsRouted, store, env
<1>17. CASE PlaceEntry
  <2>1. /\ pending # NoLeg /\ book = NoBook /\ pc = "buy" /\ ~squaredOff
        /\ \A c \in Contracts : qty[c] = 0
    BY <1>17, <1>0 DEF PlaceEntry, Agreement, EntryInProgress, PendingIsFlat
  <2>2. pending' = pending /\ book' = book /\ squaredOff' = squaredOff /\ halted' = halted
    BY <1>17 DEF PlaceEntry, memory
  <2>3. PICK filled \in {0, Quantity} :
          ApplyFill(pending.contract, pending.side, filled) /\ RequireAFill(filled, Quantity, "bought")
    BY <1>17 DEF PlaceEntry, Fills
  <2>4. CASE filled = Quantity
    BY <2>1, <2>2, <2>3, <2>4 DEF RequireAFill
  <2>5. CASE filled # Quantity
    <3>1. pending.contract \in Contracts /\ pending.side \in Int
      BY <1>0, <2>1, SidesAreSigns DEF BookType, Legs
    <3>2. pending.side * filled = 0
      BY <2>3, <2>5, <3>1
    <3>3. \A c \in Contracts : qty'[c] = 0
      BY <1>0, <2>1, <2>3, <3>2 DEF ApplyFill, StoreType
    <3>4. pc' \in {"squareoff", "finally", "exit"}
      BY <2>3, <2>5 DEF RequireAFill, Raise
    <3> QED BY <2>1, <2>2, <3>3, <3>4
  <2> QED BY <2>4, <2>5
<1>18. CASE RecordEntry
  <2>1. pending' = NoLeg /\ pc' = "loop" /\ pc = "bought" /\ squaredOff' = squaredOff
    BY <1>18 DEF RecordEntry
  <2>2. pending \in Legs /\ pending.contract \in Contracts
    BY <1>0, <2>1 DEF Agreement, EntryInProgress, BookType, Legs
  <2>3. book' # NoBook
    <3>1. book'.contract = pending.contract
      BY <1>18 DEF RecordEntry
    <3> QED BY <2>2, <3>1, EngineAssumption DEF NoBook
  <2> QED BY <2>1, <2>3
<1>19. CASE PlaceExit
  <2>1. book # NoBook /\ pc = "sell" /\ ~squaredOff
    BY <1>19, <1>0 DEF PlaceExit, Agreement, CloseInProgress
  <2>2. pending' = pending /\ book' = book /\ squaredOff' = squaredOff /\ halted' = halted
    BY <1>19 DEF PlaceExit, memory
  <2>3. pc' \in {"sold", "squareoff", "finally", "exit"}
    BY <1>19 DEF PlaceExit, RequireAFill, Raise
  <2> QED BY <2>1, <2>2, <2>3
<1>20. CASE RecordExit
  <2>1. book # NoBook /\ pc = "sold" /\ ~squaredOff
    BY <1>20, <1>0 DEF RecordExit, Agreement, CloseInProgress
  <2> QED BY <1>20, <2>1 DEF RecordExit, memory
<1>21. CASE FinishClose
  <2>1. book # NoBook /\ pending = NoLeg /\ ~squaredOff /\ qty[book.contract] = 0
    BY <1>21, <1>0 DEF FinishClose, Agreement, CloseInProgress, PendingIsFlat, WholeFills
  <2>2. \A c \in Contracts : qty[c] = 0
    BY <1>0, <2>1 DEF Agreement, BookIsWhere
  <2>3. pending' # NoLeg => ~halted'
    BY <1>21, <2>1 DEF FinishClose, MayQueue
  <2>4. qty' = qty /\ pc' \in {"loop", "squareoff"} /\ squaredOff' = squaredOff
    BY <1>21 DEF FinishClose, store
  <2> QED BY <2>1, <2>2, <2>3, <2>4
<1>22. CASE SquareOff
  <2>1. pc = "squareoff" /\ pc' \in {"finally", "exit", "sell", "completing"}
    BY <1>22 DEF SquareOff, SquareOffReturns, BeginClose
  <2>2. qty' = qty /\ book' = book /\ blocked' = blocked /\ pending' = pending /\ halted' = halted
    BY <1>22 DEF SquareOff, store
  <2>3. SquaredOffIsOver' /\ CompletingIsEmpty'
    BY <1>22, <2>1, <2>2 DEF SquareOff, SquareOffReturns, BeginClose
  <2> QED BY <2>1, <2>2, <2>3
<1>23. CASE RecordCompletion
  BY <1>23 DEF RecordCompletion, SquareOffReturns, Raise, env
<1>24. CASE UNCHANGED vars
  BY <1>24 DEF vars, store, memory, flow, env
<1> QED
  BY <1>1, <1>2, <1>3, <1>4, <1>5, <1>6, <1>7, <1>8, <1>9, <1>10, <1>11, <1>12, <1>13, <1>14,
     <1>15, <1>16, <1>17, <1>18, <1>19, <1>20, <1>21, <1>22, <1>23, <1>24
     DEF Next, EngineStep, Poll, OnTick, Handler

LEMMA RulesHold == ASSUME Partials = {} PROVE Spec => [](Inv /\ Rules)
<1>1. Init => Rules
  BY DEF Init, Rules, UnblockedIsFlat, CompletingIsEmpty, SquaredOffIsOver, PendingIsNotHalted,
         BuyIsInWindow
<1>2. Inv /\ Rules /\ [Next]_vars => Rules'
  BY RulesStep
<1> QED BY <1>1, <1>2, Invariance, PTL DEF Spec

\* _handle_square_off, for every number of contracts, crashes and failed
\* writes: the day is recorded as squared off only over an empty table, or by
\* an engine that recovered nothing and had blocked its entries.
THEOREM CompletionHolds == ASSUME Partials = {} PROVE Spec => CompletionAfterFlat
<1> DEFINE Completes == soState # "COMPLETED" /\ soState' = "COMPLETED"
<1>1. [Next]_vars /\ Completes => RecordCompletion
  BY DEF Next, EngineStep, Poll, OnTick, Handler, StartProcess, Crash, ProcessExit,
     EnterFinally, RequestSquareOff, OperatorRequests, Advance, PollStop, WallClockPoll,
     AttemptFails, RecordAttempt, OperatorPoll, PollContinues, QuietPoll, IdleTimeout, Sentinel,
     DropNotice, TickHonoursRequest, TickSquareOff, ExitSignal, EnterSignal, ExitTick,
     PendingTick, PlaceEntry, RecordEntry, PlaceExit, RecordExit, FinishClose, SquareOff, store,
     vars
<1>2. Rules /\ RecordCompletion => OpenIn(qty) = {} \/ Unmanaged
  BY DEF Rules, UnblockedIsFlat, CompletingIsEmpty, RecordCompletion, OpenIn, Unmanaged
<1>3. Inv /\ Rules /\ [Next]_vars => [Completes => OpenIn(qty) = {} \/ Unmanaged]_vars
  BY <1>1, <1>2
<1> QED BY <1>3, RulesHold, PTL DEF Spec, CompletionAfterFlat

\* _enter, _on_option_tick and the daily risk guard together: whenever exposure
\* grows, the tick in hand is inside the entry window, the day has not been
\* squared off and the cap has not tripped since the entry was queued.
THEOREM EntriesHold == ASSUME Partials = {} PROVE Spec => EntriesOnlyWhenAllowed
<1> DEFINE Allowed == \A c \in Contracts : Entry(c) => CanEnter(now) /\ ~squaredOff /\ ~halted
<1>1. Inv /\ Rules /\ PlaceEntry => CanEnter(now) /\ ~squaredOff /\ ~halted
  BY DEF Inv, Agreement, EntryInProgress, PlaceEntry, Rules, SquaredOffIsOver,
         PendingIsNotHalted, BuyIsInWindow
<1>2. ASSUME Inv, Rules, [Next]_vars, ~PlaceEntry PROVE Allowed
  <2> SUFFICES ASSUME NEW c \in Contracts PROVE ~Entry(c)
    OBVIOUS
  <2>1. qty[c] \in Int
    BY <1>2 DEF Inv, TypeOK, StoreType
  <2>2. qty'[c] = qty[c] \/ qty'[c] = 0
    <3>1. CASE PlaceExit
      <4>1. qty[book.contract] = book.qty /\ book.contract \in Contracts /\ book.qty \in Int \ {0}
        BY <1>2, <3>1 DEF Inv, TypeOK, BookType, Agreement, CloseInProgress, WholeFills, PlaceExit
      <4>2. ExitSide * 0 = 0 /\ ExitSide * Abs(book.qty) = -book.qty
        BY <4>1, SignTimesAbs DEF ExitSide
      <4>3. \/ qty' = [qty EXCEPT ![book.contract] = @ + 0]
            \/ qty' = [qty EXCEPT ![book.contract] = @ + -book.qty]
        BY <3>1, <4>2 DEF PlaceExit, Fills, ApplyFill
      <4> QED BY <1>2, <2>1, <4>1, <4>3 DEF Inv, TypeOK, StoreType
    <3>2. CASE ~PlaceExit
      BY <1>2, <3>2 DEF Next, EngineStep, Poll, OnTick, Handler, StartProcess, Crash, ProcessExit,
         EnterFinally, RequestSquareOff, OperatorRequests, Advance, PollStop, WallClockPoll,
         AttemptFails, OperatorPoll, PollContinues, QuietPoll, IdleTimeout, Sentinel,
         DropNotice, TickHonoursRequest, TickSquareOff, ExitSignal, EnterSignal, ExitTick,
         PendingTick, RecordEntry, RecordExit, FinishClose, SquareOff, RecordCompletion, store, vars
    <3> QED BY <3>1, <3>2
  <2> QED BY <2>1, <2>2 DEF Entry, Abs
<1>3. Inv /\ Rules /\ [Next]_vars => [Allowed]_vars
  BY <1>1, <1>2
<1> QED BY <1>3, RulesHold, PTL DEF Spec, EntriesOnlyWhenAllowed
=============================================================================
