-------------------------- MODULE PremiumExitProofs --------------------------
(* The premium-candle exit keeps its promises for any contracts, prices,      *)
(* percentages, interval and number of restarts.                              *)
EXTENDS MCPremiumExit, TLAPS

-----------------------------------------------------------------------------
(* The inductive invariant.                                                *)

\* The database.
RowSet == [known : BOOLEAN, open : BOOLEAN, price : Nat, mfe : Nat, at : 0..MaxTime]
RowType == rows \in [Contracts -> RowSet]

SnapshotSet == [contract : Contracts \cup {None}, ext : Prices \cup {0}, armed : BOOLEAN,
                trade : Nat, counted : -1..MaxTime]

SavedType ==
  /\ saved \in SnapshotSet
  /\ saved.armed => saved.ext # 0
  /\ saved.trade <= trade /\ trade \in Nat /\ mark \in -1..MaxTime

\* The engine and its strategy.
PosType ==
  /\ pos \in [contract : Contracts \cup {None}, price : Nat, mfe : Nat]
  /\ HasPosition => pos.contract \in Contracts
  /\ pending \in Contracts \cup {None}

ProgressType ==
  /\ exit \in [ext : Prices \cup {0}, armed : BOOLEAN]
  /\ exit.armed => exit.ext # 0

ClockType ==
  /\ lastTick \in -1..MaxTime /\ watermark \in -1..MaxTime /\ prev \in -1..MaxTime
  /\ counted \in -1..MaxTime /\ at \in 0..MaxTime /\ firsts \subseteq 0..MaxTime

\* A bar begins on a boundary, and the last tick was its own.
BarType ==
  /\ bar \in [start : -1..MaxTime, close : Prices \cup {0}]
  /\ bar # NoBar => /\ bar.start >= 0 /\ bar.start % Interval = 0 /\ bar.close \in Prices
                    /\ bar.start <= at /\ 0 <= lastTick /\ lastTick < bar.start + Interval

\* Where the handler is, and what that says of the position.
PcType ==
  /\ pc \in {"down", "idle", "checkpoint", "marks", "close", "clear"}
  /\ pc \in {"checkpoint", "marks", "close"} => HasPosition
  /\ pc \in {"down", "clear"} => ~HasPosition
  /\ pc # "close" => reason = None

FlatIsClean ==
  ~HasPosition => /\ exit = NoProgress /\ prev = -1 /\ bar = NoBar /\ ~suppressed
                  /\ counted = -1 /\ origin = NoOrigin

\* The one open row is the position of a living engine.
OneOpenRow ==
  /\ \A c, d \in Contracts : rows[c].open /\ rows[d].open => c = d
  /\ Alive /\ HasPosition => rows[pos.contract].open
  /\ Alive /\ ~HasPosition => \A c \in Contracts : ~rows[c].open

\* A snapshot of the trade that is open is of its contract, and no further than
\* the exit state in memory.
SnapshotIsBehind ==
  saved # NoSnapshot /\ saved.trade = trade =>
    /\ \A c \in Contracts : rows[c].open => saved.contract = c
    /\ HasPosition => exit.ext >= saved.ext /\ (saved.armed => exit.armed)

MarksAreBehind == HasPosition /\ origin # NoOrigin => pos.mfe >= rows[pos.contract].mfe

\* The previous candle is the one before the open bar, and newer than the mark.
PrevIsNeighbour ==
  prev # -1 => /\ prev >= 0 /\ bar # NoBar /\ bar.start = prev + Interval
               /\ watermark < at

\* A tick that opened a bar after the last counted one; the stream comes by it
\* again before anything the mark does not refuse.
CountedIsPast ==
  counted # -1 /\ pc # "close" =>
    \E x \in firsts :
      /\ Bucket(x) > counted
      /\ \/ x <= at /\ (bar = NoBar \/ bar.start > counted)
         \/ pc = "idle" /\ at < x /\ x <= watermark

SavedIsPast ==
  saved # NoSnapshot /\ saved.trade = trade /\ saved.counted # -1
    /\ (\E c \in Contracts : rows[c].open)
    => \E x \in firsts : Bucket(x) > saved.counted /\ x <= mark

ExitTypes == /\ RowType /\ SavedType /\ PosType /\ ProgressType /\ ClockType /\ BarType /\ PcType

ExitInv ==
  /\ ExitTypes /\ FlatIsClean /\ OneOpenRow
  /\ ForeignStateRefused /\ SnapshotIsBehind /\ MarksAreBehind
  /\ PrevIsNeighbour /\ CountedIsPast /\ SavedIsPast

-----------------------------------------------------------------------------
(* Boundaries of the interval.                                             *)

LEMMA BucketBegins ==
  ASSUME NEW t \in Nat
  PROVE  /\ Bucket(t) \in Nat /\ Bucket(t) <= t /\ t < Bucket(t) + Interval
         /\ Bucket(t) % Interval = 0 /\ Interval \in Nat \ {0}
<1>1. Interval \in Nat \ {0} /\ t % Interval \in 0..(Interval - 1)
  BY PremiumAssumption
<1>2. t = Interval * (t \div Interval) + (t % Interval) /\ t \div Interval \in Nat
  BY <1>1
<1>3. Bucket(t) = (t \div Interval) * Interval
  BY <1>1, <1>2 DEF Bucket
<1>4. \A k \in Nat : (k * Interval) % Interval = 0 /\ k * Interval \in Nat
  BY <1>1
<1> QED BY <1>1, <1>2, <1>3, <1>4

\* Two boundaries are an interval apart, or more.
LEMMA BoundariesApart ==
  ASSUME NEW a \in Nat, NEW b \in Nat, a % Interval = 0, b % Interval = 0, b < a
  PROVE  b + Interval <= a
<1>1. Interval \in Nat \ {0}
  BY PremiumAssumption
<1> DEFINE k == a \div Interval
           j == b \div Interval
<1>2. k \in Nat /\ j \in Nat /\ a = k * Interval /\ b = j * Interval
  BY <1>1
<1> HIDE DEF k, j
<1>3. j < k
  BY <1>1, <1>2
<1>4. k * Interval >= j * Interval + Interval
  BY <1>1, <1>2, <1>3
<1> QED BY <1>2, <1>4

\* A time past a boundary is in its interval or a later one.
LEMMA BucketPasses ==
  ASSUME NEW a \in Nat, NEW t \in Nat, a % Interval = 0, a <= t
  PROVE  a <= Bucket(t)
<1> SUFFICES ASSUME Bucket(t) < a PROVE FALSE
  BY BucketBegins
<1>1. Bucket(t) + Interval <= a
  BY BucketBegins, BoundariesApart
<1> QED BY <1>1, BucketBegins

-----------------------------------------------------------------------------
(* What the steps do.                                                      *)

\* The two ways of starting.
Adopts(c) ==
  ~Alive /\ pc' = "idle" /\ rows[c].open /\ Adopt(c) /\ UNCHANGED <<db, firsts, trade>>

StartsFlat ==
  /\ ~Alive /\ pc' = "idle" /\ \A c \in Contracts : ~rows[c].open
  /\ ForgetMemory /\ UNCHANGED <<db, at, counted, origin, firsts, trade>>

\* A tick of the held contract.
Watches(t, p) ==
  /\ pc = "idle" /\ HasPosition /\ HasPosition' /\ at <= t /\ at' = t
  /\ \A x \in firsts : ~(at < x /\ x < t)
  /\ pos' \in [contract : Contracts \cup {None}, price : Nat, mfe : Nat]
  /\ pos'.contract = pos.contract /\ pos.contract \in Contracts /\ pos'.mfe >= pos.mfe
  /\ UNCHANGED <<rows, saved, mark, pending, watermark, trade, origin>>

\* The tick closes a bar that is evaluated, ...
Evaluates(t, p) ==
  /\ bar # NoBar /\ bar.start < Bucket(t) /\ (watermark < 0 \/ watermark < t)
  /\ exit' = [ext |-> Extreme(bar), armed |-> Armed(bar)]
  /\ prev' = bar.start /\ counted' = bar.start /\ ~suppressed'
  /\ bar' = [start |-> Bucket(t), close |-> p] /\ firsts' = firsts \cup {t}
  /\ \/ pc' = "checkpoint" /\ reason' = None
     \/ pc' = "close"
  /\ reason' \in {"MOMENTUM_LOW", "MOMENTUM_AND_TRAIL"} => prev # -1

\* ... or not.
Builds(t, p) ==
  /\ UNCHANGED <<pc, reason, exit, prev, suppressed, counted>>
  /\ \/ /\ bar = NoBar
        /\ bar' = [start |-> Bucket(t), close |-> p] /\ firsts' = firsts \cup {t}
     \/ /\ bar # NoBar /\ bar.start < Bucket(t) /\ watermark >= t
        /\ bar' = [start |-> Bucket(t), close |-> p] /\ firsts' = firsts \cup {t}
     \/ /\ bar # NoBar /\ ~(bar.start < Bucket(t))
        /\ bar' = [start |-> bar.start, close |-> p] /\ firsts' = firsts

LEMMA StepsOf ==
  ASSUME [Next]_vars
  PROVE  \/ \E c \in Contracts : Adopts(c)
         \/ StartsFlat \/ Die \/ Close \/ Clear \/ PersistExitState \/ PersistMarks
         \/ \E t \in 0..MaxTime :
              \/ Lapse(t) \/ QuietCandle(t)
              \/ \E c \in Contracts \cup {None} : SignalCandle(t, c)
              \/ \E p \in Prices : HardExit(t, p) \/ TickAfterGap(t, p) \/ PremiumTick(t, p) \/ Open(t, p)
         \/ UNCHANGED vars
<1>1. CASE Start
  BY <1>1 DEF Start, Adopts, StartsFlat
<1>2. CASE ~Start
  BY <1>2 DEF Next
<1> QED BY <1>1, <1>2

\* The numbers of the model.
LEMMA Numbers ==
  /\ MaxTime \in Nat /\ 0 \in 0..MaxTime /\ -1 \in -1..MaxTime /\ None \notin Contracts
  /\ \A t \in 0..MaxTime : t \in Nat /\ t \in -1..MaxTime
  /\ \A p \in Prices : p \in Nat /\ p # 0 /\ p \in Prices \cup {0}
  /\ 0 \in Prices \cup {0} /\ \A p \in Prices \cup {0} : p \in Nat
BY PremiumAssumption

LEMMA WatchedMoves ==
  ASSUME ExitTypes, NEW t \in 0..MaxTime, NEW p \in Prices, Watched(t, p)
  PROVE  Watches(t, p)
<1>1. HasPosition /\ pos.contract \in Contracts /\ pos.price \in Nat /\ pos.mfe \in Nat
  BY DEF Watched, ExitTypes, PosType
<1>2. pos' = [pos EXCEPT !.mfe = Higher(pos.mfe, p - pos.price)]
  BY DEF Watched
<1>3. Higher(pos.mfe, p - pos.price) \in Nat /\ Higher(pos.mfe, p - pos.price) >= pos.mfe
  BY <1>1, Numbers DEF Higher
<1>4. /\ pos' \in [contract : Contracts \cup {None}, price : Nat, mfe : Nat]
      /\ pos'.contract = pos.contract /\ pos'.mfe = Higher(pos.mfe, p - pos.price)
  BY <1>1, <1>2, <1>3 DEF ExitTypes, PosType
<1>5. HasPosition'
  BY <1>1, <1>4, Numbers DEF HasPosition, NoPosition
<1>6. at <= t /\ at' = t /\ \A x \in firsts : ~(at < x /\ x < t)
  BY Numbers DEF Watched, Delivers, ExitTypes, ClockType
<1> QED BY <1>1, <1>3, <1>4, <1>5, <1>6 DEF Watched, Watches, db

LEMMA PremiumTickMoves ==
  ASSUME ExitTypes, NEW t \in 0..MaxTime, NEW p \in Prices, PremiumTick(t, p)
  PROVE  /\ Watches(t, p) /\ lastTick' = t /\ (t - lastTick <= Interval \/ lastTick < 0)
         /\ Evaluates(t, p) \/ Builds(t, p)
<1>1. Watches(t, p) /\ lastTick' = t
  BY WatchedMoves DEF PremiumTick
<1>2. t - lastTick <= Interval \/ lastTick < 0
  BY PremiumAssumption, Numbers DEF PremiumTick, PremiumGap, ExitTypes, ClockType
<1>3. Bucket(t) \in Nat /\ bar.start \in -1..MaxTime
  BY BucketBegins, Numbers DEF ExitTypes, BarType
<1>4. CASE Completes(t) /\ ~Refused(t)
  <2>1. Evaluate(bar) /\ bar' = NewBar(t, p) /\ firsts' = firsts \cup {t}
    BY <1>4 DEF PremiumTick, Add
  <2>2. bar # NoBar /\ bar.start < Bucket(t) /\ (watermark < 0 \/ watermark < t)
    BY <1>3, <1>4, Numbers DEF Completes, Refused, ExitTypes, ClockType
  <2>3. PICK broken \in IF MomentumMayFire THEN BOOLEAN ELSE {FALSE} :
          reason' = ReasonFor(broken, TrailFires(bar))
    BY <2>1 DEF Evaluate
  <2>4. reason' \in {"MOMENTUM_LOW", "MOMENTUM_AND_TRAIL"} => prev # -1
    BY <2>3 DEF ReasonFor, MomentumMayFire, None
  <2>5. Evaluates(t, p)
    BY <2>1, <2>2, <2>4 DEF Evaluates, Evaluate, NewBar
  <2> QED BY <1>1, <1>2, <2>5
<1>5. CASE ~(Completes(t) /\ ~Refused(t))
  <2>1. UNCHANGED <<pc, reason, exit, prev, suppressed, counted>>
    BY <1>5 DEF PremiumTick, strategyVars
  <2>2. CASE bar = NoBar
    BY <1>1, <1>2, <2>1, <2>2 DEF Builds, PremiumTick, Add, NewBar
  <2>3. CASE bar # NoBar /\ Completes(t)
    <3>1. watermark >= t /\ bar.start < Bucket(t)
      BY <1>3, <1>5, <2>3, Numbers DEF Refused, Completes, ExitTypes, ClockType
    <3> QED BY <1>1, <1>2, <2>1, <2>3, <3>1 DEF Builds, PremiumTick, Add, NewBar
  <2>4. CASE bar # NoBar /\ ~Completes(t)
    <3>1. bar' = [start |-> bar.start, close |-> p] /\ firsts' = firsts
      BY <2>4 DEF PremiumTick, Add, Absorb, ExitTypes, BarType
    <3>2. ~(bar.start < Bucket(t))
      BY <1>3, <2>4, Numbers DEF Completes
    <3> QED BY <1>1, <1>2, <2>1, <2>4, <3>1, <3>2 DEF Builds
  <2> QED BY <2>2, <2>3, <2>4
<1> QED BY <1>4, <1>5

-----------------------------------------------------------------------------
(* The types.                                                              *)

LEMMA RowOf ==
  ASSUME RowType, NEW c \in Contracts
  PROVE  rows[c].price \in Nat /\ rows[c].mfe \in Nat /\ rows[c].at \in 0..MaxTime /\ rows[c].open \in BOOLEAN
BY DEF RowSet, RowType

LEMMA SavedOf ==
  ASSUME SavedType
  PROVE  /\ saved.contract \in Contracts \cup {None} /\ saved.ext \in Prices \cup {0}
         /\ saved.armed \in BOOLEAN /\ saved.trade \in Nat /\ saved.counted \in -1..MaxTime
BY DEF SnapshotSet, SavedType

\* Rows are rows, whoever writes them.
LEMMA RowTypeStep ==
  ASSUME ExitTypes, [Next]_vars
  PROVE  RowType'
<1> USE Numbers DEF ExitTypes, RowSet, RowType
<1>1. ASSUME NEW c \in Contracts, Adopts(c) PROVE RowType'
  BY <1>1 DEF Adopts, Adopt, AdoptedPosition, Retarget, Restorable, RecoveredMark, db
<1>2. ASSUME StartsFlat PROVE RowType'
  BY <1>2 DEF StartsFlat, ForgetMemory, db
<1>3. ASSUME Die PROVE RowType'
  BY <1>3 DEF Die, ForgetMemory, db
<1>4. ASSUME Close PROVE RowType'
  BY <1>4 DEF Close, ResetExitState
<1>5. ASSUME Clear PROVE RowType'
  BY <1>5 DEF Clear, SaveStrategyState, builderVars, strategyVars, historyVars
<1>6. ASSUME PersistExitState PROVE RowType'
  BY <1>6 DEF PersistExitState, SaveStrategyState, Snapshot, builderVars, strategyVars,
         historyVars
<1>7. ASSUME PersistMarks PROVE RowType'
  <2>1. pos.mfe \in Nat
    BY DEF PosType
  <2> QED BY <1>7, <2>1 DEF PersistMarks, UpdatePositionMarks
<1>8. ASSUME NEW t \in 0..MaxTime, Lapse(t) PROVE RowType'
  BY <1>8 DEF Lapse, db, builderVars, strategyVars, historyVars
<1>9. ASSUME NEW t \in 0..MaxTime, QuietCandle(t) PROVE RowType'
  BY <1>9 DEF QuietCandle, db, builderVars, strategyVars, historyVars
<1>10. ASSUME NEW t \in 0..MaxTime, NEW c \in Contracts \cup {None}, SignalCandle(t, c)
       PROVE RowType'
  BY <1>10 DEF SignalCandle, db, builderVars, strategyVars, historyVars
<1>11. ASSUME NEW t \in 0..MaxTime, NEW p \in Prices, HardExit(t, p) PROVE RowType'
  BY <1>11, WatchedMoves DEF Watches, HardExit, builderVars, strategyVars
<1>12. ASSUME NEW t \in 0..MaxTime, NEW p \in Prices, TickAfterGap(t, p) PROVE RowType'
  BY <1>12, WatchedMoves DEF Watches, TickAfterGap, OnOptionCandleGap, OnGap, NewBar
<1>13. ASSUME NEW t \in 0..MaxTime, NEW p \in Prices, PremiumTick(t, p) PROVE RowType'
  BY <1>13, PremiumTickMoves DEF Watches, Evaluates, Builds, strategyVars
<1>14. ASSUME NEW t \in 0..MaxTime, NEW p \in Prices, Open(t, p) PROVE RowType'
  <2>1. rows[pending] \in RowSet
    BY <1>14 DEF Open, PosType
  <2>2. [rows[pending] EXCEPT !.open = TRUE, !.price = p] \in RowSet
    BY <2>1
  <2>3. [known |-> TRUE, open |-> TRUE, price |-> p, mfe |-> 0, at |-> t] \in RowSet
    OBVIOUS
  <2> QED BY <1>14, <2>2, <2>3 DEF Open
<1>15. CASE UNCHANGED vars
  BY <1>15 DEF vars, db, memory, builderVars, strategyVars, historyVars
<1> QED BY StepsOf, <1>1, <1>2, <1>3, <1>4, <1>5, <1>6, <1>7, <1>8, <1>9, <1>10, <1>11,
       <1>12, <1>13, <1>14, <1>15

\* A snapshot is of some trade up to the present one.
LEMMA SavedTypeStep ==
  ASSUME ExitTypes, [Next]_vars
  PROVE  SavedType'
<1> USE Numbers DEF ExitTypes, SnapshotSet, SavedType
<1>1. ASSUME NEW c \in Contracts, Adopts(c) PROVE SavedType'
  BY <1>1 DEF Adopts, Adopt, AdoptedPosition, Retarget, Restorable, RecoveredMark, db
<1>2. ASSUME StartsFlat PROVE SavedType'
  BY <1>2 DEF StartsFlat, ForgetMemory, db
<1>3. ASSUME Die PROVE SavedType'
  BY <1>3 DEF Die, ForgetMemory, db
<1>4. ASSUME Close PROVE SavedType'
  BY <1>4 DEF Close, Touch, ResetExitState, ClockType
<1>5. ASSUME Clear PROVE SavedType'
  <2>1. NoSnapshot \in SnapshotSet /\ NoSnapshot.trade = 0 /\ ~NoSnapshot.armed
    BY DEF NoSnapshot
  <2>2. saved' \in {saved, NoSnapshot} /\ mark' = mark /\ trade' = trade
    BY <1>5 DEF Clear, SaveStrategyState, historyVars
  <2>3. CASE saved' = NoSnapshot
    BY <2>1, <2>2, <2>3
  <2>4. CASE saved' = saved
    BY <2>2, <2>4
  <2> QED BY <2>2, <2>3, <2>4
<1>6. ASSUME PersistExitState PROVE SavedType'
  <2>1. Snapshot \in SnapshotSet
    BY DEF Snapshot, PosType, ProgressType, ClockType
  <2>2. Snapshot.trade = trade /\ (Snapshot.armed => Snapshot.ext # 0)
    BY DEF Snapshot, ProgressType
  <2>3. saved' \in {saved, Snapshot} /\ mark' \in {mark, at} /\ trade' = trade
    BY <1>6 DEF PersistExitState, SaveStrategyState, historyVars, ClockType
  <2> QED BY <2>1, <2>2, <2>3 DEF ClockType
<1>7. ASSUME PersistMarks PROVE SavedType'
  BY <1>7 DEF PersistMarks, UpdatePositionMarks, builderVars, strategyVars, historyVars
<1>8. ASSUME NEW t \in 0..MaxTime, Lapse(t) PROVE SavedType'
  BY <1>8 DEF Lapse, db, builderVars, strategyVars, historyVars
<1>9. ASSUME NEW t \in 0..MaxTime, QuietCandle(t) PROVE SavedType'
  BY <1>9 DEF QuietCandle, db, builderVars, strategyVars, historyVars
<1>10. ASSUME NEW t \in 0..MaxTime, NEW c \in Contracts \cup {None}, SignalCandle(t, c)
       PROVE SavedType'
  BY <1>10 DEF SignalCandle, db, builderVars, strategyVars, historyVars
<1>11. ASSUME NEW t \in 0..MaxTime, NEW p \in Prices, HardExit(t, p) PROVE SavedType'
  BY <1>11, WatchedMoves DEF Watches, HardExit, builderVars, strategyVars
<1>12. ASSUME NEW t \in 0..MaxTime, NEW p \in Prices, TickAfterGap(t, p) PROVE SavedType'
  BY <1>12, WatchedMoves DEF Watches, TickAfterGap, OnOptionCandleGap, OnGap, NewBar
<1>13. ASSUME NEW t \in 0..MaxTime, NEW p \in Prices, PremiumTick(t, p) PROVE SavedType'
  BY <1>13, PremiumTickMoves DEF Watches, Evaluates, Builds, strategyVars
<1>14. ASSUME NEW t \in 0..MaxTime, NEW p \in Prices, Open(t, p) PROVE SavedType'
  BY <1>14 DEF Open, Touch, Retarget, strategyVars
<1>15. CASE UNCHANGED vars
  BY <1>15 DEF vars, db, memory, builderVars, strategyVars, historyVars
<1> QED BY StepsOf, <1>1, <1>2, <1>3, <1>4, <1>5, <1>6, <1>7, <1>8, <1>9, <1>10, <1>11,
       <1>12, <1>13, <1>14, <1>15

\* An open position has a contract.
LEMMA PosTypeStep ==
  ASSUME ExitTypes, [Next]_vars
  PROVE  PosType'
<1> USE Numbers DEF ExitTypes, PosType, HasPosition, NoPosition
<1>1. ASSUME NEW c \in Contracts, Adopts(c) PROVE PosType'
  <2>1. rows[c].price \in Nat /\ rows[c].mfe \in Nat
    BY RowOf
  <2>2. pos' = [contract |-> c, price |-> rows[c].price, mfe |-> rows[c].mfe] /\ pending' = None
    BY <1>1 DEF Adopts, Adopt, AdoptedPosition
  <2> QED BY <2>1, <2>2
<1>2. ASSUME StartsFlat PROVE PosType'
  BY <1>2 DEF StartsFlat, ForgetMemory, db
<1>3. ASSUME Die PROVE PosType'
  BY <1>3 DEF Die, ForgetMemory, db
<1>4. ASSUME Close PROVE PosType'
  BY <1>4 DEF Close, ResetExitState
<1>5. ASSUME Clear PROVE PosType'
  BY <1>5 DEF Clear, SaveStrategyState, builderVars, strategyVars, historyVars
<1>6. ASSUME PersistExitState PROVE PosType'
  BY <1>6 DEF PersistExitState, SaveStrategyState, Snapshot, builderVars, strategyVars,
         historyVars
<1>7. ASSUME PersistMarks PROVE PosType'
  BY <1>7 DEF PersistMarks, UpdatePositionMarks, builderVars, strategyVars, historyVars
<1>8. ASSUME NEW t \in 0..MaxTime, Lapse(t) PROVE PosType'
  BY <1>8 DEF Lapse, db, builderVars, strategyVars, historyVars
<1>9. ASSUME NEW t \in 0..MaxTime, QuietCandle(t) PROVE PosType'
  BY <1>9 DEF QuietCandle, db, builderVars, strategyVars, historyVars
<1>10. ASSUME NEW t \in 0..MaxTime, NEW c \in Contracts \cup {None}, SignalCandle(t, c)
       PROVE PosType'
  BY <1>10 DEF SignalCandle, db, builderVars, strategyVars, historyVars
<1>11. ASSUME NEW t \in 0..MaxTime, NEW p \in Prices, HardExit(t, p) PROVE PosType'
  <2>1. Watches(t, p)
    BY <1>11, WatchedMoves DEF HardExit
  <2> QED BY <2>1 DEF Watches
<1>12. ASSUME NEW t \in 0..MaxTime, NEW p \in Prices, TickAfterGap(t, p) PROVE PosType'
  <2>1. Watches(t, p)
    BY <1>12, WatchedMoves DEF TickAfterGap
  <2> QED BY <2>1 DEF Watches
<1>13. ASSUME NEW t \in 0..MaxTime, NEW p \in Prices, PremiumTick(t, p) PROVE PosType'
  <2>1. Watches(t, p)
    BY <1>13, PremiumTickMoves
  <2> QED BY <2>1 DEF Watches
<1>14. ASSUME NEW t \in 0..MaxTime, NEW p \in Prices, Open(t, p) PROVE PosType'
  BY <1>14 DEF Open, Retarget, strategyVars
<1>15. CASE UNCHANGED vars
  BY <1>15 DEF vars, db, memory, builderVars, strategyVars, historyVars
<1> QED BY StepsOf, <1>1, <1>2, <1>3, <1>4, <1>5, <1>6, <1>7, <1>8, <1>9, <1>10, <1>11,
       <1>12, <1>13, <1>14, <1>15

\* A trail is armed by a close.
LEMMA ProgressTypeStep ==
  ASSUME ExitTypes, [Next]_vars
  PROVE  ProgressType'
<1> USE Numbers DEF ExitTypes, ProgressType, NoProgress
<1>1. ASSUME NEW c \in Contracts, Adopts(c) PROVE ProgressType'
  <2>1. exit' \in {[ext |-> saved.ext, armed |-> saved.armed], NoProgress}
    BY <1>1 DEF Adopts, Adopt
  <2>2. saved.ext \in Prices \cup {0} /\ saved.armed \in BOOLEAN /\ (saved.armed => saved.ext # 0)
    BY SavedOf DEF SavedType
  <2>3. CASE exit' = [ext |-> saved.ext, armed |-> saved.armed]
    BY <2>2, <2>3
  <2>4. CASE exit' = NoProgress
    BY <2>4
  <2> QED BY <2>1, <2>3, <2>4
<1>2. ASSUME StartsFlat PROVE ProgressType'
  BY <1>2 DEF StartsFlat, ForgetMemory, db
<1>3. ASSUME Die PROVE ProgressType'
  BY <1>3 DEF Die, ForgetMemory, db
<1>4. ASSUME Close PROVE ProgressType'
  BY <1>4 DEF Close, ResetExitState
<1>5. ASSUME Clear PROVE ProgressType'
  BY <1>5 DEF Clear, SaveStrategyState, builderVars, strategyVars, historyVars
<1>6. ASSUME PersistExitState PROVE ProgressType'
  BY <1>6 DEF PersistExitState, SaveStrategyState, Snapshot, builderVars, strategyVars,
         historyVars
<1>7. ASSUME PersistMarks PROVE ProgressType'
  BY <1>7 DEF PersistMarks, UpdatePositionMarks, builderVars, strategyVars, historyVars
<1>8. ASSUME NEW t \in 0..MaxTime, Lapse(t) PROVE ProgressType'
  BY <1>8 DEF Lapse, db, builderVars, strategyVars, historyVars
<1>9. ASSUME NEW t \in 0..MaxTime, QuietCandle(t) PROVE ProgressType'
  BY <1>9 DEF QuietCandle, db, builderVars, strategyVars, historyVars
<1>10. ASSUME NEW t \in 0..MaxTime, NEW c \in Contracts \cup {None}, SignalCandle(t, c)
       PROVE ProgressType'
  BY <1>10 DEF SignalCandle, db, builderVars, strategyVars, historyVars
<1>11. ASSUME NEW t \in 0..MaxTime, NEW p \in Prices, HardExit(t, p) PROVE ProgressType'
  BY <1>11, WatchedMoves DEF Watches, HardExit, builderVars, strategyVars
<1>12. ASSUME NEW t \in 0..MaxTime, NEW p \in Prices, TickAfterGap(t, p) PROVE ProgressType'
  BY <1>12, WatchedMoves DEF Watches, TickAfterGap, OnOptionCandleGap, OnGap, NewBar
<1>13. ASSUME NEW t \in 0..MaxTime, NEW p \in Prices, PremiumTick(t, p) PROVE ProgressType'
  <2>1. CASE Builds(t, p)
    BY <2>1 DEF Builds
  <2>2. CASE Evaluates(t, p)
    <3>1. bar.close \in Prices /\ exit.ext \in Prices \cup {0}
      BY <2>2 DEF Evaluates, BarType
    <3>2. Extreme(bar) \in Prices
      BY <3>1 DEF Extreme, Higher
    <3>3. Armed(bar) \in BOOLEAN
      BY DEF Armed
    <3>4. exit' = [ext |-> Extreme(bar), armed |-> Armed(bar)]
      BY <2>2 DEF Evaluates
    <3> QED BY <3>2, <3>3, <3>4
  <2> QED BY <1>13, <2>1, <2>2, PremiumTickMoves
<1>14. ASSUME NEW t \in 0..MaxTime, NEW p \in Prices, Open(t, p) PROVE ProgressType'
  BY <1>14 DEF Open, Retarget, strategyVars
<1>15. CASE UNCHANGED vars
  BY <1>15 DEF vars, db, memory, builderVars, strategyVars, historyVars
<1> QED BY StepsOf, <1>1, <1>2, <1>3, <1>4, <1>5, <1>6, <1>7, <1>8, <1>9, <1>10, <1>11,
       <1>12, <1>13, <1>14, <1>15

\* Times are times of the stream.
LEMMA ClockTypeStep ==
  ASSUME ExitTypes, [Next]_vars
  PROVE  ClockType'
<1> USE Numbers DEF ExitTypes, ClockType
<1>1. ASSUME NEW c \in Contracts, Adopts(c) PROVE ClockType'
  <2>1. rows[c].at \in 0..MaxTime /\ saved.counted \in -1..MaxTime /\ mark \in -1..MaxTime
    BY RowOf, SavedOf DEF SavedType
  <2>2. lastTick' = rows[c].at /\ watermark' = mark /\ prev' = -1 /\ counted' \in {saved.counted, -1}
    BY <1>1 DEF Adopts, Adopt, RecoveredMark
  <2>3. at' \in {at} \cup firsts /\ firsts' = firsts
    BY <1>1 DEF Adopts, Adopt
  <2> QED BY <2>1, <2>2, <2>3
<1>2. ASSUME StartsFlat PROVE ClockType'
  BY <1>2 DEF StartsFlat, ForgetMemory, db
<1>3. ASSUME Die PROVE ClockType'
  BY <1>3 DEF Die, ForgetMemory, db
<1>4. ASSUME Close PROVE ClockType'
  BY <1>4 DEF Close, ResetExitState
<1>5. ASSUME Clear PROVE ClockType'
  BY <1>5 DEF Clear, SaveStrategyState, builderVars, strategyVars, historyVars
<1>6. ASSUME PersistExitState PROVE ClockType'
  BY <1>6 DEF PersistExitState, SaveStrategyState, Snapshot, builderVars, strategyVars,
         historyVars
<1>7. ASSUME PersistMarks PROVE ClockType'
  BY <1>7 DEF PersistMarks, UpdatePositionMarks, builderVars, strategyVars, historyVars
<1>8. ASSUME NEW t \in 0..MaxTime, Lapse(t) PROVE ClockType'
  BY <1>8 DEF Lapse, db, builderVars, strategyVars, historyVars
<1>9. ASSUME NEW t \in 0..MaxTime, QuietCandle(t) PROVE ClockType'
  BY <1>9 DEF QuietCandle, db, builderVars, strategyVars, historyVars
<1>10. ASSUME NEW t \in 0..MaxTime, NEW c \in Contracts \cup {None}, SignalCandle(t, c)
       PROVE ClockType'
  BY <1>10 DEF SignalCandle, db, builderVars, strategyVars, historyVars
<1>11. ASSUME NEW t \in 0..MaxTime, NEW p \in Prices, HardExit(t, p) PROVE ClockType'
  BY <1>11, WatchedMoves DEF Watches, HardExit, builderVars, strategyVars
<1>12. ASSUME NEW t \in 0..MaxTime, NEW p \in Prices, TickAfterGap(t, p) PROVE ClockType'
  BY <1>12, WatchedMoves DEF Watches, TickAfterGap, OnOptionCandleGap, OnGap, NewBar
<1>13. ASSUME NEW t \in 0..MaxTime, NEW p \in Prices, PremiumTick(t, p) PROVE ClockType'
  <2>1. CASE Builds(t, p)
    BY <1>13, <2>1, PremiumTickMoves DEF Watches, Builds
  <2>2. CASE Evaluates(t, p)
    BY <1>13, <2>2, PremiumTickMoves DEF Watches, Evaluates, BarType
  <2> QED BY <1>13, <2>1, <2>2, PremiumTickMoves
<1>14. ASSUME NEW t \in 0..MaxTime, NEW p \in Prices, Open(t, p) PROVE ClockType'
  BY <1>14 DEF Open, Retarget, strategyVars
<1>15. CASE UNCHANGED vars
  BY <1>15 DEF vars, db, memory, builderVars, strategyVars, historyVars
<1> QED BY StepsOf, <1>1, <1>2, <1>3, <1>4, <1>5, <1>6, <1>7, <1>8, <1>9, <1>10, <1>11,
       <1>12, <1>13, <1>14, <1>15

\* Only a close in progress has a reason.
LEMMA PcTypeStep ==
  ASSUME ExitTypes, [Next]_vars
  PROVE  PcType'
<1> USE Numbers DEF ExitTypes, PcType, HasPosition, NoPosition
<1>1. ASSUME NEW c \in Contracts, Adopts(c) PROVE PcType'
  BY <1>1 DEF Adopts, Adopt, AdoptedPosition, Retarget, Restorable, RecoveredMark, db
<1>2. ASSUME StartsFlat PROVE PcType'
  BY <1>2 DEF StartsFlat, ForgetMemory, db
<1>3. ASSUME Die PROVE PcType'
  BY <1>3 DEF Die, ForgetMemory, db
<1>4. ASSUME Close PROVE PcType'
  BY <1>4 DEF Close, ResetExitState
<1>5. ASSUME Clear PROVE PcType'
  BY <1>5 DEF Clear, SaveStrategyState, builderVars, strategyVars, historyVars
<1>6. ASSUME PersistExitState PROVE PcType'
  BY <1>6 DEF PersistExitState, SaveStrategyState, Snapshot, builderVars, strategyVars,
         historyVars
<1>7. ASSUME PersistMarks PROVE PcType'
  BY <1>7 DEF PersistMarks, UpdatePositionMarks, builderVars, strategyVars, historyVars
<1>8. ASSUME NEW t \in 0..MaxTime, Lapse(t) PROVE PcType'
  BY <1>8 DEF Lapse, db, builderVars, strategyVars, historyVars
<1>9. ASSUME NEW t \in 0..MaxTime, QuietCandle(t) PROVE PcType'
  BY <1>9 DEF QuietCandle, db, builderVars, strategyVars, historyVars
<1>10. ASSUME NEW t \in 0..MaxTime, NEW c \in Contracts \cup {None}, SignalCandle(t, c)
       PROVE PcType'
  BY <1>10 DEF SignalCandle, db, builderVars, strategyVars, historyVars
<1>11. ASSUME NEW t \in 0..MaxTime, NEW p \in Prices, HardExit(t, p) PROVE PcType'
  BY <1>11, WatchedMoves DEF Watches, HardExit, builderVars, strategyVars
<1>12. ASSUME NEW t \in 0..MaxTime, NEW p \in Prices, TickAfterGap(t, p) PROVE PcType'
  BY <1>12, WatchedMoves DEF Watches, TickAfterGap, OnOptionCandleGap, OnGap, NewBar
<1>13. ASSUME NEW t \in 0..MaxTime, NEW p \in Prices, PremiumTick(t, p) PROVE PcType'
  <2>1. CASE Builds(t, p)
    BY <1>13, <2>1, PremiumTickMoves DEF Watches, Builds
  <2>2. CASE Evaluates(t, p)
    BY <1>13, <2>2, PremiumTickMoves DEF Watches, Evaluates
  <2> QED BY <1>13, <2>1, <2>2, PremiumTickMoves
<1>14. ASSUME NEW t \in 0..MaxTime, NEW p \in Prices, Open(t, p) PROVE PcType'
  BY <1>14 DEF Open, Retarget, strategyVars
<1>15. CASE UNCHANGED vars
  BY <1>15 DEF vars, db, memory, builderVars, strategyVars, historyVars
<1> QED BY StepsOf, <1>1, <1>2, <1>3, <1>4, <1>5, <1>6, <1>7, <1>8, <1>9, <1>10, <1>11,
       <1>12, <1>13, <1>14, <1>15

\* Every way of ending a trade forgets it.
LEMMA FlatStep ==
  ASSUME ExitTypes, FlatIsClean, [Next]_vars
  PROVE  FlatIsClean'
<1> USE DEF ExitTypes, FlatIsClean, PcType, HasPosition, NoPosition, Alive
<1>1. ASSUME NEW c \in Contracts, Adopts(c) PROVE FlatIsClean'
  <2>1. pos'.contract = c
    BY <1>1 DEF Adopts, Adopt, AdoptedPosition
  <2> QED BY <2>1, Numbers
<1>2. ASSUME StartsFlat PROVE FlatIsClean'
  BY <1>2 DEF StartsFlat, ForgetMemory, db
<1>3. ASSUME Die PROVE FlatIsClean'
  BY <1>3 DEF Die, ForgetMemory, db
<1>4. ASSUME Close PROVE FlatIsClean'
  BY <1>4 DEF Close, ResetExitState
<1>5. ASSUME Clear PROVE FlatIsClean'
  BY <1>5 DEF Clear, SaveStrategyState, builderVars, strategyVars, historyVars
<1>6. ASSUME PersistExitState PROVE FlatIsClean'
  BY <1>6 DEF PersistExitState, SaveStrategyState, Snapshot, builderVars, strategyVars,
         historyVars
<1>7. ASSUME PersistMarks PROVE FlatIsClean'
  BY <1>7 DEF PersistMarks, UpdatePositionMarks, builderVars, strategyVars, historyVars
<1>8. ASSUME NEW t \in 0..MaxTime, Lapse(t) PROVE FlatIsClean'
  BY <1>8 DEF Lapse, db, builderVars, strategyVars, historyVars
<1>9. ASSUME NEW t \in 0..MaxTime, QuietCandle(t) PROVE FlatIsClean'
  BY <1>9 DEF QuietCandle, db, builderVars, strategyVars, historyVars
<1>10. ASSUME NEW t \in 0..MaxTime, NEW c \in Contracts \cup {None}, SignalCandle(t, c)
       PROVE FlatIsClean'
  BY <1>10 DEF SignalCandle, db, builderVars, strategyVars, historyVars
<1>11. ASSUME NEW t \in 0..MaxTime, NEW p \in Prices, HardExit(t, p) PROVE FlatIsClean'
  BY <1>11, WatchedMoves DEF Watches, HardExit, builderVars, strategyVars
<1>12. ASSUME NEW t \in 0..MaxTime, NEW p \in Prices, TickAfterGap(t, p) PROVE FlatIsClean'
  BY <1>12, WatchedMoves DEF Watches, TickAfterGap, OnOptionCandleGap, OnGap, NewBar
<1>13. ASSUME NEW t \in 0..MaxTime, NEW p \in Prices, PremiumTick(t, p) PROVE FlatIsClean'
  <2> QED BY <1>13, PremiumTickMoves DEF Watches
<1>14. ASSUME NEW t \in 0..MaxTime, NEW p \in Prices, Open(t, p) PROVE FlatIsClean'
  BY <1>14 DEF Open, Retarget, strategyVars
<1>15. CASE UNCHANGED vars
  BY <1>15 DEF vars, db, memory, builderVars, strategyVars, historyVars
<1> QED BY StepsOf, <1>1, <1>2, <1>3, <1>4, <1>5, <1>6, <1>7, <1>8, <1>9, <1>10, <1>11,
       <1>12, <1>13, <1>14, <1>15

\* The builder keeps its boundaries, over silences, replays and restarts.
LEMMA BarTypeStep ==
  ASSUME ExitTypes, FlatIsClean, [Next]_vars
  PROVE  BarType'
<1> USE Numbers DEF ExitTypes, ClockType, BarType
<1>1. ASSUME NEW c \in Contracts, Adopts(c) PROVE BarType'
  BY <1>1 DEF Adopts, Adopt, Retarget, NoBar
<1>2. ASSUME StartsFlat PROVE BarType'
  BY <1>2 DEF StartsFlat, ForgetMemory, NoBar
<1>3. ASSUME Die PROVE BarType'
  BY <1>3 DEF Die, ForgetMemory, NoBar
<1>4. ASSUME Close PROVE BarType'
  BY <1>4 DEF Close, NoBar
<1>5. ASSUME Clear PROVE BarType'
  BY <1>5 DEF Clear, SaveStrategyState, builderVars, strategyVars, historyVars
<1>6. ASSUME PersistExitState PROVE BarType'
  BY <1>6 DEF PersistExitState, SaveStrategyState, Snapshot, builderVars, strategyVars,
         historyVars
<1>7. ASSUME PersistMarks PROVE BarType'
  BY <1>7 DEF PersistMarks, UpdatePositionMarks, builderVars, strategyVars, historyVars
<1>8. ASSUME NEW t \in 0..MaxTime, Lapse(t) PROVE BarType'
  BY <1>8 DEF Lapse, db, builderVars, strategyVars, historyVars
<1>9. ASSUME NEW t \in 0..MaxTime, QuietCandle(t) PROVE BarType'
  <2>1. at <= t /\ at' = t /\ bar' = bar /\ lastTick' = lastTick
    BY <1>9 DEF QuietCandle, UnderlyingCloses, Delivers, builderVars
  <2> QED BY <2>1
<1>10. ASSUME NEW t \in 0..MaxTime, NEW c \in Contracts \cup {None}, SignalCandle(t, c)
       PROVE BarType'
  <2>1. at <= t /\ at' = t /\ bar' = bar /\ lastTick' = lastTick
    BY <1>10 DEF SignalCandle, UnderlyingCloses, Delivers, builderVars
  <2> QED BY <2>1
<1>11. ASSUME NEW t \in 0..MaxTime, NEW p \in Prices, HardExit(t, p) PROVE BarType'
  BY <1>11, WatchedMoves DEF Watches, HardExit, builderVars, strategyVars
<1>12. ASSUME NEW t \in 0..MaxTime, NEW p \in Prices, TickAfterGap(t, p) PROVE BarType'
  <2>1. bar' = [start |-> Bucket(t), close |-> p] /\ lastTick' = t /\ at' = t
    BY <1>12, WatchedMoves DEF Watches, TickAfterGap, NewBar
  <2>2. /\ Bucket(t) \in 0..MaxTime /\ Bucket(t) <= t /\ t < Bucket(t) + Interval
        /\ Bucket(t) % Interval = 0
    <3>1. t \in Nat
      OBVIOUS
    <3>2. Bucket(t) \in Nat /\ Bucket(t) <= t
      BY <3>1, BucketBegins
    <3> QED BY <3>1, <3>2, BucketBegins
  <2> QED BY <2>1, <2>2 DEF NoBar
<1>13. ASSUME NEW t \in 0..MaxTime, NEW p \in Prices, PremiumTick(t, p) PROVE BarType'
  <2>1. Watches(t, p) /\ lastTick' = t /\ (Evaluates(t, p) \/ Builds(t, p))
    BY <1>13, PremiumTickMoves
  <2>2. /\ Bucket(t) \in 0..MaxTime /\ Bucket(t) <= t /\ t < Bucket(t) + Interval
        /\ Bucket(t) % Interval = 0
    <3>1. t \in Nat
      OBVIOUS
    <3>2. Bucket(t) \in Nat /\ Bucket(t) <= t
      BY <3>1, BucketBegins
    <3> QED BY <3>1, <3>2, BucketBegins
  <2>3. CASE bar' = [start |-> Bucket(t), close |-> p]
    BY <2>1, <2>2, <2>3 DEF Watches, NoBar
  <2>4. CASE bar # NoBar /\ ~(bar.start < Bucket(t)) /\ bar' = [start |-> bar.start, close |-> p]
    BY PremiumAssumption, <2>1, <2>2, <2>4 DEF Watches, NoBar
  <2> QED BY <2>1, <2>3, <2>4 DEF Evaluates, Builds
<1>14. ASSUME NEW t \in 0..MaxTime, NEW p \in Prices, Open(t, p) PROVE BarType'
  BY <1>14 DEF Open, Retarget, NoBar
<1>15. CASE UNCHANGED vars
  BY <1>15 DEF vars, db, memory, builderVars, strategyVars, historyVars
<1> QED BY StepsOf, <1>1, <1>2, <1>3, <1>4, <1>5, <1>6, <1>7, <1>8, <1>9, <1>10, <1>11,
       <1>12, <1>13, <1>14, <1>15

-----------------------------------------------------------------------------
(* The rows and the snapshot.                                              *)

\* Which rows are open after the steps that write them.
LEMMA ClosesRow ==
  ASSUME ExitTypes, Close
  PROVE  \A d \in Contracts : rows'[d].open <=> rows[d].open /\ d # pos.contract
BY DEF ExitTypes, RowSet, RowType, Close

LEMMA MarksRow ==
  ASSUME ExitTypes, PersistMarks
  PROVE  \A d \in Contracts : /\ rows'[d].open <=> rows[d].open
                              /\ rows'[d].mfe \in {rows[d].mfe, pos.mfe}
BY DEF ExitTypes, RowSet, RowType, PersistMarks, UpdatePositionMarks

LEMMA OpensRow ==
  ASSUME ExitTypes, NEW t \in 0..MaxTime, NEW p \in Prices, Open(t, p)
  PROVE  /\ pending \in Contracts /\ pos'.contract = pending /\ HasPosition'
         /\ \A d \in Contracts : rows'[d].open <=> rows[d].open \/ d = pending
<1>1. pending \in Contracts /\ pos'.contract = pending /\ HasPosition'
  BY Numbers DEF ExitTypes, PosType, Open, HasPosition, NoPosition
<1>2. rows' = [rows EXCEPT ![pending] = IF rows[pending].known
                 THEN [rows[pending] EXCEPT !.open = TRUE, !.price = p]
                 ELSE [known |-> TRUE, open |-> TRUE, price |-> p, mfe |-> 0, at |-> t]]
  BY DEF Open
<1>3. rows'[pending].open
  BY <1>1, <1>2 DEF ExitTypes, RowSet, RowType
<1>4. \A d \in Contracts : d # pending => rows'[d] = rows[d]
  BY <1>2 DEF ExitTypes, RowSet, RowType
<1> QED BY <1>1, <1>3, <1>4

\* One row is open, and it is the position of a living engine.
LEMMA OneOpenRowStep ==
  ASSUME ExitTypes, OneOpenRow, [Next]_vars
  PROVE  OneOpenRow'
<1> USE DEF OneOpenRow, Alive, HasPosition, NoPosition
<1>1. ASSUME NEW c \in Contracts, Adopts(c) PROVE OneOpenRow'
  <2>1. pos'.contract = c /\ rows' = rows /\ pc' = "idle"
    BY <1>1 DEF Adopts, Adopt, AdoptedPosition, db
  <2>2. HasPosition'
    BY <2>1, Numbers
  <2> QED BY <1>1, <2>1, <2>2 DEF Adopts
<1>2. ASSUME StartsFlat PROVE OneOpenRow'
  BY <1>2 DEF StartsFlat, ForgetMemory, db
<1>3. ASSUME Die PROVE OneOpenRow'
  BY <1>3 DEF Die, ForgetMemory, db
<1>4. ASSUME Close PROVE OneOpenRow'
  <2>1. pos' = NoPosition /\ pc = "close" /\ HasPosition /\ pos.contract \in Contracts
    BY <1>4 DEF Close, ExitTypes, PcType, PosType
  <2> QED BY <1>4, <2>1, ClosesRow
<1>5. ASSUME Clear PROVE OneOpenRow'
  BY <1>5 DEF Clear, SaveStrategyState, builderVars, strategyVars, historyVars
<1>6. ASSUME PersistExitState PROVE OneOpenRow'
  BY <1>6 DEF PersistExitState, SaveStrategyState, Snapshot, builderVars, strategyVars,
         historyVars
<1>7. ASSUME PersistMarks PROVE OneOpenRow'
  <2>1. pos' = pos /\ pc = "marks" /\ pos.contract \in Contracts
    BY <1>7 DEF PersistMarks, ExitTypes, PcType, PosType
  <2> QED BY <1>7, <2>1, MarksRow
<1>8. ASSUME NEW t \in 0..MaxTime, Lapse(t) PROVE OneOpenRow'
  BY <1>8 DEF Lapse, db, builderVars, strategyVars, historyVars
<1>9. ASSUME NEW t \in 0..MaxTime, QuietCandle(t) PROVE OneOpenRow'
  BY <1>9 DEF QuietCandle, db, builderVars, strategyVars, historyVars
<1>10. ASSUME NEW t \in 0..MaxTime, NEW c \in Contracts \cup {None}, SignalCandle(t, c)
       PROVE OneOpenRow'
  BY <1>10 DEF SignalCandle, db, builderVars, strategyVars, historyVars
<1>11. ASSUME NEW t \in 0..MaxTime, NEW p \in Prices, HardExit(t, p) PROVE OneOpenRow'
  <2>1. Watches(t, p)
    BY <1>11, WatchedMoves DEF HardExit
  <2> QED BY <2>1 DEF Watches
<1>12. ASSUME NEW t \in 0..MaxTime, NEW p \in Prices, TickAfterGap(t, p) PROVE OneOpenRow'
  <2>1. Watches(t, p)
    BY <1>12, WatchedMoves DEF TickAfterGap
  <2> QED BY <2>1 DEF Watches
<1>13. ASSUME NEW t \in 0..MaxTime, NEW p \in Prices, PremiumTick(t, p) PROVE OneOpenRow'
  <2>1. Watches(t, p)
    BY <1>13, PremiumTickMoves
  <2> QED BY <2>1 DEF Watches
<1>14. ASSUME NEW t \in 0..MaxTime, NEW p \in Prices, Open(t, p) PROVE OneOpenRow'
  <2>1. pc = "idle" /\ ~HasPosition
    BY <1>14 DEF Open
  <2> QED BY <1>14, <2>1, OpensRow
<1>15. CASE UNCHANGED vars
  BY <1>15 DEF vars, db, memory, builderVars, strategyVars, historyVars
<1> QED BY StepsOf, <1>1, <1>2, <1>3, <1>4, <1>5, <1>6, <1>7, <1>8, <1>9, <1>10, <1>11,
       <1>12, <1>13, <1>14, <1>15

\* A restored exit state is of the contract that is held.
LEMMA ForeignStep ==
  ASSUME ExitTypes, FlatIsClean, ForeignStateRefused, [Next]_vars
  PROVE  ForeignStateRefused'
<1> USE DEF ForeignStateRefused, HasPosition, NoPosition
<1>1. ASSUME NEW c \in Contracts, Adopts(c) PROVE ForeignStateRefused'
  BY <1>1 DEF Adopts, Adopt, AdoptedPosition, Restorable
<1>2. ASSUME StartsFlat PROVE ForeignStateRefused'
  BY <1>2 DEF StartsFlat, ForgetMemory, db
<1>3. ASSUME Die PROVE ForeignStateRefused'
  BY <1>3 DEF Die, ForgetMemory, db
<1>4. ASSUME Close PROVE ForeignStateRefused'
  BY <1>4 DEF Close, ResetExitState
<1>5. ASSUME Clear PROVE ForeignStateRefused'
  BY <1>5 DEF Clear, SaveStrategyState, builderVars, strategyVars, historyVars
<1>6. ASSUME PersistExitState PROVE ForeignStateRefused'
  BY <1>6 DEF PersistExitState, SaveStrategyState, Snapshot, builderVars, strategyVars,
         historyVars
<1>7. ASSUME PersistMarks PROVE ForeignStateRefused'
  BY <1>7 DEF PersistMarks, UpdatePositionMarks, builderVars, strategyVars, historyVars
<1>8. ASSUME NEW t \in 0..MaxTime, Lapse(t) PROVE ForeignStateRefused'
  BY <1>8 DEF Lapse, db, builderVars, strategyVars, historyVars
<1>9. ASSUME NEW t \in 0..MaxTime, QuietCandle(t) PROVE ForeignStateRefused'
  BY <1>9 DEF QuietCandle, db, builderVars, strategyVars, historyVars
<1>10. ASSUME NEW t \in 0..MaxTime, NEW c \in Contracts \cup {None}, SignalCandle(t, c)
       PROVE ForeignStateRefused'
  BY <1>10 DEF SignalCandle, db, builderVars, strategyVars, historyVars
<1>11. ASSUME NEW t \in 0..MaxTime, NEW p \in Prices, HardExit(t, p)
       PROVE ForeignStateRefused'
  <2>1. Watches(t, p)
    BY <1>11, WatchedMoves DEF HardExit
  <2> QED BY <1>11, <2>1 DEF Watches, HardExit, strategyVars
<1>12. ASSUME NEW t \in 0..MaxTime, NEW p \in Prices, TickAfterGap(t, p)
       PROVE ForeignStateRefused'
  <2>1. Watches(t, p)
    BY <1>12, WatchedMoves DEF TickAfterGap
  <2> QED BY <1>12, <2>1 DEF Watches, TickAfterGap, OnOptionCandleGap, OnGap
<1>13. ASSUME NEW t \in 0..MaxTime, NEW p \in Prices, PremiumTick(t, p)
       PROVE ForeignStateRefused'
  <2>1. Watches(t, p)
    BY <1>13, PremiumTickMoves
  <2> QED BY <2>1 DEF Watches
<1>14. ASSUME NEW t \in 0..MaxTime, NEW p \in Prices, Open(t, p) PROVE ForeignStateRefused'
  BY <1>14 DEF Open, Retarget, strategyVars
<1>15. CASE UNCHANGED vars
  BY <1>15 DEF vars, db, memory, builderVars, strategyVars, historyVars
<1> QED BY StepsOf, <1>1, <1>2, <1>3, <1>4, <1>5, <1>6, <1>7, <1>8, <1>9, <1>10, <1>11,
       <1>12, <1>13, <1>14, <1>15

\* An adopted position starts at its row and only gains.
LEMMA MarksStep ==
  ASSUME ExitTypes, FlatIsClean, MarksAreBehind, [Next]_vars
  PROVE  MarksAreBehind'
<1> USE DEF MarksAreBehind, HasPosition, NoPosition
<1>1. ASSUME NEW c \in Contracts, Adopts(c) PROVE MarksAreBehind'
  <2>1. pos'.mfe = rows[c].mfe /\ pos'.contract = c /\ rows' = rows
    BY <1>1 DEF Adopts, Adopt, AdoptedPosition, db
  <2> QED BY <2>1, RowOf DEF ExitTypes
<1>2. ASSUME StartsFlat PROVE MarksAreBehind'
  BY <1>2 DEF StartsFlat, ForgetMemory, db
<1>3. ASSUME Die PROVE MarksAreBehind'
  BY <1>3 DEF Die, ForgetMemory, db
<1>4. ASSUME Close PROVE MarksAreBehind'
  BY <1>4 DEF Close, ResetExitState
<1>5. ASSUME Clear PROVE MarksAreBehind'
  BY <1>5 DEF Clear, SaveStrategyState, builderVars, strategyVars, historyVars
<1>6. ASSUME PersistExitState PROVE MarksAreBehind'
  BY <1>6 DEF PersistExitState, SaveStrategyState, Snapshot, builderVars, strategyVars,
         historyVars
<1>7. ASSUME PersistMarks PROVE MarksAreBehind'
  <2>1. pos' = pos /\ origin' = origin
    BY <1>7 DEF PersistMarks, historyVars
  <2>2. HasPosition => pos.contract \in Contracts /\ pos.mfe \in Nat
    BY DEF ExitTypes, PosType
  <2> QED BY <1>7, <2>1, <2>2, MarksRow
<1>8. ASSUME NEW t \in 0..MaxTime, Lapse(t) PROVE MarksAreBehind'
  BY <1>8 DEF Lapse, db, builderVars, strategyVars, historyVars
<1>9. ASSUME NEW t \in 0..MaxTime, QuietCandle(t) PROVE MarksAreBehind'
  BY <1>9 DEF QuietCandle, db, builderVars, strategyVars, historyVars
<1>10. ASSUME NEW t \in 0..MaxTime, NEW c \in Contracts \cup {None}, SignalCandle(t, c)
       PROVE MarksAreBehind'
  BY <1>10 DEF SignalCandle, db, builderVars, strategyVars, historyVars
<1>11. ASSUME NEW t \in 0..MaxTime, NEW p \in Prices, HardExit(t, p) PROVE MarksAreBehind'
  <2>1. Watches(t, p)
    BY <1>11, WatchedMoves DEF HardExit
  <2>2. pos'.mfe >= pos.mfe /\ pos.mfe \in Nat /\ pos'.mfe \in Nat /\ rows[pos.contract].mfe \in Nat
    BY <2>1, RowOf DEF Watches, ExitTypes, PosType
  <2> QED BY <2>1, <2>2 DEF Watches
<1>12. ASSUME NEW t \in 0..MaxTime, NEW p \in Prices, TickAfterGap(t, p)
       PROVE MarksAreBehind'
  <2>1. Watches(t, p)
    BY <1>12, WatchedMoves DEF TickAfterGap
  <2>2. pos'.mfe >= pos.mfe /\ pos.mfe \in Nat /\ pos'.mfe \in Nat /\ rows[pos.contract].mfe \in Nat
    BY <2>1, RowOf DEF Watches, ExitTypes, PosType
  <2> QED BY <2>1, <2>2 DEF Watches
<1>13. ASSUME NEW t \in 0..MaxTime, NEW p \in Prices, PremiumTick(t, p)
       PROVE MarksAreBehind'
  <2>1. Watches(t, p)
    BY <1>13, PremiumTickMoves
  <2>2. pos'.mfe >= pos.mfe /\ pos.mfe \in Nat /\ pos'.mfe \in Nat /\ rows[pos.contract].mfe \in Nat
    BY <2>1, RowOf DEF Watches, ExitTypes, PosType
  <2> QED BY <2>1, <2>2 DEF Watches
<1>14. ASSUME NEW t \in 0..MaxTime, NEW p \in Prices, Open(t, p) PROVE MarksAreBehind'
  BY <1>14 DEF Open, Retarget, strategyVars
<1>15. CASE UNCHANGED vars
  BY <1>15 DEF vars, db, memory, builderVars, strategyVars, historyVars
<1> QED BY StepsOf, <1>1, <1>2, <1>3, <1>4, <1>5, <1>6, <1>7, <1>8, <1>9, <1>10, <1>11,
       <1>12, <1>13, <1>14, <1>15

\* The exit state in memory is never behind its own snapshot.
LEMMA SnapshotStep ==
  ASSUME ExitTypes, FlatIsClean, OneOpenRow, SnapshotIsBehind, [Next]_vars
  PROVE  SnapshotIsBehind'
<1> USE DEF SnapshotIsBehind, HasPosition, NoPosition
<1>1. ASSUME NEW c \in Contracts, Adopts(c) PROVE SnapshotIsBehind'
  <2>1. /\ pos'.contract = c /\ UNCHANGED <<rows, saved, trade>> /\ rows[c].open
        /\ saved.contract = c => exit' = [ext |-> saved.ext, armed |-> saved.armed]
    BY <1>1 DEF Adopts, Adopt, AdoptedPosition, Restorable, db
  <2>2. saved.ext \in Nat
    BY SavedOf, Numbers DEF ExitTypes
  <2> QED BY <2>1, <2>2
<1>2. ASSUME StartsFlat PROVE SnapshotIsBehind'
  BY <1>2 DEF StartsFlat, ForgetMemory, db
<1>3. ASSUME Die PROVE SnapshotIsBehind'
  BY <1>3 DEF Die, ForgetMemory, db
<1>4. ASSUME Close PROVE SnapshotIsBehind'
  <2> QED BY <1>4, ClosesRow DEF Close
<1>5. ASSUME Clear PROVE SnapshotIsBehind'
  <2>1. pc = "clear" /\ saved' \in {saved, NoSnapshot} /\ UNCHANGED <<rows, trade, exit, pos>>
    BY <1>5 DEF Clear, SaveStrategyState, strategyVars, historyVars
  <2> QED BY <2>1
<1>6. ASSUME PersistExitState PROVE SnapshotIsBehind'
  <2>1. HasPosition /\ saved' \in {saved, Snapshot} /\ UNCHANGED <<rows, trade, exit, pos>>
    BY <1>6
       DEF PersistExitState, SaveStrategyState, strategyVars, historyVars, ExitTypes, PcType
  <2>2. CASE saved' = Snapshot
    <3>1. Snapshot.contract = pos.contract /\ Snapshot.ext = exit.ext /\ Snapshot.armed = exit.armed
      BY DEF Snapshot
    <3>2. \A d \in Contracts : rows[d].open => pos.contract = d
      BY <1>6, <2>1 DEF OneOpenRow, Alive, PersistExitState, ExitTypes, PosType
    <3>3. exit.ext \in Nat
      BY Numbers DEF ExitTypes, ProgressType
    <3> QED BY <2>1, <2>2, <3>1, <3>2, <3>3
  <2>3. CASE saved' = saved
    BY <2>1, <2>3
  <2> QED BY <2>1, <2>2, <2>3
<1>7. ASSUME PersistMarks PROVE SnapshotIsBehind'
  <2> QED BY <1>7, MarksRow DEF PersistMarks, strategyVars, historyVars
<1>8. ASSUME NEW t \in 0..MaxTime, Lapse(t) PROVE SnapshotIsBehind'
  BY <1>8 DEF Lapse, db, builderVars, strategyVars, historyVars
<1>9. ASSUME NEW t \in 0..MaxTime, QuietCandle(t) PROVE SnapshotIsBehind'
  BY <1>9 DEF QuietCandle, db, builderVars, strategyVars, historyVars
<1>10. ASSUME NEW t \in 0..MaxTime, NEW c \in Contracts \cup {None}, SignalCandle(t, c)
       PROVE SnapshotIsBehind'
  BY <1>10 DEF SignalCandle, db, builderVars, strategyVars, historyVars
<1>11. ASSUME NEW t \in 0..MaxTime, NEW p \in Prices, HardExit(t, p) PROVE SnapshotIsBehind'
  <2>1. Watches(t, p)
    BY <1>11, WatchedMoves DEF HardExit
  <2> QED BY <1>11, <2>1 DEF Watches, HardExit, strategyVars
<1>12. ASSUME NEW t \in 0..MaxTime, NEW p \in Prices, TickAfterGap(t, p)
       PROVE SnapshotIsBehind'
  <2>1. Watches(t, p)
    BY <1>12, WatchedMoves DEF TickAfterGap
  <2> QED BY <1>12, <2>1 DEF Watches, TickAfterGap, OnOptionCandleGap, OnGap
<1>13. ASSUME NEW t \in 0..MaxTime, NEW p \in Prices, PremiumTick(t, p)
       PROVE SnapshotIsBehind'
  <2>1. Watches(t, p) /\ (Evaluates(t, p) \/ Builds(t, p))
    BY <1>13, PremiumTickMoves
  <2>2. CASE Builds(t, p)
    BY <2>1, <2>2 DEF Watches, Builds
  <2>3. CASE Evaluates(t, p)
    <3>1. exit.ext \in Nat /\ bar.close \in Nat /\ saved.ext \in Nat
      BY Numbers, SavedOf DEF ExitTypes, ProgressType, BarType
    <3>2. exit'.ext >= exit.ext /\ exit'.ext \in Nat
      BY <2>3, <3>1 DEF Evaluates, Extreme, Higher
    <3>3. exit.armed => exit'.armed
      BY <2>3 DEF Evaluates, Armed
    <3> QED BY <2>1, <3>1, <3>2, <3>3 DEF Watches
  <2> QED BY <2>1, <2>2, <2>3
<1>14. ASSUME NEW t \in 0..MaxTime, NEW p \in Prices, Open(t, p) PROVE SnapshotIsBehind'
  <2>1. saved.trade <= trade /\ saved.trade \in Nat /\ trade \in Nat
    BY SavedOf DEF ExitTypes, SavedType
  <2>2. trade' = trade + 1 /\ saved' = saved
    BY <1>14 DEF Open
  <2> QED BY <2>1, <2>2
<1>15. CASE UNCHANGED vars
  BY <1>15 DEF vars, db, memory, builderVars, strategyVars, historyVars
<1> QED BY StepsOf, <1>1, <1>2, <1>3, <1>4, <1>5, <1>6, <1>7, <1>8, <1>9, <1>10, <1>11,
       <1>12, <1>13, <1>14, <1>15

-----------------------------------------------------------------------------
(* Candles.                                                                *)

\* A bar is replaced, without a silence, by the one of the next interval.
LEMMA NextBar ==
  ASSUME ExitTypes, NEW t \in 0..MaxTime, NEW p \in Prices, PremiumTick(t, p), bar # NoBar,
         bar.start < Bucket(t)
  PROVE  Bucket(t) = bar.start + Interval
<1>1. t \in Nat /\ Interval \in Nat \ {0}
  BY Numbers, PremiumAssumption
<1>2. /\ bar.start \in Nat /\ bar.start % Interval = 0 /\ lastTick \in Int
      /\ lastTick < bar.start + Interval /\ lastTick >= 0
  BY <1>1, Numbers DEF ExitTypes, BarType, ClockType
<1>3. t - lastTick <= Interval \/ lastTick < 0
  BY PremiumTickMoves
<1>4. Bucket(t) \in Nat /\ Bucket(t) % Interval = 0 /\ Bucket(t) <= t
  BY <1>1, BucketBegins
<1>5. bar.start + Interval <= Bucket(t)
  BY <1>2, <1>4, BoundariesApart
<1>6. (bar.start + Interval) % Interval = 0
  <2> DEFINE k == bar.start \div Interval
  <2>1. k \in Nat /\ bar.start = k * Interval
    BY <1>1, <1>2
  <2> HIDE DEF k
  <2>2. bar.start + Interval = (k + 1) * Interval /\ k + 1 \in Nat
    BY <1>1, <2>1
  <2>3. \A n \in Nat : (n * Interval) % Interval = 0
    BY <1>1
  <2> QED BY <2>2, <2>3
<1>7. bar.start + Interval < Bucket(t) => bar.start + Interval + Interval <= Bucket(t)
  BY <1>1, <1>2, <1>4, <1>6, BoundariesApart
<1> QED BY <1>1, <1>2, <1>3, <1>4, <1>5, <1>7

\* The previous candle is the one before the open bar.
LEMMA NeighbourStep ==
  ASSUME ExitTypes, FlatIsClean, PrevIsNeighbour, [Next]_vars
  PROVE  PrevIsNeighbour'
<1> USE Numbers DEF PrevIsNeighbour
<1>1. ASSUME NEW c \in Contracts, Adopts(c) PROVE PrevIsNeighbour'
  BY <1>1 DEF Adopts, Adopt
<1>2. ASSUME StartsFlat PROVE PrevIsNeighbour'
  BY <1>2 DEF StartsFlat, ForgetMemory
<1>3. ASSUME Die PROVE PrevIsNeighbour'
  BY <1>3 DEF Die, ForgetMemory
<1>4. ASSUME Close PROVE PrevIsNeighbour'
  BY <1>4 DEF Close, ResetExitState
<1>5. ASSUME Clear PROVE PrevIsNeighbour'
  BY <1>5 DEF Clear, SaveStrategyState, builderVars, strategyVars, historyVars
<1>6. ASSUME PersistExitState PROVE PrevIsNeighbour'
  BY <1>6 DEF PersistExitState, SaveStrategyState, Snapshot, builderVars, strategyVars,
         historyVars
<1>7. ASSUME PersistMarks PROVE PrevIsNeighbour'
  BY <1>7 DEF PersistMarks, UpdatePositionMarks, builderVars, strategyVars, historyVars
<1>8. ASSUME NEW t \in 0..MaxTime, Lapse(t) PROVE PrevIsNeighbour'
  BY <1>8 DEF Lapse, FlatIsClean, strategyVars
<1>9. ASSUME NEW t \in 0..MaxTime, QuietCandle(t) PROVE PrevIsNeighbour'
  <2>1. at <= t /\ at' = t /\ UNCHANGED <<prev, bar, watermark>>
    BY <1>9
       DEF QuietCandle, UnderlyingCloses, Delivers, builderVars, strategyVars, ExitTypes,
           ClockType
  <2> QED BY <2>1 DEF ExitTypes, ClockType
<1>10. ASSUME NEW t \in 0..MaxTime, NEW c \in Contracts \cup {None}, SignalCandle(t, c)
       PROVE PrevIsNeighbour'
  <2>1. at <= t /\ at' = t /\ UNCHANGED <<prev, bar, watermark>>
    BY <1>10
       DEF SignalCandle, UnderlyingCloses, Delivers, builderVars, strategyVars, ExitTypes,
           ClockType
  <2> QED BY <2>1 DEF ExitTypes, ClockType
<1>11. ASSUME NEW t \in 0..MaxTime, NEW p \in Prices, HardExit(t, p) PROVE PrevIsNeighbour'
  <2>1. Watches(t, p) /\ UNCHANGED <<prev, bar>>
    BY <1>11, WatchedMoves DEF HardExit, builderVars, strategyVars
  <2> QED BY <2>1 DEF Watches, ExitTypes, ClockType
<1>12. ASSUME NEW t \in 0..MaxTime, NEW p \in Prices, TickAfterGap(t, p)
       PROVE PrevIsNeighbour'
  BY <1>12 DEF TickAfterGap, OnOptionCandleGap
<1>13. ASSUME NEW t \in 0..MaxTime, NEW p \in Prices, PremiumTick(t, p)
       PROVE PrevIsNeighbour'
  <2>1. Watches(t, p) /\ (Evaluates(t, p) \/ Builds(t, p))
    BY <1>13, PremiumTickMoves
  <2>2. at <= t /\ at' = t /\ watermark' = watermark /\ at \in Nat /\ watermark \in Int /\ t \in Nat
    BY <2>1 DEF Watches, ExitTypes, ClockType
  <2>3. CASE Builds(t, p)
    <3>1. prev # -1 => bar # NoBar /\ ~(watermark >= t)
      BY <2>2
    <3>2. prev # -1 => bar'.start = bar.start /\ bar' # NoBar
      <4>1. bar # NoBar => bar.start >= 0
        BY DEF ExitTypes, BarType
      <4> QED BY <2>3, <3>1, <4>1 DEF Builds, NoBar
    <3> QED BY <2>2, <2>3, <3>2 DEF Builds
  <2>4. CASE Evaluates(t, p)
    <3>1. Bucket(t) = bar.start + Interval /\ bar.start >= 0 /\ Bucket(t) \in Nat
      BY <1>13, <2>2, <2>4, NextBar, BucketBegins DEF Evaluates, ExitTypes, BarType
    <3>2. bar'.start = Bucket(t) /\ prev' = bar.start /\ watermark < t
      BY <2>2, <2>4 DEF Evaluates
    <3> QED BY <2>2, <3>1, <3>2 DEF NoBar
  <2> QED BY <2>1, <2>3, <2>4
<1>14. ASSUME NEW t \in 0..MaxTime, NEW p \in Prices, Open(t, p) PROVE PrevIsNeighbour'
  BY <1>14 DEF Open, FlatIsClean, strategyVars
<1>15. CASE UNCHANGED vars
  BY <1>15 DEF vars, db, memory, builderVars, strategyVars, historyVars
<1> QED BY StepsOf, <1>1, <1>2, <1>3, <1>4, <1>5, <1>6, <1>7, <1>8, <1>9, <1>10, <1>11,
       <1>12, <1>13, <1>14, <1>15

\* A tick at x, or after it, starts a bar past the counted one, or finds it.
LEMMA BarPasses ==
  ASSUME ExitTypes, NEW x \in firsts, Bucket(x) > counted, NEW t \in 0..MaxTime, x <= t
  PROVE  /\ Bucket(t) > counted
         /\ bar # NoBar /\ ~(bar.start < Bucket(t)) => bar.start > counted
<1>1. x \in Nat /\ t \in Nat /\ counted \in Int /\ bar.start \in Int
  BY Numbers DEF ExitTypes, ClockType, BarType
<1>2. Bucket(x) \in Nat /\ Bucket(x) % Interval = 0 /\ Bucket(x) <= t /\ Bucket(t) \in Nat
  BY <1>1, BucketBegins
<1>3. Bucket(x) <= Bucket(t)
  BY <1>1, <1>2, BucketPasses
<1> QED BY <1>1, <1>2, <1>3

\* What the counted candle is followed by, once a tick at t has been taken.
LEMMA TickKeepsCounted ==
  ASSUME ExitTypes, CountedIsPast, NEW t \in 0..MaxTime, NEW p \in Prices, Watches(t, p),
         counted # -1, firsts \subseteq firsts',
         \/ bar' = [start |-> Bucket(t), close |-> p]
         \/ bar # NoBar /\ ~(bar.start < Bucket(t)) /\ bar'.start = bar.start,
         pc' = "idle"
  PROVE  \E x \in firsts' :
           /\ Bucket(x) > counted
           /\ \/ x <= at' /\ bar'.start > counted
              \/ pc' = "idle" /\ at' < x /\ x <= watermark'
<1>1. pc = "idle" /\ at' = t /\ at <= t /\ watermark' = watermark
  BY DEF Watches
<1>2. PICK x \in firsts : /\ Bucket(x) > counted
                         /\ \/ x <= at /\ (bar = NoBar \/ bar.start > counted)
                            \/ at < x /\ x <= watermark
  BY <1>1 DEF CountedIsPast
<1>3. x \in Nat /\ t \in Nat /\ at \in Nat
  BY Numbers DEF ExitTypes, ClockType
<1>4. CASE x <= t
  <2>1. bar'.start > counted
    BY <1>2, <1>4, BarPasses
  <2> QED BY <1>1, <1>2, <1>4, <2>1
<1>5. CASE t < x
  BY <1>1, <1>2, <1>3, <1>5
<1> QED BY <1>3, <1>4, <1>5

\* The counted candle is behind the bar, or the stream has yet to pass it.
LEMMA CountedStep ==
  ASSUME ExitTypes, FlatIsClean, CountedIsPast, SavedIsPast, [Next]_vars
  PROVE  CountedIsPast'
<1> USE DEF FlatIsClean
<1>1. ASSUME NEW c \in Contracts, Adopts(c) PROVE CountedIsPast'
  <2>1. /\ watermark' = mark /\ bar' = NoBar /\ firsts' = firsts /\ at' \in {at} \cup firsts /\ pc' = "idle"
        /\ counted' \in {saved.counted, -1}
        /\ counted' # -1 => saved.trade = trade /\ saved.contract = c
    BY <1>1 DEF Adopts, Adopt, RecoveredMark, Retarget, Restorable
  <2>2. SUFFICES ASSUME counted' # -1 PROVE CountedIsPast'
    BY DEF CountedIsPast
  <2>3. counted' = saved.counted /\ saved # NoSnapshot /\ saved.trade = trade
    BY <2>1, <2>2, Numbers DEF NoSnapshot
  <2>4. PICK x \in firsts : Bucket(x) > saved.counted /\ x <= mark
    BY <1>1, <2>2, <2>3 DEF SavedIsPast, Adopts
  <2>5. x \in Nat /\ at' \in Nat
    BY <2>1, Numbers DEF ExitTypes, ClockType
  <2> QED BY <2>1, <2>3, <2>4, <2>5 DEF CountedIsPast
<1>2. ASSUME StartsFlat PROVE CountedIsPast'
  BY <1>2 DEF StartsFlat, Alive, ExitTypes, PcType, CountedIsPast
<1>3. ASSUME Die PROVE CountedIsPast'
  BY <1>3 DEF Die, CountedIsPast
<1>4. ASSUME Close PROVE CountedIsPast'
  BY <1>4 DEF Close, CountedIsPast
<1>5. ASSUME Clear PROVE CountedIsPast'
  <2>1. counted' = -1
    BY <1>5 DEF Clear, historyVars, ExitTypes, PcType
  <2> QED BY <2>1 DEF CountedIsPast
<1>6. ASSUME PersistExitState PROVE CountedIsPast'
  BY <1>6 DEF PersistExitState, CountedIsPast, builderVars, historyVars
<1>7. ASSUME PersistMarks PROVE CountedIsPast'
  BY <1>7 DEF PersistMarks, CountedIsPast, builderVars, historyVars
<1>8. ASSUME NEW t \in 0..MaxTime, Lapse(t) PROVE CountedIsPast'
  BY <1>8 DEF Lapse, CountedIsPast, historyVars
<1>9. ASSUME NEW t \in 0..MaxTime, QuietCandle(t) PROVE CountedIsPast'
  <2>1. UNCHANGED <<bar, counted, firsts, watermark>> /\ at' = t /\ at <= t /\ pc = "idle" /\ pc' = "checkpoint"
    BY <1>9
       DEF QuietCandle, UnderlyingCloses, Delivers, builderVars, historyVars, ExitTypes,
           ClockType
  <2>2. SUFFICES ASSUME counted # -1 PROVE CountedIsPast'
    BY <2>1 DEF CountedIsPast
  <2>3. PICK x \in firsts : /\ Bucket(x) > counted
                           /\ \/ x <= at /\ (bar = NoBar \/ bar.start > counted)
                              \/ pc = "idle" /\ at < x /\ x <= watermark
    BY <2>1, <2>2 DEF CountedIsPast
  <2>4. x \in Nat /\ at \in Nat /\ t \in Nat /\ watermark \in Int
    BY Numbers DEF ExitTypes, ClockType
  <2>5. ~(at < x /\ x <= watermark)
    BY <1>9, <2>4 DEF QuietCandle, UnderlyingCloses, Delivers, Refused
  <2> QED BY <2>1, <2>3, <2>4, <2>5 DEF CountedIsPast
<1>10. ASSUME NEW t \in 0..MaxTime, NEW c \in Contracts \cup {None}, SignalCandle(t, c)
       PROVE CountedIsPast'
  <2>1. UNCHANGED <<bar, counted, firsts, watermark>> /\ at' = t /\ at <= t /\ pc = "idle"
    BY <1>10
       DEF SignalCandle, UnderlyingCloses, Delivers, builderVars, historyVars, ExitTypes,
           ClockType
  <2>2. SUFFICES ASSUME counted # -1 PROVE CountedIsPast'
    BY <2>1 DEF CountedIsPast
  <2>3. PICK x \in firsts : /\ Bucket(x) > counted
                           /\ \/ x <= at /\ (bar = NoBar \/ bar.start > counted)
                              \/ pc = "idle" /\ at < x /\ x <= watermark
    BY <2>1, <2>2 DEF CountedIsPast
  <2>4. x \in Nat /\ at \in Nat /\ t \in Nat /\ watermark \in Int
    BY Numbers DEF ExitTypes, ClockType
  <2>5. ~(at < x /\ x <= watermark)
    BY <1>10, <2>4 DEF SignalCandle, UnderlyingCloses, Delivers, Refused
  <2> QED BY <2>1, <2>3, <2>4, <2>5 DEF CountedIsPast
<1>11. ASSUME NEW t \in 0..MaxTime, NEW p \in Prices, HardExit(t, p) PROVE CountedIsPast'
  BY <1>11 DEF HardExit, CountedIsPast
<1>12. ASSUME NEW t \in 0..MaxTime, NEW p \in Prices, TickAfterGap(t, p)
       PROVE CountedIsPast'
  <2>1. /\ Watches(t, p) /\ counted' = counted /\ pc' = pc /\ firsts' = firsts \cup {t}
        /\ bar' = [start |-> Bucket(t), close |-> p]
    BY <1>12, WatchedMoves DEF TickAfterGap, NewBar
  <2>2. SUFFICES ASSUME counted # -1 PROVE CountedIsPast'
    BY <2>1 DEF CountedIsPast
  <2> QED BY <2>1, <2>2, TickKeepsCounted DEF CountedIsPast, Watches
<1>13. ASSUME NEW t \in 0..MaxTime, NEW p \in Prices, PremiumTick(t, p) PROVE CountedIsPast'
  <2>1. Watches(t, p) /\ (Evaluates(t, p) \/ Builds(t, p))
    BY <1>13, PremiumTickMoves
  <2>2. CASE Builds(t, p)
    <3>1. counted' = counted /\ pc' = "idle" /\ firsts \subseteq firsts'
      BY <2>1, <2>2 DEF Builds, Watches
    <3>2. \/ bar' = [start |-> Bucket(t), close |-> p]
          \/ bar # NoBar /\ ~(bar.start < Bucket(t)) /\ bar'.start = bar.start
      BY <2>2 DEF Builds
    <3>3. SUFFICES ASSUME counted # -1 PROVE CountedIsPast'
      BY <3>1 DEF CountedIsPast
    <3> QED BY <2>1, <3>1, <3>2, <3>3, TickKeepsCounted DEF CountedIsPast
  <2>3. CASE Evaluates(t, p)
    <3>1. /\ counted' = bar.start /\ t \in firsts' /\ at' = t
          /\ bar'.start = Bucket(t) /\ Bucket(t) > bar.start
      <4>1. Bucket(t) \in Int /\ bar.start \in Int
        BY BucketBegins, Numbers DEF ExitTypes, BarType
      <4> QED BY <2>1, <2>3, <4>1 DEF Evaluates, Watches
    <3>2. t <= at'
      BY <3>1, Numbers
    <3> QED BY <3>1, <3>2 DEF CountedIsPast
  <2> QED BY <2>1, <2>2, <2>3
<1>14. ASSUME NEW t \in 0..MaxTime, NEW p \in Prices, Open(t, p) PROVE CountedIsPast'
  BY <1>14 DEF Open, CountedIsPast
<1>15. CASE UNCHANGED vars
  BY <1>15 DEF CountedIsPast, vars, memory, builderVars, historyVars
<1> QED BY StepsOf, <1>1, <1>2, <1>3, <1>4, <1>5, <1>6, <1>7, <1>8, <1>9, <1>10, <1>11,
       <1>12, <1>13, <1>14, <1>15

\* The mark is past the candle that the snapshot counts.
LEMMA SavedPastStep ==
  ASSUME ExitTypes, FlatIsClean, OneOpenRow, CountedIsPast, SavedIsPast, [Next]_vars
  PROVE  SavedIsPast'
<1> USE DEF SavedIsPast, FlatIsClean
<1>1. ASSUME NEW c \in Contracts, Adopts(c) PROVE SavedIsPast'
  BY <1>1 DEF Adopts, Adopt, AdoptedPosition, Retarget, Restorable, RecoveredMark, db
<1>2. ASSUME StartsFlat PROVE SavedIsPast'
  BY <1>2 DEF StartsFlat, ForgetMemory, db
<1>3. ASSUME Die PROVE SavedIsPast'
  BY <1>3 DEF Die, ForgetMemory, db
<1>4. ASSUME Close PROVE SavedIsPast'
  <2>1. \A d \in Contracts : ~rows'[d].open
    <3>1. pc = "close" /\ HasPosition /\ pos.contract \in Contracts
      BY <1>4 DEF Close, ExitTypes, PcType, PosType
    <3> QED BY <1>4, <3>1, ClosesRow DEF OneOpenRow, Alive
  <2> QED BY <2>1
<1>5. ASSUME Clear PROVE SavedIsPast'
  <2>1. saved' \in {saved, NoSnapshot} /\ UNCHANGED <<rows, mark, trade, firsts>>
    BY <1>5 DEF Clear, SaveStrategyState, historyVars
  <2> QED BY <2>1
<1>6. ASSUME PersistExitState PROVE SavedIsPast'
  <2>1. UNCHANGED <<rows, trade, firsts>> /\ (UNCHANGED <<saved, mark>> \/ (saved' = Snapshot /\ mark' = at))
    BY <1>6 DEF PersistExitState, SaveStrategyState, historyVars, ExitTypes, ClockType
  <2>2. CASE saved' = Snapshot /\ mark' = at
    <3>1. Snapshot.counted = counted
      BY DEF Snapshot
    <3> QED BY <1>6, <2>1, <2>2, <3>1 DEF PersistExitState, CountedIsPast
  <2>3. CASE UNCHANGED <<saved, mark>>
    BY <2>1, <2>3
  <2> QED BY <2>1, <2>2, <2>3
<1>7. ASSUME PersistMarks PROVE SavedIsPast'
  <2> QED BY <1>7, MarksRow DEF PersistMarks, historyVars
<1>8. ASSUME NEW t \in 0..MaxTime, Lapse(t) PROVE SavedIsPast'
  BY <1>8 DEF Lapse, db, builderVars, strategyVars, historyVars
<1>9. ASSUME NEW t \in 0..MaxTime, QuietCandle(t) PROVE SavedIsPast'
  BY <1>9 DEF QuietCandle, db, builderVars, strategyVars, historyVars
<1>10. ASSUME NEW t \in 0..MaxTime, NEW c \in Contracts \cup {None}, SignalCandle(t, c)
       PROVE SavedIsPast'
  BY <1>10 DEF SignalCandle, db, builderVars, strategyVars, historyVars
<1>11. ASSUME NEW t \in 0..MaxTime, NEW p \in Prices, HardExit(t, p) PROVE SavedIsPast'
  BY <1>11, WatchedMoves DEF Watches, HardExit, builderVars, strategyVars
<1>12. ASSUME NEW t \in 0..MaxTime, NEW p \in Prices, TickAfterGap(t, p) PROVE SavedIsPast'
  BY <1>12, WatchedMoves DEF Watches, TickAfterGap, OnOptionCandleGap, OnGap, NewBar
<1>13. ASSUME NEW t \in 0..MaxTime, NEW p \in Prices, PremiumTick(t, p) PROVE SavedIsPast'
  <2>1. Watches(t, p) /\ firsts \subseteq firsts'
    BY <1>13, PremiumTickMoves DEF Evaluates, Builds
  <2> QED BY <2>1 DEF Watches
<1>14. ASSUME NEW t \in 0..MaxTime, NEW p \in Prices, Open(t, p) PROVE SavedIsPast'
  <2>1. saved.trade <= trade /\ saved.trade \in Nat /\ trade \in Nat
    BY SavedOf DEF ExitTypes, SavedType
  <2>2. trade' = trade + 1 /\ saved' = saved
    BY <1>14 DEF Open
  <2> QED BY <2>1, <2>2
<1>15. CASE UNCHANGED vars
  BY <1>15 DEF vars, db, memory, builderVars, strategyVars, historyVars
<1> QED BY StepsOf, <1>1, <1>2, <1>3, <1>4, <1>5, <1>6, <1>7, <1>8, <1>9, <1>10, <1>11,
       <1>12, <1>13, <1>14, <1>15

-----------------------------------------------------------------------------
(* The invariant, and what follows from it.                                *)

LEMMA ExitInit == Init => ExitInv
<1> SUFFICES ASSUME Init PROVE ExitInv
  OBVIOUS
<1> USE Numbers DEF Init, NoRow, NoSnapshot, NoPosition, NoProgress, NoBar, HasPosition
<1>1. RowType
  <2>1. [known |-> FALSE, open |-> FALSE, price |-> 0, mfe |-> 0, at |-> 0]
          \in RowSet
    BY DEF RowSet
  <2> QED BY <2>1 DEF RowSet, RowType
<1>2. SavedType /\ PosType
  BY DEF SnapshotSet, SavedType, PosType
<1>3. ProgressType /\ ClockType /\ BarType /\ PcType
  BY DEF ProgressType, ClockType, BarType, PcType
<1>4. FlatIsClean /\ OneOpenRow /\ ForeignStateRefused /\ SnapshotIsBehind /\ MarksAreBehind
  BY DEF FlatIsClean, OneOpenRow, ForeignStateRefused, SnapshotIsBehind, MarksAreBehind,
         Alive
<1>5. PrevIsNeighbour /\ CountedIsPast /\ SavedIsPast
  BY DEF PrevIsNeighbour, CountedIsPast, SavedIsPast
<1> QED BY <1>1, <1>2, <1>3, <1>4, <1>5 DEF ExitInv, ExitTypes

LEMMA ExitStep == ExitInv /\ [Next]_vars => ExitInv'
<1> SUFFICES ASSUME ExitInv, [Next]_vars PROVE ExitInv'
  OBVIOUS
<1> USE DEF ExitInv
<1>1. ExitTypes'
  <2>1. RowType' /\ SavedType' /\ PosType' /\ ProgressType'
    BY RowTypeStep, SavedTypeStep, PosTypeStep, ProgressTypeStep
  <2>2. ClockType' /\ BarType' /\ PcType'
    BY ClockTypeStep, BarTypeStep, PcTypeStep
  <2> QED BY <2>1, <2>2 DEF ExitTypes
<1>2. FlatIsClean' /\ OneOpenRow' /\ ForeignStateRefused' /\ SnapshotIsBehind' /\ MarksAreBehind'
  BY FlatStep, OneOpenRowStep, ForeignStep, SnapshotStep, MarksStep
<1>3. PrevIsNeighbour' /\ CountedIsPast' /\ SavedIsPast'
  BY NeighbourStep, CountedStep, SavedPastStep
<1> QED BY <1>1, <1>2, <1>3

(* The types and the eight facts hold whatever dies, restarts and replays.    *)
THEOREM ExitInvHolds == Spec => []ExitInv
<1> QED BY ExitInit, ExitStep, PTL DEF Spec

LEMMA ExitInvIsSound == ExitInv => ExitStateIsSound
<1> SUFFICES ASSUME ExitInv PROVE TypeOK /\ ForeignStateRefused
  BY DEF ExitStateIsSound
<1> USE DEF ExitInv, ExitTypes
<1>1. pc \in {"down", "idle", "checkpoint", "marks", "close", "clear"}
  BY DEF PcType
<1>2. exit.ext \in Prices \cup {0} /\ (exit.armed => exit.ext # 0)
  BY DEF ProgressType
<1>3. ~HasPosition => exit = NoProgress /\ prev = -1 /\ bar = NoBar /\ ~suppressed
  BY DEF FlatIsClean
<1>4. bar.start >= 0 => bar.start % Interval = 0
  BY DEF BarType, NoBar
<1>5. Alive /\ HasPosition => rows[pos.contract].open
  BY DEF OneOpenRow
<1>6. saved.trade <= trade /\ mark <= MaxTime
  BY Numbers DEF SavedType
<1> QED BY <1>1, <1>2, <1>3, <1>4, <1>5, <1>6 DEF TypeOK

(* A flat engine keeps nothing of the trade it closed, and an adopted         *)
(* position never runs on another contract's exit state, for any contracts,   *)
(* prices and parameters and any number of restarts (on_position_closed,      *)
(* _restore_exit_state).                                                      *)
THEOREM ExitStateIsSoundHolds == Spec => []ExitStateIsSound
<1> QED BY ExitInvHolds, ExitInvIsSound, PTL

-----------------------------------------------------------------------------
(* What a step may not do.                                                 *)

KeepsProgress ==
  /\ saved # NoSnapshot /\ saved' # NoSnapshot /\ saved'.trade = saved.trade
       => saved'.ext >= saved.ext /\ (saved.armed => saved'.armed)
  /\ origin' # NoOrigin => pos'.mfe >= rows'[pos'.contract].mfe

LEMMA ProgressStep == ExitInv /\ ExitInv' /\ [Next]_vars => KeepsProgress
<1> SUFFICES ASSUME ExitInv, ExitInv', [Next]_vars PROVE KeepsProgress
  OBVIOUS
<1>1. origin' # NoOrigin => pos'.mfe >= rows'[pos'.contract].mfe
  BY DEF ExitInv, FlatIsClean, MarksAreBehind
<1>2. saved.ext \in Nat
  BY SavedOf, Numbers DEF ExitInv, ExitTypes
<1>3. CASE PersistExitState
  <2>1. saved' \in {saved, Snapshot} /\ HasPosition
    BY <1>3 DEF PersistExitState, SaveStrategyState, ExitInv, ExitTypes, PcType
  <2>2. Snapshot.ext = exit.ext /\ Snapshot.armed = exit.armed /\ Snapshot.trade = trade
    BY DEF Snapshot
  <2> QED BY <1>1, <1>2, <2>1, <2>2 DEF KeepsProgress, ExitInv, SnapshotIsBehind
<1>4. CASE ~PersistExitState
  <2>1. saved' = saved \/ saved' = NoSnapshot
    BY <1>4, StepsOf, WatchedMoves, PremiumTickMoves
       DEF Adopts, Adopt, StartsFlat, Die, Close, Clear, SaveStrategyState, PersistMarks, Lapse,
           QuietCandle, SignalCandle, HardExit, TickAfterGap, PremiumTick, Watched, Open, vars, db
  <2> QED BY <1>1, <1>2, <2>1 DEF KeepsProgress
<1> QED BY <1>3, <1>4

(* The stored progress of an open trade never falls, over any crashes and     *)
(* failed writes (_persist_exit_state, _persist_position_marks).              *)
THEOREM ProgressIsKeptHolds == Spec => ProgressIsKept
<1>1. ExitInv /\ ExitInv' /\ [Next]_vars => [KeepsProgress]_vars
  BY ProgressStep
<1> QED BY <1>1, ExitInvHolds, PTL DEF Spec, ProgressIsKept, KeepsProgress

ComparesNeighbours ==
  pc = "idle" /\ reason' \in {"MOMENTUM_LOW", "MOMENTUM_AND_TRAIL"}
    => prev >= 0 /\ bar.start = prev + Interval

LEMMA MomentumStep == ExitInv /\ [Next]_vars => ComparesNeighbours
<1> SUFFICES ASSUME ExitInv, [Next]_vars, pc = "idle", reason' \in {"MOMENTUM_LOW", "MOMENTUM_AND_TRAIL"}
             PROVE  prev >= 0 /\ bar.start = prev + Interval
  BY DEF ComparesNeighbours
<1>1. reason = None /\ reason' # reason
  BY DEF ExitInv, ExitTypes, PcType, None
<1>2. \E t \in 0..MaxTime, p \in Prices : PremiumTick(t, p)
  BY <1>1, StepsOf
     DEF Adopts, Alive, StartsFlat, Die, ForgetMemory, Close, Clear, PersistExitState, PersistMarks, Lapse,
         QuietCandle, SignalCandle, HardExit, TickAfterGap, Open, vars, memory, None
<1>3. PICK t \in 0..MaxTime, p \in Prices : Evaluates(t, p)
  BY <1>1, <1>2, PremiumTickMoves DEF Builds, ExitInv
<1>4. prev # -1
  BY <1>3 DEF Evaluates
<1> QED BY <1>4 DEF ExitInv, PrevIsNeighbour

(* The momentum leg closes only on two neighbouring candles of one process,   *)
(* for any interval (CombinedCandleExit.on_gap, _check_premium_candle_exit).  *)
THEOREM MomentumComparesNeighboursHolds == Spec => MomentumComparesNeighbours
<1>1. ExitInv /\ [Next]_vars => [ComparesNeighbours]_vars
  BY MomentumStep
<1> QED BY <1>1, ExitInvHolds, PTL DEF Spec, MomentumComparesNeighbours, ComparesNeighbours

CountsOnce == prev' # prev /\ prev' # -1 => prev' > counted

LEMMA CountStep == ExitInv /\ [Next]_vars => CountsOnce
<1> SUFFICES ASSUME ExitInv, [Next]_vars, prev' # prev, prev' # -1 PROVE prev' > counted
  BY DEF CountsOnce
<1>1. \E t \in 0..MaxTime, p \in Prices : PremiumTick(t, p)
  BY StepsOf
     DEF Adopts, Adopt, StartsFlat, Die, ForgetMemory, Close, ResetExitState, Clear, PersistExitState,
         PersistMarks, Lapse, QuietCandle, SignalCandle, HardExit, TickAfterGap, OnOptionCandleGap, Open,
         vars, memory, strategyVars
<1>2. PICK t \in 0..MaxTime, p \in Prices : Evaluates(t, p) /\ Watches(t, p)
  BY <1>1, PremiumTickMoves DEF Builds, ExitInv
<1>3. /\ prev' = bar.start /\ bar # NoBar /\ (watermark < 0 \/ watermark < t) /\ pc = "idle"
      /\ \A x \in firsts : ~(at < x /\ x < t)
  BY <1>2 DEF Evaluates, Watches
<1>4. bar.start >= 0 /\ bar.start \in Int /\ counted \in Int /\ t \in Nat /\ at \in Nat /\ watermark \in Int
  BY <1>3, Numbers DEF ExitInv, ExitTypes, BarType, ClockType
<1>5. CASE counted # -1
  <2>1. PICK x \in firsts : /\ Bucket(x) > counted
                            /\ \/ x <= at /\ (bar = NoBar \/ bar.start > counted)
                               \/ at < x /\ x <= watermark
    BY <1>3, <1>5 DEF ExitInv, CountedIsPast
  <2>2. x \in Nat
    BY Numbers DEF ExitInv, ExitTypes, ClockType
  <2> QED BY <1>3, <1>4, <2>1, <2>2
<1> QED BY <1>3, <1>4, <1>5

(* A candle that the stored exit state stands for is never counted again,     *)
(* however the day's ticks are replayed to a restarted worker                 *)
(* (_last_processed_candle_end).                                              *)
THEOREM CandlesCountOnceHolds == Spec => CandlesCountOnce
<1>1. ExitInv /\ [Next]_vars => [CountsOnce]_vars
  BY CountStep
<1> QED BY <1>1, ExitInvHolds, PTL DEF Spec, CandlesCountOnce, CountsOnce
=============================================================================
