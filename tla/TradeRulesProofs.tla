--------------------------- MODULE TradeRulesProofs ---------------------------
(* What is proved of the exit rules and of the simulated broker.             *)
EXTENDS ExitPolicies, MCPaperBroker, SumTheorems, TLAPS

(* The exit rules, for every set of prices and every setting of the rules.   *)

\* Premiums and closes are not negative, and a trail has a width.
PolicyParameters ==
  /\ Prices \subseteq Nat /\ ReverseCandles \in Nat \ {0}
  /\ StopPoints \in Int /\ TargetPoints \in Int
  /\ ClosePoints \in Int /\ TrailPoints \in Nat \ {0}

Close == Prices \cup {NoClose}
Run == [streak : Nat, prev : Close]
Memory == [trailing : Nat, highest_close : Close, consecutive : Run]
SeenType == [trailing : Seq(Candle), highest_close : Seq(Candle), consecutive : Seq(Candle)]

TypeOK ==
  /\ position \in Position \cup {NoPosition}
  /\ engines \in SUBSET Keys
  /\ memory \in Memory
  /\ history \in Seq(Candle)
  /\ saved \in [labels : SUBSET Keys, memory : Memory]
  /\ seen \in SeenType /\ savedSeen \in SeenType

\* A rule that is not configured remembers nothing.
OthersAreFresh ==
  /\ "trailing" \notin engines => memory.trailing = Fresh.trailing
  /\ "highest_close" \notin engines => memory.highest_close = Fresh.highest_close
  /\ "consecutive" \notin engines => memory.consecutive = Fresh.consecutive

\* The stored snapshot must stand for its own candles: it is the next memory.
Inv ==
  /\ TypeOK
  /\ OthersAreFresh
  /\ MemoryIsTheTrade
  /\ HasPosition => StandsFor(saved.memory, savedSeen, position)

-----------------------------------------------------------------------------
(* One candle, rule by rule.                                                 *)

\* A profit is a whole number of points, whichever side is held.
LEMMA ProfitIsInt ==
  ASSUME PolicyParameters, NEW p \in Position, NEW c \in Candle
  PROVE  Profit(p, c) \in Int
<1>1. p.entry \in Prices /\ c.price \in Prices
  BY DEF Position, Candle
<1>2. p.entry \in Nat /\ c.price \in Nat
  BY <1>1 DEF PolicyParameters
<1> QED BY <1>2 DEF Profit

\* The ratchet: the higher of the best profit and this candle's.
LEMMA PeakStep ==
  ASSUME PolicyParameters, NEW p \in Position, NEW c \in Candle, NEW s \in Seq(Candle),
         NEW peak \in Nat, BestProfit(peak, s, p)
  PROVE  /\ Peak(peak, p, c) \in Nat
         /\ BestProfit(Peak(peak, p, c), Append(s, c), p)
<1> DEFINE t == Append(s, c)
<1>1. /\ t \in Seq(Candle) /\ Len(t) = Len(s) + 1 /\ t[Len(t)] = c
      /\ \A i \in 1..Len(s) : t[i] = s[i]
  OBVIOUS
<1>2. /\ Profit(p, c) \in Int /\ Len(s) \in Nat
      /\ \A i \in 1..Len(s) : s[i] \in Candle /\ Profit(p, s[i]) \in Int
  BY ProfitIsInt
<1>3. Peak(peak, p, c) \in Nat
  BY <1>2 DEF Peak
<1>4. \A i \in 1..Len(t) : Profit(p, t[i]) <= Peak(peak, p, c)
  <2> TAKE i \in 1..Len(t)
  <2>1. CASE i = Len(t)
    BY <2>1, <1>1, <1>2 DEF Peak
  <2>2. CASE i # Len(t)
    <3>1. i \in 1..Len(s) /\ t[i] = s[i]
      BY <2>2, <1>1, <1>2
    <3> QED BY <3>1, <1>2 DEF Peak, BestProfit, Range1
  <2> QED BY <2>1, <2>2
<1>5. Peak(peak, p, c) = 0 \/ \E i \in 1..Len(t) : Profit(p, t[i]) = Peak(peak, p, c)
  <2>1. CASE Profit(p, c) > peak
    BY <2>1, <1>1, <1>2 DEF Peak
  <2>2. CASE ~(Profit(p, c) > peak)
    <3>1. Peak(peak, p, c) = peak
      BY <2>2 DEF Peak
    <3>2. peak = 0 \/ \E i \in 1..Len(s) : Profit(p, s[i]) = peak
      BY DEF BestProfit, Range1
    <3> QED BY <3>1, <3>2, <1>1, <1>2
  <2> QED BY <2>1, <2>2
<1> QED BY <1>3, <1>4, <1>5 DEF BestProfit, Range1

\* The extreme close: this candle's, when there is none or when it is better.
LEMMA ExtremeStep ==
  ASSUME PolicyParameters, NEW p \in Position, NEW c \in Candle, NEW s \in Seq(Candle),
         NEW x \in Close, BestClose(x, s, p)
  PROVE  /\ Extreme(x, p, c) \in Close
         /\ BestClose(Extreme(x, p, c), Append(s, c), p)
<1> DEFINE t == Append(s, c)
           y == Extreme(x, p, c)
<1>1. /\ t \in Seq(Candle) /\ Len(t) = Len(s) + 1 /\ t[Len(t)] = c /\ t # <<>>
      /\ \A i \in 1..Len(s) : t[i] = s[i]
  OBVIOUS
<1>2. /\ c.close \in Nat /\ c.close \in Prices /\ Len(s) \in Nat
      /\ \A i \in 1..Len(s) : s[i].close \in Nat
  <2>1. Prices \subseteq Nat
    BY DEF PolicyParameters
  <2>2. c.close \in Prices /\ \A d \in Candle : d.close \in Prices
    BY DEF Candle
  <2>3. \A d \in Candle : d.close \in Nat
    BY <2>1, <2>2
  <2>4. \A i \in 1..Len(s) : s[i] \in Candle
    OBVIOUS
  <2>5. \A i \in 1..Len(s) : s[i].close \in Nat
    BY <2>3, <2>4
  <2>6. Len(s) \in Nat
    OBVIOUS
  <2> QED BY <2>2, <2>3, <2>5, <2>6
<1>3. y \in Prices /\ y \in Nat /\ y # NoClose
  BY <1>2 DEF Extreme, Close, NoClose, PolicyParameters
<1>4. CASE s = <<>>
  <2>1. x = NoClose /\ y = c.close /\ Len(t) = 1 /\ t[1] = c
    BY <1>4, <1>1 DEF BestClose, Extreme
  <2> QED BY <2>1, <1>1, <1>2, <1>3 DEF BestClose, Range1, Close
<1>5. CASE s # <<>>
  <2>1. /\ x # NoClose /\ x \in Nat
        /\ \E i \in 1..Len(s) : s[i].close = x
        /\ \A i \in 1..Len(s) : IF IsLong(p) THEN s[i].close <= x ELSE s[i].close >= x
    BY <1>5 DEF BestClose, Range1, Close, NoClose, PolicyParameters
  <2>2. \A i \in 1..Len(t) : i = Len(t) \/ (i \in 1..Len(s) /\ t[i] = s[i])
    BY <1>1, <1>2
  <2>3. y = IF (IF IsLong(p) THEN c.close > x ELSE c.close < x) THEN c.close ELSE x
    BY <2>1 DEF Extreme
  <2>4. \E i \in 1..Len(t) : t[i].close = y
    BY <2>1, <2>2, <2>3, <1>1, <1>2
  <2>5. \A i \in 1..Len(t) : IF IsLong(p) THEN t[i].close <= y ELSE t[i].close >= y
    BY <2>1, <2>2, <2>3, <1>1, <1>2
  <2> QED BY <2>4, <2>5, <1>1, <1>3 DEF BestClose, Range1, Close
<1> QED BY <1>4, <1>5

\* The run: one longer on an adverse close, nothing otherwise.
LEMMA StreakStep ==
  ASSUME PolicyParameters, NEW p \in Position, NEW c \in Candle, NEW s \in Seq(Candle),
         NEW run \in Run, AdverseRun(run, s, p)
  PROVE  /\ Streak(run, p, c) \in Run
         /\ AdverseRun(Streak(run, p, c), Append(s, c), p)
<1> DEFINE t == Append(s, c)
           n == Len(s)
           r == Streak(run, p, c)
<1>1. /\ t \in Seq(Candle) /\ Len(t) = n + 1 /\ t[n + 1] = c /\ t # <<>>
      /\ \A i \in 1..n : t[i] = s[i]
  OBVIOUS
<1>2. c.close \in Prices /\ c.close # NoClose /\ n \in Nat /\ run.streak \in Nat
  <2>1. c.close \in Prices
    BY DEF Candle
  <2> QED BY <2>1 DEF PolicyParameters, NoClose, Run
<1>3. r \in Run /\ r.prev = c.close /\ r.prev # NoClose
  BY <1>2 DEF Streak, Run, Close
<1>4. CASE s = <<>>
  <2>1. r.streak = 0 /\ n = 0 /\ run.prev = NoClose
    BY <1>4 DEF AdverseRun, Streak
  <2>3. Len(t) = 1 /\ t[1] = c
    BY <2>1, <1>1
  <2> QED BY <2>1, <2>3, <1>1, <1>3 DEF AdverseRun
<1>5. CASE s # <<>>
  <2>1. /\ n > 0 /\ run.prev # NoClose /\ run.prev = s[n].close /\ run.streak < n
        /\ \A i \in n - run.streak + 1..n : Adverse(p, s[i - 1].close, s[i].close)
        /\ n - run.streak > 1 =>
             ~Adverse(p, s[n - run.streak - 1].close, s[n - run.streak].close)
    BY <1>5, <1>2 DEF AdverseRun
  <2>2. t[n] = s[n] /\ t[n + 1].close = c.close
    BY <2>1, <1>1, <1>2
  <2>3. CASE Adverse(p, s[n].close, c.close)
    <3>1. r.streak = run.streak + 1
      BY <2>1, <2>3 DEF Streak
    <3>2. \A i \in Len(t) - r.streak + 1..Len(t) : Adverse(p, t[i - 1].close, t[i].close)
      <4> TAKE i \in Len(t) - r.streak + 1..Len(t)
      <4>1. CASE i = n + 1
        <5>1. i - 1 = n
          BY <4>1, <1>2
        <5> QED BY <4>1, <5>1, <2>2, <2>3
      <4>2. CASE i # n + 1
        <5>1. i \in n - run.streak + 1..n /\ i - 1 \in 1..n /\ i \in 1..n
          BY <4>2, <3>1, <2>1, <1>1, <1>2
        <5>2. t[i] = s[i] /\ t[i - 1] = s[i - 1]
          BY <5>1, <1>1
        <5> QED BY <5>1, <5>2, <2>1
      <4> QED BY <4>1, <4>2
    <3>3. Len(t) - r.streak = n - run.streak
      BY <3>1, <1>1, <1>2
    <3>4. n - run.streak > 1 =>
            /\ t[n - run.streak] = s[n - run.streak]
            /\ t[n - run.streak - 1] = s[n - run.streak - 1]
      <4> SUFFICES ASSUME n - run.streak > 1
                   PROVE  n - run.streak \in 1..n /\ n - run.streak - 1 \in 1..n
        BY <1>1
      <4> QED BY <1>2
    <3>5. Len(t) - r.streak > 1 =>
            ~Adverse(p, t[Len(t) - r.streak - 1].close, t[Len(t) - r.streak].close)
      BY <3>3, <3>4, <2>1
    <3>6. r.streak < Len(t) /\ r.prev = t[Len(t)].close
      BY <3>1, <2>1, <1>1, <1>2, <1>3
    <3> QED BY <3>2, <3>5, <3>6, <1>1, <1>3 DEF AdverseRun
  <2>4. CASE ~Adverse(p, s[n].close, c.close)
    <3>1. r.streak = 0
      BY <2>1, <2>4 DEF Streak
    <3>2. Len(t) - r.streak = n + 1 /\ n + 1 - 1 = n
      BY <3>1, <1>1, <1>2
    <3>3. ~Adverse(p, t[Len(t) - r.streak - 1].close, t[Len(t) - r.streak].close)
      <4>1. Len(t) - r.streak - 1 = n
        BY <3>2, <1>2
      <4> QED BY <4>1, <3>2, <2>2, <2>4
    <3>4. \A i \in Len(t) - r.streak + 1..Len(t) : FALSE
      BY <3>1, <1>1, <1>2
    <3>5. r.streak < Len(t) /\ r.prev = t[Len(t)].close
      BY <3>1, <1>1, <1>2, <1>3
    <3> QED BY <3>3, <3>4, <3>5, <1>1, <1>3 DEF AdverseRun
  <2> QED BY <2>3, <2>4
<1> QED BY <1>4, <1>5
-----------------------------------------------------------------------------
(* The whole memory.                                                         *)

\* Nothing remembered stands for nothing seen.
LEMMA FreshStands ==
  ASSUME NEW p
  PROVE  StandsFor(Fresh, Unseen, p)
<1>1. /\ Unseen.trailing = <<>> /\ Unseen.highest_close = <<>> /\ Unseen.consecutive = <<>>
      /\ Fresh.trailing = 0 /\ Fresh.highest_close = NoClose
      /\ Fresh.consecutive.streak = 0 /\ Fresh.consecutive.prev = NoClose
  BY DEF Unseen, Fresh
<1>2. BestProfit(Fresh.trailing, Unseen.trailing, p)
  BY <1>1 DEF BestProfit, Range1
<1>3. BestClose(Fresh.highest_close, Unseen.highest_close, p)
  BY <1>1 DEF BestClose
<1>4. AdverseRun(Fresh.consecutive, Unseen.consecutive, p)
  BY <1>1 DEF AdverseRun
<1> QED BY <1>2, <1>3, <1>4 DEF StandsFor

LEMMA FreshIsMemory == Fresh \in Memory /\ Unseen \in SeenType
BY DEF Fresh, Unseen, Memory, Run, Close, SeenType

\* The memory after a candle is a memory, of the candles with that one added.
LEMMA AdvanceStands ==
  ASSUME PolicyParameters, TypeOK, NEW p \in Position, NEW c \in Candle,
         StandsFor(memory, seen, p)
  PROVE  /\ Advance(memory, engines, p, c) \in Memory
         /\ Seen(engines, c) \in SeenType
         /\ StandsFor(Advance(memory, engines, p, c), Seen(engines, c), p)
<1> DEFINE m == Advance(memory, engines, p, c)
           s == Seen(engines, c)
<1>1. /\ memory.trailing \in Nat /\ memory.highest_close \in Close
      /\ memory.consecutive \in Run
      /\ seen.trailing \in Seq(Candle) /\ seen.highest_close \in Seq(Candle)
      /\ seen.consecutive \in Seq(Candle)
  BY DEF TypeOK, Memory, SeenType
<1>2. /\ m.trailing \in Nat /\ s.trailing \in Seq(Candle)
      /\ BestProfit(m.trailing, s.trailing, p)
  <2>1. BestProfit(memory.trailing, seen.trailing, p)
    BY DEF StandsFor
  <2>2. CASE "trailing" \in engines
    <3>1. m.trailing = Peak(memory.trailing, p, c) /\ s.trailing = Append(seen.trailing, c)
      BY <2>2 DEF Advance, Seen
    <3>2. Append(seen.trailing, c) \in Seq(Candle)
      BY <1>1
    <3> QED BY <3>1, <3>2, <2>1, <1>1, PeakStep
  <2>3. CASE "trailing" \notin engines
    <3>1. m.trailing = memory.trailing /\ s.trailing = seen.trailing
      BY <2>3 DEF Advance, Seen
    <3> QED BY <3>1, <2>1, <1>1
  <2> QED BY <2>2, <2>3
<1>3. /\ m.highest_close \in Close /\ s.highest_close \in Seq(Candle)
      /\ BestClose(m.highest_close, s.highest_close, p)
  <2>1. BestClose(memory.highest_close, seen.highest_close, p)
    BY DEF StandsFor
  <2>2. CASE "highest_close" \in engines
    <3>1. /\ m.highest_close = Extreme(memory.highest_close, p, c)
          /\ s.highest_close = Append(seen.highest_close, c)
      BY <2>2 DEF Advance, Seen
    <3>2. Append(seen.highest_close, c) \in Seq(Candle)
      BY <1>1
    <3> QED BY <3>1, <3>2, <2>1, <1>1, ExtremeStep
  <2>3. CASE "highest_close" \notin engines
    <3>1. m.highest_close = memory.highest_close /\ s.highest_close = seen.highest_close
      BY <2>3 DEF Advance, Seen
    <3> QED BY <3>1, <2>1, <1>1
  <2> QED BY <2>2, <2>3
<1>4. /\ m.consecutive \in Run /\ s.consecutive \in Seq(Candle)
      /\ AdverseRun(m.consecutive, s.consecutive, p)
  <2>1. AdverseRun(memory.consecutive, seen.consecutive, p)
    BY DEF StandsFor
  <2>2. CASE "consecutive" \in engines
    <3>1. /\ m.consecutive = Streak(memory.consecutive, p, c)
          /\ s.consecutive = Append(seen.consecutive, c)
      BY <2>2 DEF Advance, Seen
    <3>2. Append(seen.consecutive, c) \in Seq(Candle)
      BY <1>1
    <3> QED BY <3>1, <3>2, <2>1, <1>1, StreakStep
  <2>3. CASE "consecutive" \notin engines
    <3>1. m.consecutive = memory.consecutive /\ s.consecutive = seen.consecutive
      BY <2>3 DEF Advance, Seen
    <3> QED BY <3>1, <2>1, <1>1
  <2> QED BY <2>2, <2>3
<1>5. m \in Memory
  BY <1>2, <1>3, <1>4 DEF Advance, Memory
<1>6. s \in SeenType
  BY <1>2, <1>3, <1>4 DEF Seen, SeenType
<1> QED BY <1>2, <1>3, <1>4, <1>5, <1>6 DEF StandsFor

\* What is restored stands for the candles of the snapshot, rule by rule.
LEMMA RestoreStands ==
  ASSUME TypeOK, NEW E \in SUBSET Keys, Restart(E)
  PROVE  /\ memory' \in Memory /\ seen' \in SeenType
         /\ \A p \in Position :
              StandsFor(saved.memory, savedSeen, p) => StandsFor(memory', seen', p)
<1> DEFINE known == saved.labels \cap E
<1>1. /\ saved.memory.trailing \in Nat /\ saved.memory.highest_close \in Close
      /\ saved.memory.consecutive \in Run
      /\ savedSeen.trailing \in Seq(Candle) /\ savedSeen.highest_close \in Seq(Candle)
      /\ savedSeen.consecutive \in Seq(Candle)
  <2>1. saved.memory \in Memory /\ savedSeen \in SeenType
    BY DEF TypeOK
  <2> QED BY <2>1 DEF Memory, SeenType
<1>2. IF "trailing" \in known
        THEN memory'.trailing = saved.memory.trailing /\ seen'.trailing = savedSeen.trailing
        ELSE memory'.trailing = Fresh.trailing /\ seen'.trailing = <<>>
  BY DEF Restart, Restore
<1>3. IF "highest_close" \in known
        THEN /\ memory'.highest_close = saved.memory.highest_close
             /\ seen'.highest_close = savedSeen.highest_close
        ELSE memory'.highest_close = Fresh.highest_close /\ seen'.highest_close = <<>>
  BY DEF Restart, Restore
<1>4. IF "consecutive" \in known
        THEN /\ memory'.consecutive = saved.memory.consecutive
             /\ seen'.consecutive = savedSeen.consecutive
        ELSE memory'.consecutive = Fresh.consecutive /\ seen'.consecutive = <<>>
  BY DEF Restart, Restore
<1>5. /\ Fresh.trailing \in Nat /\ Fresh.highest_close \in Close /\ Fresh.consecutive \in Run
      /\ <<>> \in Seq(Candle)
  BY DEF Fresh, Close, Run
<1>6. memory' \in Memory
  <2>1. /\ memory'.trailing \in Nat /\ memory'.highest_close \in Close
        /\ memory'.consecutive \in Run
    BY <1>1, <1>2, <1>3, <1>4, <1>5
  <2>2. memory' = [trailing |-> memory'.trailing, highest_close |-> memory'.highest_close,
                   consecutive |-> memory'.consecutive]
    BY DEF Restart, Restore
  <2> QED BY <2>1, <2>2 DEF Memory
<1>7. seen' \in SeenType
  <2>1. /\ seen'.trailing \in Seq(Candle) /\ seen'.highest_close \in Seq(Candle)
        /\ seen'.consecutive \in Seq(Candle)
    BY <1>1, <1>2, <1>3, <1>4, <1>5
  <2>2. seen' = [trailing |-> seen'.trailing, highest_close |-> seen'.highest_close,
                 consecutive |-> seen'.consecutive]
    BY DEF Restart
  <2> QED BY <2>1, <2>2 DEF SeenType
<1>8. ASSUME NEW p \in Position, StandsFor(saved.memory, savedSeen, p)
      PROVE  StandsFor(memory', seen', p)
  <2>1. StandsFor(Fresh, Unseen, p)
    BY FreshStands
  <2>2. Unseen.trailing = <<>> /\ Unseen.highest_close = <<>> /\ Unseen.consecutive = <<>>
    BY DEF Unseen
  <2>3. BestProfit(memory'.trailing, seen'.trailing, p)
    BY <1>2, <1>8, <2>1, <2>2 DEF StandsFor
  <2>4. BestClose(memory'.highest_close, seen'.highest_close, p)
    BY <1>3, <1>8, <2>1, <2>2 DEF StandsFor
  <2>5. AdverseRun(memory'.consecutive, seen'.consecutive, p)
    BY <1>4, <1>8, <2>1, <2>2 DEF StandsFor
  <2> QED BY <2>3, <2>4, <2>5 DEF StandsFor
<1> QED BY <1>6, <1>7, <1>8
-----------------------------------------------------------------------------
(* The trade.                                                                *)

LEMMA InitInv == Init => Inv
<1> SUFFICES ASSUME Init PROVE Inv
  OBVIOUS
<1>1. ~HasPosition
  BY DEF Init, HasPosition
<1>2. saved \in [labels : SUBSET Keys, memory : Memory]
  BY FreshIsMemory DEF Init, NoSnapshot
<1>3. memory \in Memory /\ seen \in SeenType /\ savedSeen \in SeenType
  BY FreshIsMemory DEF Init
<1>4. TypeOK
  BY <1>2, <1>3 DEF Init, TypeOK
<1> QED BY <1>1, <1>4 DEF Init, Inv, OthersAreFresh, MemoryIsTheTrade

LEMMA NextInv == ASSUME PolicyParameters PROVE Inv /\ [Next]_vars => Inv'
<1> SUFFICES ASSUME Inv, [Next]_vars PROVE Inv'
  OBVIOUS
<1> USE DEF MemoryIsTheTrade
<1>1. ASSUME NEW p \in Position, Open(p) PROVE Inv'
  <2>1. /\ position' = p /\ memory' = Fresh /\ seen' = Unseen /\ saved' = NoSnapshot
        /\ savedSeen' = Unseen /\ engines' = engines /\ history' = history
    BY <1>1 DEF Open
  <2>2. saved' \in [labels : SUBSET Keys, memory : Memory] /\ saved'.memory = Fresh
    BY <2>1, FreshIsMemory DEF NoSnapshot
  <2>3. TypeOK'
    BY <2>1, <2>2, FreshIsMemory DEF Inv, TypeOK
  <2>4. StandsFor(memory', seen', position') /\ StandsFor(saved'.memory, savedSeen', position')
    BY <2>1, <2>2, FreshStands
  <2> QED BY <2>1, <2>3, <2>4 DEF Inv, OthersAreFresh
<1>2. ASSUME NEW c \in Candle, CandleCloses(c) PROVE Inv'
  <2>1. /\ HasPosition /\ memory' = Advance(memory, engines, position, c)
        /\ seen' = Seen(engines, c) /\ history' = <<c>>
        /\ position' = position \/ position' = NoPosition
        /\ engines' = engines /\ saved' = saved /\ savedSeen' = savedSeen
    BY <1>2 DEF CandleCloses
  <2>2. position \in Position /\ StandsFor(memory, seen, position)
    BY <2>1 DEF Inv, TypeOK, HasPosition
  <2>3. memory' \in Memory /\ seen' \in SeenType /\ StandsFor(memory', seen', position)
    BY <2>1, <2>2, AdvanceStands DEF Inv
  <2>4. history' \in Seq(Candle)
    BY <2>1
  <2>5. TypeOK'
    BY <2>1, <2>3, <2>4 DEF Inv, TypeOK
  <2>6. OthersAreFresh'
    BY <2>1 DEF Inv, OthersAreFresh, Advance
  <2> QED BY <2>1, <2>3, <2>5, <2>6 DEF Inv, HasPosition
<1>3. ASSUME NEW c \in Candle, FlatCandle(c) PROVE Inv'
  <2>1. /\ ~HasPosition /\ history' = <<c>> /\ position' = position /\ engines' = engines
        /\ memory' = memory /\ saved' = saved /\ seen' = seen /\ savedSeen' = savedSeen
    BY <1>3 DEF FlatCandle
  <2>2. history' \in Seq(Candle)
    BY <2>1
  <2>3. TypeOK'
    BY <2>1, <2>2 DEF Inv, TypeOK
  <2> QED BY <2>1, <2>3 DEF Inv, OthersAreFresh, HasPosition
<1>4. CASE Checkpoint
  <2>1. /\ HasPosition /\ saved' = Snapshot(memory, engines) /\ savedSeen' = seen
        /\ position' = position /\ engines' = engines /\ memory' = memory
        /\ history' = history /\ seen' = seen
    BY <1>4 DEF Checkpoint
  <2>2. Labels(memory, engines) \in SUBSET Keys
    BY DEF Inv, TypeOK, Labels
  <2>3. saved' \in [labels : SUBSET Keys, memory : Memory] /\ saved'.memory = memory
    BY <2>1, <2>2 DEF Inv, TypeOK, Snapshot
  <2>4. TypeOK'
    BY <2>1, <2>3 DEF Inv, TypeOK
  <2> QED BY <2>1, <2>3, <2>4 DEF Inv, OthersAreFresh, HasPosition
<1>5. ASSUME NEW E \in SUBSET Keys, Restart(E) PROVE Inv'
  <2>1. /\ engines' = E /\ history' = <<>> /\ position' = position
        /\ saved' = saved /\ savedSeen' = savedSeen
    BY <1>5 DEF Restart
  <2>2. /\ memory' \in Memory /\ seen' \in SeenType
        /\ \A p \in Position :
             StandsFor(saved.memory, savedSeen, p) => StandsFor(memory', seen', p)
    BY <1>5, RestoreStands DEF Inv
  <2>3. history' \in Seq(Candle)
    BY <2>1
  <2>4. TypeOK'
    BY <2>1, <2>2, <2>3 DEF Inv, TypeOK
  <2>5. HasPosition' => /\ StandsFor(saved.memory, savedSeen, position)
                        /\ StandsFor(memory', seen', position)
    BY <2>1, <2>2 DEF Inv, TypeOK, HasPosition
  <2>6. OthersAreFresh'
    BY <1>5, <2>1 DEF OthersAreFresh, Restart, Restore
  <2> QED BY <2>1, <2>4, <2>5, <2>6 DEF Inv, HasPosition
<1>6. CASE UNCHANGED vars
  BY <1>6 DEF vars, Inv, TypeOK, OthersAreFresh, HasPosition
<1> QED BY <1>1, <1>2, <1>3, <1>4, <1>5, <1>6 DEF Next

\* The inductive invariant holds throughout.
LEMMA InvHolds == ASSUME PolicyParameters PROVE Spec => []Inv
<1>1. Init => Inv
  BY InitInv
<1>2. Inv /\ [Next]_vars => Inv'
  BY NextInv
<1> QED BY <1>1, <1>2, PTL DEF Spec

(* Whatever was missed between a checkpoint and a restart, and whatever was   *)
(* switched on or off, a rule decides on what its own candles say.            *)
THEOREM MemoryIsTheTradeHolds == ASSUME PolicyParameters PROVE Spec => []MemoryIsTheTrade
<1>1. Inv => MemoryIsTheTrade
  BY DEF Inv
<1> QED BY <1>1, InvHolds, PTL

-----------------------------------------------------------------------------
(* What an exit is attributed to.                                            *)

\* Any set of rules that fire has a first one.
LEMMA FirstFires ==
  ASSUME NEW S \in SUBSET Keys, S # {}
  PROVE  First(S) \in S
<1>1. \E k \in S : \A j \in S : Priority[k] <= Priority[j]
  <2>1. CASE "stoploss" \in S
    BY <2>1 DEF Priority, Keys
  <2>2. CASE "target" \in S /\ "stoploss" \notin S
    BY <2>2 DEF Priority, Keys
  <2>3. CASE "momentum_close" \in S /\ S \cap {"stoploss", "target"} = {}
    BY <2>3 DEF Priority, Keys
  <2>4. CASE "momentum_low" \in S /\ S \cap {"stoploss", "target", "momentum_close"} = {}
    BY <2>4 DEF Priority, Keys
  <2>5. CASE /\ "highest_close" \in S
             /\ S \subseteq {"highest_close", "consecutive", "supertrend", "trailing", "square_off"}
    BY <2>5 DEF Priority, Keys
  <2>6. CASE /\ "consecutive" \in S
             /\ S \subseteq {"consecutive", "supertrend", "trailing", "square_off"}
    BY <2>6 DEF Priority, Keys
  <2>7. CASE "supertrend" \in S /\ S \subseteq {"supertrend", "trailing", "square_off"}
    BY <2>7 DEF Priority, Keys
  <2>8. CASE "trailing" \in S /\ S \subseteq {"trailing", "square_off"}
    BY <2>8 DEF Priority, Keys
  <2>9. CASE S = {"square_off"}
    BY <2>9 DEF Priority, Keys
  <2> QED BY <2>1, <2>2, <2>3, <2>4, <2>5, <2>6, <2>7, <2>8, <2>9 DEF Keys
<1> QED BY <1>1 DEF First

\* Only a candle makes a rule fire, and the rule has taken that candle in.
LEMMA FiringHasSeen ==
  ASSUME PolicyParameters, Inv, [Next]_vars, NEW k \in Keys,
         lastFired # k, lastFired' = k
  PROVE  \E c \in Candle :
           /\ k \in engines /\ Fires(k, memory', history, position, c)
           /\ position \in Position
           /\ memory' \in Memory /\ seen' = Seen(engines, c) /\ seen' \in SeenType
           /\ StandsFor(memory', seen', position)
<1>1. k # None
  BY DEF Keys, None
<1>2. PICK c \in Candle : CandleCloses(c)
  BY <1>1 DEF Next, Open, FlatCandle, Checkpoint, Restart, vars
<1> DEFINE firing == Firing(engines, memory', history, position, c)
<1>3. firing # {} /\ k = First(firing)
  BY <1>1, <1>2 DEF CandleCloses
<1>4. firing \in SUBSET Keys
  BY DEF Inv, TypeOK, Firing
<1>5. k \in firing
  BY <1>3, <1>4, FirstFires
<1>6. k \in engines /\ Fires(k, memory', history, position, c)
  BY <1>5 DEF Firing
<1>7. /\ HasPosition /\ memory' = Advance(memory, engines, position, c)
      /\ seen' = Seen(engines, c)
  BY <1>2 DEF CandleCloses
<1>8. position \in Position /\ StandsFor(memory, seen, position)
  BY <1>7 DEF Inv, TypeOK, HasPosition, MemoryIsTheTrade
<1>9. memory' \in Memory /\ seen' \in SeenType /\ StandsFor(memory', seen', position)
  BY <1>7, <1>8, AdvanceStands DEF Inv
<1> QED BY <1>6, <1>7, <1>8, <1>9

\* The trail closes on less than a profit that an earlier candle of this trade showed.
THEOREM TrailGivesBackHolds == ASSUME PolicyParameters PROVE Spec => TrailGivesBack
<1>1. Inv /\ [Next]_vars => ProfitIsGivenBack
  <2> SUFFICES ASSUME Inv, [Next]_vars, lastFired # "trailing", lastFired' = "trailing"
               PROVE  LET s == seen'.trailing IN
                      \E i \in 1..Len(s) - 1 :
                        /\ Profit(position, s[i]) > 0
                        /\ Profit(position, s[i]) - Profit(position, s[Len(s)]) >= TrailPoints
    BY DEF ProfitIsGivenBack
  <2> DEFINE s == seen'.trailing
             peak == memory'.trailing
  <2>1. "trailing" \in Keys
    BY DEF Keys
  <2>2. PICK c \in Candle :
           /\ "trailing" \in engines /\ Fires("trailing", memory', history, position, c)
           /\ position \in Position
           /\ memory' \in Memory /\ seen' = Seen(engines, c) /\ seen' \in SeenType
           /\ StandsFor(memory', seen', position)
    BY <2>1, FiringHasSeen
  <2>3. peak > 0 /\ peak - Profit(position, c) >= TrailPoints /\ peak \in Nat
    BY <2>2 DEF Fires, Trailing, Memory
  <2>4. PICK i \in 1..Len(s) : Profit(position, s[i]) = peak
    BY <2>2, <2>3 DEF StandsFor, BestProfit, Range1
  <2>5. s = Append(seen.trailing, c) /\ seen.trailing \in Seq(Candle)
    BY <2>2 DEF Seen, Inv, TypeOK, SeenType
  <2>6. s[Len(s)] = c /\ Len(s) \in Nat
    BY <2>5
  <2>7. TrailPoints > 0 /\ TrailPoints \in Nat
    BY DEF PolicyParameters
  <2>8. Profit(position, c) \in Int
    BY <2>2, ProfitIsInt
  <2>9. i # Len(s)
    BY <2>3, <2>4, <2>6, <2>7, <2>8
  <2> QED BY <2>3, <2>4, <2>6, <2>9
<1> QED BY <1>1, InvHolds, PTL DEF Spec, TrailGivesBack

\* A reversal exit is a run of adverse closes, none of them of another trade.
THEOREM ReversalIsARunHolds == ASSUME PolicyParameters PROVE Spec => ReversalIsARun
<1>1. Inv /\ [Next]_vars => RunIsReal
  <2> SUFFICES ASSUME Inv, [Next]_vars, lastFired # "consecutive", lastFired' = "consecutive"
               PROVE  LET s == seen'.consecutive  n == Len(s) IN
                      /\ n > ReverseCandles
                      /\ \A i \in n - ReverseCandles + 1..n :
                           Adverse(position, s[i - 1].close, s[i].close)
    BY DEF RunIsReal
  <2> DEFINE s == seen'.consecutive
             run == memory'.consecutive
  <2>1. "consecutive" \in Keys
    BY DEF Keys
  <2>2. PICK c \in Candle :
           /\ "consecutive" \in engines /\ Fires("consecutive", memory', history, position, c)
           /\ position \in Position
           /\ memory' \in Memory /\ seen' = Seen(engines, c) /\ seen' \in SeenType
           /\ StandsFor(memory', seen', position)
    BY <2>1, FiringHasSeen
  <2>3. run.streak >= ReverseCandles /\ run.streak \in Nat
    BY <2>2 DEF Fires, ConsecutiveReversal, Memory, Run
  <2>4. ReverseCandles \in Nat /\ ReverseCandles > 0
    BY DEF PolicyParameters
  <2>5. s = Append(seen.consecutive, c) /\ seen.consecutive \in Seq(Candle)
    BY <2>2 DEF Seen, Inv, TypeOK, SeenType
  <2>6. s # <<>> /\ Len(s) \in Nat
    BY <2>5
  <2>7. AdverseRun(run, s, position)
    BY <2>2 DEF StandsFor
  <2>8. /\ run.streak < Len(s)
        /\ \A i \in Len(s) - run.streak + 1..Len(s) :
             Adverse(position, s[i - 1].close, s[i].close)
    BY <2>6, <2>7 DEF AdverseRun
  <2>9. Len(s) > ReverseCandles
    BY <2>3, <2>4, <2>6, <2>8
  <2>10. \A i \in Len(s) - ReverseCandles + 1..Len(s) : i \in Len(s) - run.streak + 1..Len(s)
    BY <2>3, <2>4, <2>6
  <2> QED BY <2>8, <2>9, <2>10
<1> QED BY <1>1, InvHolds, PTL DEF Spec, ReversalIsARun

\* A snapshot leaves out only what a fresh rule has anyway.
THEOREM RestartForgetsNothingHolds ==
  ASSUME PolicyParameters PROVE Spec => RestartForgetsNothing
<1>1. Inv /\ [Next]_vars => NothingIsForgotten
  <2> SUFFICES ASSUME Inv, saved = Snapshot(memory, engines), Restart(engines)
               PROVE  memory' = memory
    BY DEF NothingIsForgotten
  <2>1. /\ memory.trailing \in Nat /\ memory \in Memory /\ Fresh \in Memory
    BY FreshIsMemory DEF Inv, TypeOK, Memory
  <2>2. saved.labels = Labels(memory, engines) /\ saved.memory = memory
    BY DEF Snapshot
  <2>3. memory'.trailing = memory.trailing
    <3>1. CASE "trailing" \in engines /\ memory.trailing > 0
      BY <3>1, <2>2 DEF Restart, Restore, Labels
    <3>2. CASE ~("trailing" \in engines /\ memory.trailing > 0)
      <4>1. memory.trailing = Fresh.trailing
        BY <3>2, <2>1 DEF Inv, OthersAreFresh, Fresh
      <4> QED BY <4>1, <2>2 DEF Restart, Restore
    <3> QED BY <3>1, <3>2
  <2>4. memory'.highest_close = memory.highest_close
    <3>1. CASE "highest_close" \in engines /\ memory.highest_close # NoClose
      BY <3>1, <2>2 DEF Restart, Restore, Labels
    <3>2. CASE ~("highest_close" \in engines /\ memory.highest_close # NoClose)
      <4>1. memory.highest_close = Fresh.highest_close
        BY <3>2 DEF Inv, OthersAreFresh, Fresh
      <4> QED BY <4>1, <2>2 DEF Restart, Restore
    <3> QED BY <3>1, <3>2
  <2>5. memory'.consecutive = memory.consecutive
    <3>1. CASE "consecutive" \in engines /\ memory.consecutive # Fresh.consecutive
      BY <3>1, <2>2 DEF Restart, Restore, Labels
    <3>2. CASE ~("consecutive" \in engines /\ memory.consecutive # Fresh.consecutive)
      <4>1. memory.consecutive = Fresh.consecutive
        BY <3>2 DEF Inv, OthersAreFresh
      <4> QED BY <4>1, <2>2 DEF Restart, Restore
    <3> QED BY <3>1, <3>2
  <2>6. memory' \in Memory
    BY RestoreStands DEF Inv, TypeOK
  <2> QED BY <2>1, <2>3, <2>4, <2>5, <2>6 DEF Memory
<1> QED BY <1>1, InvHolds, PTL DEF Spec, RestartForgetsNothing

-----------------------------------------------------------------------------
(* A stop and a target that are not both behind the entry never fire on the   *)
(* same candle, so which of them is reported is no accident of priority       *)
(* (StopLossExit, FixedTargetExit).                                           *)
THEOREM StopAndTargetExclude ==
  ASSUME PolicyParameters, StopPoints + TargetPoints > 0,
         NEW p \in Position, NEW c \in Candle
  PROVE  ~(StopLoss(p, c) /\ FixedTarget(p, c))
<1>1. Profit(p, c) \in Int
  BY ProfitIsInt
<1> QED BY <1>1 DEF StopLoss, FixedTarget, PolicyParameters

-----------------------------------------------------------------------------
(* The paper broker.  Rounding first, which is integer division.             *)

LEMMA FloorDivision ==
  ASSUME NEW n \in Int, NEW d \in Nat, d > 0
  PROVE  n = d * (n \div d) + (n % d) /\ n % d < d /\ n % d >= 0 /\ n \div d \in Int /\ n % d \in Int
OBVIOUS

\* A multiple of a tick is on the grid.
LEMMA MultipleIsWhole ==
  ASSUME NEW k \in Int, NEW d \in Nat, d > 0
  PROVE  (k * d) % d = 0
<1> DEFINE n == k * d
           q == n \div d
           r == n % d
<1>1. n \in Int
  OBVIOUS
<1>2. n = d * q + r /\ r < d /\ r >= 0 /\ q \in Int /\ r \in Int
  BY <1>1, FloorDivision
<1>3. d * (k - q) = r
  <2>1. n = d * k
    OBVIOUS
  <2>2. d * (k - q) = d * k - d * q
    BY <1>2
  <2> HIDE DEF n, q, r
  <2> QED BY <1>1, <1>2, <2>1, <2>2
<1> HIDE DEF q, r
<1>4. k - q \in Int
  BY <1>2
<1>5. ~(k - q >= 1)
  <2>1. ASSUME k - q >= 1 PROVE FALSE
    <3>1. d * (k - q) >= d
      <4>1. d * (k - q) = d * (k - q - 1) + d
        BY <1>4, <1>2
      <4>2. d * (k - q - 1) >= 0
        BY <1>4, <1>2, <2>1
      <4>3. d * (k - q - 1) \in Int /\ d * (k - q) \in Int
        BY <1>4, <1>2
      <4> QED BY <4>1, <4>2, <4>3
    <3> QED BY <3>1, <1>3, <1>2
  <2> QED BY <2>1
<1>6. ~(k - q <= -1)
  <2>1. ASSUME k - q <= -1 PROVE FALSE
    <3>1. d * (k - q) < 0
      BY <1>4, <1>2, <2>1
    <3> QED BY <3>1, <1>3, <1>2
  <2> QED BY <2>1
<1>7. k - q = 0
  BY <1>4, <1>5, <1>6
<1>8. r = 0
  BY <1>3, <1>7
<1> QED BY <1>8 DEF r

\* Up for a buy, down for a sell, and on the grid.
LEMMA RoundsAgainstTheOrder ==
  ASSUME config.tick \in Nat, NEW p \in Int, NEW side \in {1, -1}
  PROVE  /\ RoundToTick(p, side) \in Int
         /\ side * RoundToTick(p, side) >= side * p
         /\ config.tick # 0 => RoundToTick(p, side) % (config.tick * Scale) = 0
<1> DEFINE t == config.tick * Scale
           up == (p + t - 1) \div t
           down == p \div t
<1>1. t \in Nat /\ (t = 0 <=> config.tick = 0)
  BY DEF Scale
<1>2. CASE t = 0
  BY <1>1, <1>2 DEF RoundToTick
<1>3. CASE t # 0
  <2>1. t > 0 /\ p + t - 1 \in Int
    BY <1>1, <1>3
  <2>2. RoundToTick(p, side) = IF side = 1 THEN up * t ELSE down * t
    BY <1>3 DEF RoundToTick
  <2> HIDE DEF t
  <2>3. CASE side = 1
    <3> DEFINE r == (p + t - 1) % t
    <3>1. p + t - 1 = t * up + r /\ r < t /\ r >= 0 /\ up \in Int /\ r \in Int
      BY <1>1, <2>1, FloorDivision
    <3> HIDE DEF up, r
    <3>2. up * t = t * up /\ up * t \in Int
      BY <1>1, <3>1
    <3>3. up * t >= p
      BY <1>1, <3>1, <3>2
    <3>4. (up * t) % t = 0
      BY <1>1, <2>1, <3>1, MultipleIsWhole
    <3>5. RoundToTick(p, side) = up * t
      BY <2>2, <2>3
    <3>6. side * RoundToTick(p, side) = up * t /\ side * p = p
      BY <2>3, <3>2, <3>5
    <3> QED BY <3>2, <3>3, <3>4, <3>5, <3>6 DEF t
  <2>4. CASE side = -1
    <3> DEFINE r == p % t
    <3>1. p = t * down + r /\ r < t /\ r >= 0 /\ down \in Int /\ r \in Int
      BY <1>1, <2>1, FloorDivision
    <3> HIDE DEF down, r
    <3>2. down * t = t * down /\ down * t \in Int
      BY <1>1, <3>1
    <3>3. down * t <= p
      BY <1>1, <3>1, <3>2
    <3>4. (down * t) % t = 0
      BY <1>1, <2>1, <3>1, MultipleIsWhole
    <3>5. RoundToTick(p, side) = down * t
      BY <2>2, <2>4
    <3>6. side * RoundToTick(p, side) = -(down * t) /\ side * p = -p
      BY <2>4, <3>2, <3>5
    <3> QED BY <3>2, <3>3, <3>4, <3>5, <3>6 DEF t
  <2> QED BY <2>3, <2>4
<1> QED BY <1>2, <1>3

-----------------------------------------------------------------------------
Quote == [last : Nat, bid : Nat, ask : Nat, at : Nat]

\* Only a configuration that __post_init__ accepted is in force.
LEMMA ConfigIsValid ==
  ASSUME config \in Configs
  PROVE  /\ config.mode \in {"ticks", "points", "basis_points"}
         /\ config.amount \in Nat /\ config.latency \in Nat /\ config.maxAge \in Nat
         /\ config.tick \in Nat /\ config.extra \in Nat
<1>1. ValidConfig(config)
  BY BrokerAssumption
<1> QED BY <1>1 DEF ValidConfig, SlippageConfig

\* Slippage is never negative, in any of its units.
LEMMA SlippageIsCost ==
  ASSUME config \in Configs, NEW base \in Nat
  PROVE  Slippage(base) \in Nat
<1>1. /\ config.mode \in {"ticks", "points", "basis_points"}
      /\ config.amount \in Nat /\ config.tick \in Nat
  BY ConfigIsValid
<1>2. config.amount * config.tick * Scale \in Nat /\ config.amount * Scale \in Nat
      /\ base * config.amount \in Nat
  <2>1. config.amount * config.tick \in Nat
    BY <1>1
  <2>2. base * config.amount \in Nat
    BY <1>1
  <2> QED BY <1>1, <2>1, <2>2 DEF Scale
<1> QED BY <1>2 DEF Slippage

\* A market order never does better than the touch, or than the last price and
\* the extra ticks.
LEMMA MarketPriceIsAdverse ==
  ASSUME config \in Configs, NEW q \in Quote, NEW side \in {1, -1}
  PROVE  /\ Base(side, q) \in Nat /\ MarketPrice(side, q) \in Int
         /\ side * MarketPrice(side, q) >=
              side * Scale * Base(side, q) + (IF HasDepth(q) THEN 0 ELSE Surcharge)
         /\ config.tick # 0 => MarketPrice(side, q) % (config.tick * Scale) = 0
<1> DEFINE b == Base(side, q)
           extra == IF HasDepth(q) THEN 0 ELSE Surcharge
           cost == Slippage(b) + extra
           p == b * Scale + side * cost
<1>1. b \in Nat
  BY DEF Base, Quote
<1>2. config.extra \in Nat /\ config.tick \in Nat
  BY ConfigIsValid
<1>3. extra \in Nat
  <2>1. config.extra * config.tick \in Nat
    BY <1>2
  <2> QED BY <2>1 DEF Scale, Surcharge
<1>4. cost \in Nat /\ cost >= extra
  <2>1. Slippage(b) \in Nat
    BY <1>1, SlippageIsCost
  <2> HIDE DEF extra
  <2> QED BY <2>1, <1>3
<1>5. MarketPrice(side, q) = RoundToTick(p, side)
  BY DEF MarketPrice, Surcharge
<1> HIDE DEF b, extra, cost
<1>6. p \in Int /\ side * p >= side * Scale * b + extra
  BY <1>1, <1>3, <1>4 DEF Scale
<1> HIDE DEF p
<1>7. /\ RoundToTick(p, side) \in Int /\ side * RoundToTick(p, side) >= side * p
      /\ config.tick # 0 => RoundToTick(p, side) % (config.tick * Scale) = 0
  BY <1>2, <1>6, RoundsAgainstTheOrder
<1>8. side * RoundToTick(p, side) >= side * Scale * b + extra
  BY <1>1, <1>3, <1>6, <1>7 DEF Scale
<1> QED BY <1>1, <1>5, <1>7, <1>8 DEF b, extra

-----------------------------------------------------------------------------
(* What a policy fills is something, and no more than was ordered.           *)
LEMMA SplitsFit ==
  ASSUME NEW qty \in Nat, NEW s \in Splits(qty)
  PROVE  s # <<>> /\ Total(s) \in Nat /\ Total(s) <= qty
<1>1. CASE \E n \in 1..qty : s = <<n>>
  <2>1. PICK n \in 1..qty : s = <<n>>
    BY <1>1
  <2> DEFINE none == Tail(s)
  <2>2. s \in Seq(Nat) /\ s # <<>> /\ Head(s) = n
    BY <2>1
  <2>3. none \in Seq(Nat) /\ none = <<>>
    BY <2>1
  <2> HIDE DEF none
  <2>4. SumFunction(none) = 0
    BY <2>3, SumOfSequence
  <2>5. SumFunction(s) = Head(s) + SumFunction(none)
    BY <2>2, SumOfSequence DEF none
  <2>6. SumFunction(s) = n
    BY <2>2, <2>4, <2>5
  <2> QED BY <2>2, <2>6 DEF Total
<1>2. CASE \E n \in 1..(qty - 1) : s = <<n, qty - n>>
  <2>1. PICK n \in 1..(qty - 1) : s = <<n, qty - n>>
    BY <1>2
  <2> DEFINE rest == Tail(s)
             none == Tail(rest)
  <2>2. s \in Seq(Nat) /\ s # <<>> /\ Head(s) = n
    BY <2>1
  <2>3. rest \in Seq(Nat) /\ rest # <<>> /\ Head(rest) = qty - n
    BY <2>1
  <2>4. none \in Seq(Nat) /\ none = <<>>
    BY <2>1
  <2> HIDE DEF none
  <2>5. SumFunction(none) = 0
    BY <2>4, SumOfSequence
  <2> HIDE DEF rest
  <2>6. SumFunction(rest) = Head(rest) + SumFunction(none)
    BY <2>3, SumOfSequence DEF none
  <2>7. SumFunction(s) = Head(s) + SumFunction(rest)
    BY <2>2, SumOfSequence DEF rest
  <2>8. SumFunction(s) = qty
    BY <2>2, <2>3, <2>5, <2>6, <2>7
  <2> QED BY <2>2, <2>8 DEF Total
<1> QED BY <1>1, <1>2 DEF Splits

\* A set of numbers has a least one.
LEMMA LeastNumber ==
  ASSUME NEW S \in SUBSET Nat, S # {}
  PROVE  Min(S) \in S
<1> DEFINE P == {0 .. n : n \in S}
<1>1. P # {} /\ \A T \in P : IsFiniteSet(T)
  <2>1. ASSUME NEW n \in S PROVE IsFiniteSet(0 .. n)
    <3>1. 0 \in Int /\ n \in Int
      OBVIOUS
    <3> QED BY <3>1, FS_Interval
  <2> QED BY <2>1
<1> HIDE DEF P
<1>2. PICK T \in P : \A U \in P : ~(U \subseteq T /\ U # T)
  BY <1>1, SmallestSet
<1>3. PICK n \in S : T = 0 .. n
  BY <1>2 DEF P
<1>4. ASSUME NEW m \in S PROVE n <= m
  <2>1. 0 .. m \in P
    BY DEF P
  <2>2. ASSUME m < n PROVE FALSE
    <3>1. 0 .. m \subseteq 0 .. n /\ n \in 0 .. n /\ n \notin 0 .. m
      BY <2>2
    <3> QED BY <2>1, <3>1, <1>2, <1>3
  <2> QED BY <2>2
<1> QED BY <1>4 DEF Min

BookType == book \in Seq(Quote)

\* What an order is priced on: the book's latest, or the first after the deadline.
LEMMA QuotesAreQuotes ==
  ASSUME BookType, now \in Nat
  PROVE  QuoteFor \in Quote /\ SelectQuote(QuoteFor).quote \in Quote
<1>1. QuoteFor \in Quote
  <2>1. CASE book # <<>>
    <3>1. Len(book) \in 1 .. Len(book) /\ book[Len(book)] \in Quote
      BY <2>1 DEF BookType
    <3> QED BY <2>1, <3>1 DEF QuoteFor, Last
  <2>2. CASE book = <<>>
    <3>1. (CHOOSE p \in QuotePrices : TRUE) \in [last : Nat, bid : Nat, ask : Nat]
      BY BrokerAssumption
    <3>2. (CHOOSE p \in QuotePrices : TRUE).last \in Nat
      BY <3>1
    <3> QED BY <2>2, <3>2 DEF QuoteFor, Quote
  <2> QED BY <2>1, <2>2
<1> DEFINE q == QuoteFor
           later == After(q.at + config.latency)
<1>2. CASE config.latency = 0 \/ later = {}
  BY <1>1, <1>2 DEF SelectQuote
<1>3. CASE ~(config.latency = 0 \/ later = {})
  <2>1. later \subseteq DOMAIN book /\ DOMAIN book = 1 .. Len(book) /\ Len(book) \in Nat
    BY DEF After, BookType
  <2>2. later \in SUBSET Nat /\ later # {}
    BY <2>1, <1>3
  <2> HIDE DEF later
  <2>3. Min(later) \in DOMAIN book
    BY <2>1, <2>2, LeastNumber
  <2>4. book[Min(later)] \in Quote
    BY <2>1, <2>3 DEF BookType
  <2>5. SelectQuote(q).quote = book[Min(later)]
    BY <1>3 DEF SelectQuote, later
  <2> QED BY <1>1, <2>4, <2>5
<1> QED BY <1>2, <1>3

-----------------------------------------------------------------------------
(* What an id has become: nothing, a limit order that rests, or a fill.      *)
Unknowing(o, w, x) == o = NoOrder /\ w = NotWorking /\ x = NoIntent

\* What was asked of the broker.
OrderType(x) == x.side \in {1, -1} /\ x.limit \in Nat /\ x.qty \in Nat /\ x.at \in Nat

\* A limit order waits for its deadline, with a limit the rules let pass.
Resting(o, w, x) ==
  /\ o.status = "SUBMITTED" /\ o.fills = <<>> /\ OrderType(x)
  /\ w \in Nat /\ w = x.at + config.latency
  /\ x.kind = "LIMIT" /\ x.limit > 0 /\ (config.tick # 0 => x.limit % config.tick = 0)

\* A fill has left the working book, and a limit order waited first.
Done(o, w, x) ==
  /\ o.status \in {"PARTIALLY_FILLED", "FILLED"} /\ o.fills # <<>> /\ w = NotWorking
  /\ OrderType(x) /\ Total(o.fills) <= x.qty /\ NoBargain(x.side, x.kind, o.price, o.quote)
  /\ x.kind = "LIMIT" => o.quote.at >= x.at + config.latency

Answered(o, w, x) == Unknowing(o, w, x) \/ Resting(o, w, x) \/ Done(o, w, x)

\* The inductive invariant: every id is in one of the three, and the book holds quotes.
BrokerInv ==
  /\ config \in Configs /\ now \in Nat /\ BookType
  /\ DOMAIN orders = Ids /\ DOMAIN working = Ids /\ DOMAIN intents = Ids
  /\ \A i \in Ids : Answered(orders[i], working[i], intents[i])

LEMMA BrokerInitInv == BrokerInit => BrokerInv
<1> SUFFICES ASSUME BrokerInit PROVE BrokerInv
  OBVIOUS
<1>1. config \in Configs /\ now \in Nat
  BY DEF BrokerInit
<1>2. BookType
  BY DEF BrokerInit, BookType
<1>3. DOMAIN orders = Ids /\ DOMAIN working = Ids /\ DOMAIN intents = Ids
  BY DEF BrokerInit
<1>4. \A i \in Ids : orders[i] = NoOrder /\ working[i] = NotWorking /\ intents[i] = NoIntent
  BY DEF BrokerInit
<1>5. \A i \in Ids : Answered(orders[i], working[i], intents[i])
  BY <1>4 DEF Answered, Unknowing
<1> QED BY <1>1, <1>2, <1>3, <1>5 DEF BrokerInv

\* The answers of the others are not touched.
LEMMA OneAnswerChanges ==
  ASSUME BrokerInv, NEW id \in Ids, NEW o, NEW w, NEW x,
         orders' = [orders EXCEPT ![id] = o],
         DOMAIN working' = Ids, working'[id] = w, \A i \in Ids \ {id} : working'[i] = working[i],
         intents' = [intents EXCEPT ![id] = x], UNCHANGED <<config, now, book>>,
         Answered(o, w, x)
  PROVE  BrokerInv'
<1>1. /\ DOMAIN orders' = Ids /\ DOMAIN working' = Ids /\ DOMAIN intents' = Ids
      /\ \A i \in Ids \ {id} : orders'[i] = orders[i] /\ working'[i] = working[i] /\ intents'[i] = intents[i]
      /\ orders'[id] = o /\ working'[id] = w /\ intents'[id] = x
  BY DEF BrokerInv
<1>2. BookType' /\ config' \in Configs /\ now' \in Nat
  BY DEF BrokerInv, BookType
<1>3. config' = config
  OBVIOUS
<1>4. ASSUME NEW i \in Ids PROVE Answered(orders[i], working[i], intents[i])'
  <2>1. Answered(orders'[i], working'[i], intents'[i])
    BY <1>1 DEF BrokerInv
  <2> QED BY <2>1, <1>3 DEF Answered, Unknowing, Resting, Done, NoBargain, Surcharge
<1> QED BY <1>1, <1>2, <1>4 DEF BrokerInv

\* A step of the clock or the book answers nothing.
LEMMA NothingAnswered ==
  ASSUME BrokerInv, UNCHANGED <<config, orders, working, intents>>, now' \in Nat, BookType'
  PROVE  BrokerInv'
<1>1. ASSUME NEW i \in Ids PROVE Answered(orders[i], working[i], intents[i])'
  <2>1. Answered(orders[i], working[i], intents[i])
    BY DEF BrokerInv
  <2> QED BY <2>1 DEF Answered, Unknowing, Resting, Done, NoBargain, Surcharge
<1> QED BY <1>1 DEF BrokerInv

-----------------------------------------------------------------------------
(* The steps.                                                                *)
LEMMA TickKeeps == ASSUME BrokerInv, NEW p \in QuotePrices, NEW at \in {now, now + 1}, Tick(p, at) PROVE BrokerInv'
<1> DEFINE q == [last |-> p.last, bid |-> p.bid, ask |-> p.ask, at |-> at]
<1>1. q \in Quote
  <2>1. p \in [last : Nat, bid : Nat, ask : Nat]
    BY BrokerAssumption
  <2>2. at \in Nat
    BY DEF BrokerInv
  <2> QED BY <2>1, <2>2 DEF Quote
<1>2. book \in Seq(Quote)
  BY DEF BrokerInv, BookType
<1> HIDE DEF q
<1>3. Recorded(q) \in Seq(Quote)
  <2>1. CASE Len(book) < Depth
    BY <1>1, <1>2, <2>1 DEF Recorded
  <2>2. CASE ~(Len(book) < Depth)
    <3>1. Len(book) \in Nat /\ Depth \in Nat \ {0}
      BY <1>2, BrokerAssumption
    <3>2. book # <<>>
      BY <1>2, <2>2, <3>1
    <3>3. Tail(book) \in Seq(Quote)
      BY <1>2, <3>2
    <3> DEFINE t == Tail(book)
    <3> HIDE DEF t
    <3>4. t \in Seq(Quote)
      BY <3>3 DEF t
    <3>5. Append(t, q) \in Seq(Quote)
      BY <1>1, <3>4
    <3> QED BY <2>2, <3>5 DEF Recorded, t
  <2> QED BY <2>1, <2>2
<1>4. book' = Recorded(q) /\ UNCHANGED <<config, now, orders, working, intents>>
  BY DEF Tick, q
<1>5. BookType' /\ now' \in Nat
  BY <1>3, <1>4 DEF BookType, BrokerInv
<1> QED BY <1>4, <1>5, NothingAnswered

LEMMA TimeKeeps == ASSUME BrokerInv, TimePasses PROVE BrokerInv'
<1>1. now' \in Nat /\ BookType' /\ UNCHANGED <<config, orders, working, intents>>
  BY DEF TimePasses, BrokerInv, BookType
<1> QED BY <1>1, NothingAnswered

\* What passes every rule.
LEMMA NotRefused ==
  ASSUME NEW id \in Ids, NEW x, NEW q, ~Refused(id, x, q)
  PROVE  /\ orders[id] = NoOrder
         /\ x.kind = "LIMIT" => x.limit # 0 /\ OnGrid(x.limit)
         /\ HasDepth(q) \/ config.fallback
BY DEF Refused, Submitted

LEMMA RestKeeps ==
  ASSUME BrokerInv, NEW id \in Ids, NEW q \in Quote, NEW x, OrderType(x), x.at = q.at,
         x.kind = "LIMIT",
         ~Refused(id, x, q), Rest(id, x, q), UNCHANGED <<config, now, book>>
  PROVE  BrokerInv'
<1> DEFINE o == [NoOrder EXCEPT !.status = "SUBMITTED"]
           w == q.at + config.latency
<1>1. x.limit # 0 /\ OnGrid(x.limit)
  BY NotRefused
<1>2. config.latency \in Nat
  BY ConfigIsValid DEF BrokerInv
<1>3. o.status = "SUBMITTED" /\ o.fills = <<>>
  BY DEF NoOrder
<1>4. w \in Nat /\ w = x.at + config.latency
  BY <1>2 DEF Quote
<1>5. orders' = [orders EXCEPT ![id] = o] /\ working' = [working EXCEPT ![id] = w]
      /\ intents' = [intents EXCEPT ![id] = x]
  BY DEF Rest
<1>w. DOMAIN working' = Ids /\ working'[id] = w /\ \A i \in Ids \ {id} : working'[i] = working[i]
  BY <1>5 DEF BrokerInv
<1> HIDE DEF o, w
<1>6. x.limit > 0 /\ (config.tick # 0 => x.limit % config.tick = 0)
  BY <1>1 DEF OnGrid, OrderType
<1>7. Answered(o, w, x)
  BY <1>3, <1>4, <1>6 DEF Answered, Resting
<1> QED BY <1>5, <1>w, <1>7, OneAnswerChanges

\* _build_order, on a price that favours nobody.
LEMMA FilledIsDone ==
  ASSUME config \in Configs, NEW x, OrderType(x), NEW q \in Quote, NEW price, NEW late,
         NEW s \in Splits(x.qty),
         NoBargain(x.side, x.kind, price, q),
         x.kind = "LIMIT" => q.at >= x.at + config.latency
  PROVE  Done(Filled(x, q, price, late, s), NotWorking, x)
<1> DEFINE o == Filled(x, q, price, late, s)
<1>1. s # <<>> /\ Total(s) <= x.qty
  BY SplitsFit DEF OrderType
<1>2. o.status \in {"PARTIALLY_FILLED", "FILLED"} /\ o.fills = s /\ o.price = price /\ o.quote = q
  BY DEF Filled
<1> HIDE DEF o
<1>3. NoBargain(x.side, x.kind, o.price, o.quote)
  BY <1>2
<1>4. o.fills # <<>> /\ Total(o.fills) <= x.qty
  BY <1>1, <1>2
<1> QED BY <1>2, <1>3, <1>4 DEF Done, o

LEMMA FillKeeps ==
  ASSUME BrokerInv, NEW id \in Ids, NEW q \in Quote, SelectQuote(q).quote \in Quote,
         NEW x, OrderType(x), x.kind # "LIMIT",
         ~Refused(id, x, q), FillNow(id, x, q), UNCHANGED <<config, now, book>>
  PROVE  BrokerInv'
<1> DEFINE late == SelectQuote(q).late
           chosen == SelectQuote(q).quote
           price == MarketPrice(x.side, chosen)
<1>1. CASE PriceRefusal(x.side, chosen) # "none"
  <2>1. UNCHANGED <<orders, working, intents>>
    BY <1>1 DEF FillNow
  <2>2. now' \in Nat /\ BookType'
    BY DEF BrokerInv, BookType
  <2> QED BY <2>1, <2>2, NothingAnswered
<1>2. CASE PriceRefusal(x.side, chosen) = "none"
  <2>1. /\ \E s \in Splits(x.qty) : orders' = [orders EXCEPT ![id] = Filled(x, chosen, price, late, s)]
        /\ intents' = [intents EXCEPT ![id] = x] /\ UNCHANGED working
    BY <1>2 DEF FillNow
  <2>2. PICK s \in Splits(x.qty) : orders' = [orders EXCEPT ![id] = Filled(x, chosen, price, late, s)]
    BY <2>1
  <2>3. config \in Configs /\ x.side \in {1, -1}
    BY DEF BrokerInv, OrderType
  <2>4. /\ price \in Int /\ Base(x.side, chosen) \in Nat
        /\ x.side * price >= x.side * Scale * Base(x.side, chosen) + (IF HasDepth(chosen) THEN 0 ELSE Surcharge)
        /\ config.tick # 0 => price % (config.tick * Scale) = 0
    BY <2>3, MarketPriceIsAdverse
  <2>5. ~(price <= 0)
    BY <1>2 DEF PriceRefusal
  <2> HIDE DEF price, late, chosen
  <2>6. price > 0
    BY <2>4, <2>5
  <2> DEFINE o == Filled(x, chosen, price, late, s)
  <2>n. NoBargain(x.side, x.kind, price, chosen)
    <3>1. CASE HasDepth(chosen)
      <4>1. Base(x.side, chosen) = Shown(x.side, chosen) /\ chosen.bid # 0 /\ chosen.ask # 0
        BY <2>3, <3>1 DEF HasDepth, Base, Shown
      <4>2. x.side * price >= x.side * Scale * Shown(x.side, chosen)
        BY <2>3, <2>4, <3>1, <4>1 DEF Scale
      <4> QED BY <2>4, <2>6, <4>1, <4>2 DEF NoBargain
    <3>2. CASE ~HasDepth(chosen)
      <4>1. Base(x.side, chosen) = chosen.last /\ ~(chosen.bid # 0 /\ chosen.ask # 0)
        BY <3>2 DEF HasDepth, Base
      <4>2. x.side * price >= x.side * Scale * chosen.last + Surcharge
        BY <2>4, <3>2, <4>1
      <4> QED BY <2>4, <2>6, <4>1, <4>2 DEF NoBargain
    <3> QED BY <3>1, <3>2
  <2>7. Done(o, NotWorking, x)
    BY <2>3, <2>n, FilledIsDone DEF chosen
  <2>8. DOMAIN working' = Ids /\ working'[id] = NotWorking /\ \A i \in Ids \ {id} : working'[i] = working[i]
    <3>1. orders[id] = NoOrder
      BY NotRefused
    <3>2. Answered(orders[id], working[id], intents[id])
      BY DEF BrokerInv
    <3>3. orders[id].status = "NONE"
      BY <3>1 DEF NoOrder
    <3>4. ~Resting(orders[id], working[id], intents[id]) /\ ~Done(orders[id], working[id], intents[id])
      BY <3>3 DEF Resting, Done
    <3>5. Unknowing(orders[id], working[id], intents[id])
      BY <3>2, <3>4 DEF Answered
    <3>6. working[id] = NotWorking
      BY <3>5 DEF Unknowing
    <3> QED BY <2>1, <3>6 DEF BrokerInv
  <2>9. orders' = [orders EXCEPT ![id] = o] /\ intents' = [intents EXCEPT ![id] = x]
    BY <2>1, <2>2
  <2> HIDE DEF o
  <2>10. Answered(o, NotWorking, x)
    BY <2>7 DEF Answered
  <2> QED BY <2>8, <2>9, <2>10, OneAnswerChanges
<1> QED BY <1>1, <1>2

LEMMA SubmitKeeps ==
  ASSUME BrokerInv, NEW id \in Ids, NEW side \in {1, -1}, NEW kind \in {"MARKET", "LIMIT"},
         NEW limit \in Nat,
         NEW qty \in Quantities, Submit(id, side, kind, limit, qty)
  PROVE  BrokerInv'
<1> DEFINE q == QuoteFor
           x == [side |-> side, kind |-> kind, limit |-> limit, qty |-> qty, at |-> q.at]
<1>1. q \in Quote /\ SelectQuote(q).quote \in Quote
  BY QuotesAreQuotes DEF BrokerInv
<1>2. OrderType(x) /\ x.at = q.at /\ x.kind = kind
  BY <1>1, BrokerAssumption DEF OrderType, Quote
<1>3. /\ IF Refused(id, x, q) THEN UNCHANGED <<orders, working, intents>>
         ELSE IF kind = "LIMIT" THEN Rest(id, x, q) ELSE FillNow(id, x, q)
      /\ UNCHANGED <<config, now, book, ticks>>
  BY DEF Submit
<1> HIDE DEF q, x
<1>4. CASE Refused(id, x, q)
  <2>1. now' \in Nat /\ BookType'
    BY <1>3 DEF BrokerInv, BookType
  <2> QED BY <1>3, <1>4, <2>1, NothingAnswered
<1>5. CASE ~Refused(id, x, q) /\ kind = "LIMIT"
  <2>1. Rest(id, x, q) /\ UNCHANGED <<config, now, book>>
    BY <1>3, <1>5
  <2> QED BY <1>1, <1>2, <1>5, <2>1, RestKeeps
<1>6. CASE ~Refused(id, x, q) /\ kind # "LIMIT"
  <2>1. FillNow(id, x, q) /\ UNCHANGED <<config, now, book>>
    BY <1>3, <1>6
  <2> QED BY <1>1, <1>2, <1>6, <2>1, FillKeeps
<1> QED BY <1>4, <1>5, <1>6

\* On the grid in the exchange's unit is on the grid in the broker's.
LEMMA GridScales ==
  ASSUME NEW limit \in Nat, NEW tick \in Nat, tick # 0, limit % tick = 0
  PROVE  (limit * Scale) % (tick * Scale) = 0
<1> DEFINE k == limit \div tick
           t == tick * Scale
<1>0. limit \in Int /\ tick > 0
  OBVIOUS
<1>1. limit = tick * k + (limit % tick) /\ k \in Int
  BY <1>0, FloorDivision
<1>2. limit = tick * k
  BY <1>1
<1> HIDE DEF k
<1>3. limit * Scale = k * t
  BY <1>1, <1>2 DEF Scale
<1>4. t \in Nat /\ t > 0
  BY DEF Scale
<1> HIDE DEF t
<1>5. (k * t) % t = 0
  BY <1>1, <1>4, MultipleIsWhole
<1> QED BY <1>3, <1>5 DEF t

\* _settle: at the limit, which the quote has reached.
LEMMA HitFills ==
  ASSUME BrokerInv, NEW id \in Ids, NEW q \in Quote, Eligible(id, q),
         NEW s \in Splits(intents[id].qty)
  PROVE  Done(Filled(intents[id], q, intents[id].limit * Scale, TRUE, s), NotWorking, intents[id])
<1> DEFINE x == intents[id]
           c == Candidate(x.side, q)
           price == x.limit * Scale
<1>1. Answered(orders[id], working[id], x) /\ working[id] # NotWorking /\ config \in Configs
  BY DEF BrokerInv, Eligible
<1>2. Resting(orders[id], working[id], x)
  BY <1>1 DEF Answered, Unknowing, Done
<1>3. q.at >= working[id] /\ c # 0 /\ x.side * c <= x.side * x.limit
  BY DEF Eligible
<1> HIDE DEF x, c
<1>4. /\ OrderType(x) /\ x.kind = "LIMIT" /\ x.limit > 0 /\ x.limit \in Nat /\ x.side \in {1, -1}
      /\ working[id] = x.at + config.latency
  BY <1>2 DEF Resting, OrderType
<1>5. config.tick \in Nat
  BY <1>1, ConfigIsValid
<1>6. config.tick # 0 => price % (config.tick * Scale) = 0
  <2>1. config.tick # 0 => x.limit % config.tick = 0
    BY <1>2 DEF Resting
  <2> QED BY <1>4, <1>5, <2>1, GridScales
<1>7. price \in Int /\ price > 0
  BY <1>4 DEF Scale
<1>8. c \in Nat
  BY DEF c, Candidate, Quote
<1>9. x.side * price >= x.side * Scale * c
  BY <1>3, <1>4, <1>8 DEF Scale
<1>10. q.at >= x.at + config.latency
  BY <1>3, <1>4
<1>n. NoBargain(x.side, x.kind, price, q)
  <2>1. c = Shown(x.side, q)
    BY <1>3 DEF c, Candidate, Shown
  <2> HIDE DEF price
  <2> QED BY <1>4, <1>6, <1>7, <1>9, <2>1 DEF NoBargain
<1> HIDE DEF price
<1>11. Done(Filled(x, q, price, TRUE, s), NotWorking, x)
  BY <1>1, <1>4, <1>n, <1>10, FilledIsDone DEF x
<1> QED BY <1>11 DEF x, price

LEMMA QuoteKeeps == ASSUME BrokerInv, OnQuote PROVE BrokerInv'
<1> DEFINE q == Last(book)
           hit == {i \in Ids : Eligible(i, q)}
<1>1. book # <<>> /\ working' = Unlisted(hit) /\ UNCHANGED <<config, now, book, ticks, intents>>
  BY DEF OnQuote
<1>2. PICK s : /\ \A i \in hit : s[i] \in Splits(intents[i].qty)
               /\ orders' = [i \in Ids |-> IF i \in hit
                     THEN Filled(intents[i], q, intents[i].limit * Scale, TRUE, s[i]) ELSE orders[i]]
  BY DEF OnQuote
<1>3. q \in Quote
  <2>1. book \in Seq(Quote)
    BY DEF BrokerInv, BookType
  <2>2. Len(book) \in 1 .. Len(book)
    BY <1>1, <2>1
  <2> QED BY <2>1, <2>2 DEF Last
<1> HIDE DEF q
<1>4. /\ DOMAIN orders' = Ids /\ DOMAIN working' = Ids /\ DOMAIN intents' = Ids
      /\ BookType' /\ config' \in Configs /\ now' \in Nat
  BY <1>1, <1>2 DEF BrokerInv, Unlisted, BookType
<1>5. ASSUME NEW i \in Ids PROVE Answered(orders[i], working[i], intents[i])'
  <2>1. CASE i \in hit
    <3> DEFINE o == Filled(intents[i], q, intents[i].limit * Scale, TRUE, s[i])
    <3>1. orders'[i] = o /\ working'[i] = NotWorking /\ intents'[i] = intents[i]
      BY <1>1, <1>2, <2>1 DEF Unlisted
    <3>2. Eligible(i, q) /\ s[i] \in Splits(intents[i].qty)
      BY <1>2, <2>1
    <3>3. Done(o, NotWorking, intents[i])
      BY <1>3, <3>2, HitFills
    <3> HIDE DEF o
    <3>4. Answered(orders'[i], working'[i], intents'[i])
      BY <3>1, <3>3 DEF Answered
    <3> QED BY <3>4, <1>1 DEF Answered, Unknowing, Resting, Done, NoBargain, Surcharge
  <2>2. CASE i \notin hit
    <3>1. orders'[i] = orders[i] /\ working'[i] = working[i] /\ intents'[i] = intents[i]
      BY <1>1, <1>2, <2>2 DEF Unlisted
    <3>2. Answered(orders'[i], working'[i], intents'[i])
      BY <3>1 DEF BrokerInv
    <3> QED BY <3>2, <1>1 DEF Answered, Unknowing, Resting, Done, NoBargain, Surcharge
  <2> QED BY <2>1, <2>2
<1> QED BY <1>4, <1>5 DEF BrokerInv

LEMMA BrokerNextInv == BrokerInv /\ [BrokerNext]_brokerVars => BrokerInv'
<1> SUFFICES ASSUME BrokerInv, [BrokerNext]_brokerVars PROVE BrokerInv'
  OBVIOUS
<1>1. CASE TimePasses
  BY <1>1, TimeKeeps
<1>2. CASE OnQuote
  BY <1>2, QuoteKeeps
<1>3. CASE \E p \in QuotePrices, at \in {now, now + 1} : Tick(p, at)
  BY <1>3, TickKeeps
<1>4. ASSUME NEW id \in Ids, NEW side \in {1, -1}, NEW qty \in Quantities,
             Submit(id, side, "MARKET", 0, qty) \/ \E l \in Limits : Submit(id, side, "LIMIT", l, qty)
      PROVE  BrokerInv'
  <2>1. CASE Submit(id, side, "MARKET", 0, qty)
    BY <2>1, SubmitKeeps
  <2>2. ASSUME NEW l \in Limits, Submit(id, side, "LIMIT", l, qty) PROVE BrokerInv'
    <3>1. l \in Nat
      BY BrokerAssumption
    <3> QED BY <2>2, <3>1, SubmitKeeps
  <2> QED BY <1>4, <2>1, <2>2
<1>5. CASE UNCHANGED brokerVars
  <2>1. now' \in Nat /\ BookType' /\ UNCHANGED <<config, orders, working, intents>>
    BY <1>5 DEF brokerVars, BrokerInv, BookType
  <2> QED BY <2>1, NothingAnswered
<1> QED BY <1>1, <1>2, <1>3, <1>4, <1>5 DEF BrokerNext

LEMMA BrokerInvHolds == BrokerSpec => []BrokerInv
BY BrokerInitInv, BrokerNextInv, PTL DEF BrokerSpec

(* Orders, working book and fills agree; with both sides shown no market     *)
(* order, and on no quote a limit order, fills better than the side it       *)
(* trades against, a market order on a quote that lacks a side fills worse   *)
(* than the last price by the extra ticks, and every price is on the grid:   *)
(* for any prices, configuration, clock and fill policy.                     *)
THEOREM FillsAreSoundHolds == BrokerSpec => []FillsAreSound
<1>1. BrokerInv => FillsAreSound
  <2> SUFFICES ASSUME BrokerInv, NEW i \in Ids
      PROVE /\ orders[i].status \in {"NONE", "SUBMITTED", "PARTIALLY_FILLED", "FILLED"}
            /\ orders[i].status = "SUBMITTED" <=> working[i] # NotWorking
            /\ Total(orders[i].fills) <= intents[i].qty
            /\ orders[i].status \in {"PARTIALLY_FILLED", "FILLED"} <=> orders[i].fills # <<>>
            /\ orders[i].fills # <<>> => NoBargain(intents[i].side, intents[i].kind, orders[i].price, orders[i].quote)
            /\ intents[i].kind = "LIMIT" /\ orders[i].fills # <<>> =>
                 orders[i].quote.at >= intents[i].at + config.latency
    BY DEF FillsAreSound, BrokerTypeOK, FillsAreAdverse, RestsBeforeItFills
  <2>1. Answered(orders[i], working[i], intents[i])
    BY DEF BrokerInv
  <2>2. orders[i].fills = <<>> => Total(orders[i].fills) = 0
    <3> DEFINE z == orders[i].fills
    <3>1. z = <<>> => z \in Seq(Nat)
      OBVIOUS
    <3> HIDE DEF z
    <3>2. z = <<>> => SumFunction(z) = 0
      BY <3>1, SumOfSequence
    <3> QED BY <3>2 DEF Total, z
  <2>4. CASE Unknowing(orders[i], working[i], intents[i])
    <3>1. orders[i].status = "NONE" /\ orders[i].fills = <<>> /\ intents[i].qty = 0 /\ intents[i].kind = "NONE"
      BY <2>4 DEF Unknowing, NoOrder, NoIntent
    <3>2. working[i] = NotWorking
      BY <2>4 DEF Unknowing
    <3> QED BY <2>2, <3>1, <3>2
  <2>5. CASE Resting(orders[i], working[i], intents[i])
    BY <2>2, <2>5 DEF Resting, NotWorking, OrderType
  <2>6. CASE Done(orders[i], working[i], intents[i])
    BY <2>6 DEF Done
  <2> QED BY <2>1, <2>4, <2>5, <2>6 DEF Answered
<1> QED BY <1>1, BrokerInvHolds, PTL

(* A correlation id is answered once: a second submission is refused, and    *)
(* only a resting order changes, when it fills.                              *)
THEOREM OneAnswerPerIdHolds == BrokerSpec => OneAnswerPerId
<1> DEFINE Keeps(i) == orders[i] # NoOrder /\ orders'[i] # orders[i] =>
                         orders[i].status = "SUBMITTED" /\ orders'[i].fills # <<>>
           Step == \A i \in Ids : Keeps(i)
<1>1. BrokerInv /\ [BrokerNext]_brokerVars => Step
  <2> SUFFICES ASSUME BrokerInv, [BrokerNext]_brokerVars, NEW i \in Ids, orders[i] # NoOrder, orders'[i] # orders[i]
               PROVE  orders[i].status = "SUBMITTED" /\ orders'[i].fills # <<>>
    OBVIOUS
  <2>1. ASSUME NEW id \in Ids, NEW side, NEW kind, NEW limit, NEW qty, Submit(id, side, kind, limit, qty)
        PROVE  FALSE
    <3> DEFINE q == QuoteFor
               x == [side |-> side, kind |-> kind, limit |-> limit, qty |-> qty, at |-> q.at]
    <3>1. /\ IF Refused(id, x, q) THEN UNCHANGED <<orders, working, intents>>
             ELSE IF kind = "LIMIT" THEN Rest(id, x, q) ELSE FillNow(id, x, q)
      BY <2>1 DEF Submit
    <3> HIDE DEF q, x
    <3>2. ~Refused(id, x, q)
      BY <3>1
    <3>3. orders[id] = NoOrder
      BY <3>2, NotRefused
    <3>4. \E o : orders' = [orders EXCEPT ![id] = o]
      BY <3>1, <3>2 DEF Rest, FillNow
    <3>5. i # id
      BY <3>3
    <3>6. orders'[i] = orders[i]
      BY <3>4, <3>5 DEF BrokerInv
    <3> QED BY <3>6
  <2>2. CASE OnQuote
    <3> DEFINE q == Last(book)
               hit == {j \in Ids : Eligible(j, q)}
    <3>1. PICK s : /\ \A j \in hit : s[j] \in Splits(intents[j].qty)
                   /\ orders' = [j \in Ids |-> IF j \in hit
                         THEN Filled(intents[j], q, intents[j].limit * Scale, TRUE, s[j]) ELSE orders[j]]
      BY <2>2 DEF OnQuote
    <3>2. i \in hit
      BY <3>1
    <3>3. orders'[i] = Filled(intents[i], q, intents[i].limit * Scale, TRUE, s[i])
      BY <3>1, <3>2
    <3>4. orders'[i].fills = s[i] /\ s[i] \in Splits(intents[i].qty)
      BY <3>1, <3>2, <3>3 DEF Filled
    <3>5. Answered(orders[i], working[i], intents[i]) /\ working[i] # NotWorking
      BY <3>2 DEF BrokerInv, Eligible
    <3>6. Resting(orders[i], working[i], intents[i])
      BY <3>5 DEF Answered, Unknowing, Done
    <3>7. orders[i].status = "SUBMITTED" /\ intents[i].qty \in Nat
      BY <3>6 DEF Resting, OrderType
    <3>8. s[i] # <<>>
      BY <3>4, <3>7, SplitsFit
    <3> QED BY <3>4, <3>7, <3>8
  <2> QED BY <2>1, <2>2 DEF BrokerNext, brokerVars, TimePasses, Tick
<1>2. (Step <=> (\A i \in Ids : orders[i] # NoOrder /\ orders'[i] # orders[i] =>
                   orders[i].status = "SUBMITTED" /\ orders'[i].fills # <<>>))
  OBVIOUS
<1> HIDE DEF Step
<1> QED BY <1>1, <1>2, BrokerInvHolds, PTL DEF BrokerSpec, OneAnswerPerId
=============================================================================
