----------------------------- MODULE RuntimeProofs -----------------------------
(***************************************************************************)
(* Theorems about the life of a runtime: how a group starts, for any       *)
(* number of processes, PIDs and attempts and a migration of any length;   *)
(* which strategies a start admits, and under whose ids their orders are   *)
(* filed; the feed and the supervisor, for any number of workers,          *)
(* contracts and segments; and the day of the fixture worker.              *)
(***************************************************************************)
EXTENDS MCLaunch, Admission, SupervisorProps, MCFixtureDay, TLAPS

-----------------------------------------------------------------------------
(* Launch: the parts of its inductive invariant.                           *)

\* A launcher's attempt, and the lock it takes in it.
Stages == {"off", "preflight", "gates", "backup", "migrate", "script", "unlock", "retain",
           "auth", "acquire", "starting", "running", "release", "returned", "backoff", "gave_up"}
Phases == {"out", "sweep", "contend", "won", "held", "unlocked", "remove"}

LockType ==
  /\ life \in [Pids -> {"dead", "launcher", "stranger"}] /\ born \in [Pids -> Nat]
  /\ holder \in Pids \cup {Nobody} /\ phase \in [Pids -> Phases]
  /\ pidFile \in [pid : Pids, born : Nat] \cup {NoFile}

AttemptType ==
  /\ stage \in [Pids -> Stages]
  /\ attempt \in [Pids -> 0..MaxLaunchAttempts]
  /\ code \in [Pids -> {"none", "RAISED", "NO_CREDENTIALS", "FAILED"} \cup Terminal]
  /\ stopped \in [Pids -> {"no", "signalled", "lost"}]
  /\ wrapped \in [Pids -> BOOLEAN] /\ beside \in [Pids -> BOOLEAN]

SchemaType ==
  /\ migrating \in Pids \cup {Nobody} /\ next \in [Pids -> 0..(NumStatements + 2)]
  /\ schema \subseteq 1..NumStatements /\ recorded \in BOOLEAN

AtLock == {"acquire", "starting", "running", "release"}

\* Where a launcher may be in acquire and release, by the stage it is at.
StageAndPhaseOf(p) ==
  /\ life[p] # "launcher" => stage[p] = "off"
  /\ stage[p] \notin AtLock => phase[p] = "out"
  /\ stage[p] = "acquire" => phase[p] \in {"out", "sweep", "contend", "won"}
  /\ stage[p] \in {"starting", "running"} => phase[p] = "held"
  /\ stage[p] = "release" => phase[p] \in {"held", "unlocked", "remove"}

StageAndPhase == \A p \in Pids : StageAndPhaseOf(p)

FlockOf(p) == (holder = p) = (phase[p] \in {"won", "held"})
FlockIsHeld == \A p \in Pids : FlockOf(p)

\* No record is ahead of the processes its PID was given to, and one that
\* verifies is its writer's.
RecordOf(p) ==
  pidFile.pid = p =>
    /\ pidFile.born <= born[p]
    /\ life[p] # "dead" /\ pidFile.born = born[p] =>
         life[p] = "launcher" /\ phase[p] \in {"held", "unlocked", "remove"}
RecordIsPast == \A p \in Pids : RecordOf(p)

\* The migration lock is held exactly by who is at its script; what has been
\* done of the script is in the schema, and past it the version is recorded.
MigrationLockOf(p) == (migrating = p) = (stage[p] \in {"script", "unlock"})

ScriptOf(p) ==
  /\ stage[p] = "script" =>
       /\ next[p] >= 1 /\ \A i \in 1..NumStatements : i < next[p] => i \in schema
       /\ next[p] > NumStatements + 1 => recorded
  /\ stage[p] \in {"unlock", "retain", "auth"} \cup AtLock => recorded

Migration == \A p \in Pids : MigrationLockOf(p) /\ ScriptOf(p)

RecordedIsWhole == recorded => schema = 1..NumStatements

BesideOf(p) == beside[p] => stage[p] \in {"returned", "backoff", "gave_up", "gates"}

\* A run that obeyed a signal ends with EXIT_SAFETY_STOP.
FinalOf(p) ==
  stopped[p] = "signalled" =>
    /\ stage[p] \in {"running", "release", "returned"}
    /\ stage[p] # "running" => code[p] = "SAFETY"
SignalledIsSafety == \A p \in Pids : FinalOf(p)

\* A step is a step of one process, or nothing happens.
Starts(p) == StartWrapped(p) \/ StartDirect(p) \/ StartStranger(p)
Gates(p) == \/ PreflightOk(p) \/ Gated(p)
            \/ \E loaded, stray \in BOOLEAN : LooksForLegacy(p, loaded, stray)
Migrates(p) == \/ MigrationLock(p) \/ MigrationTimeout(p) \/ ScriptStep(p) \/ ScriptDone(p)
               \/ MigrationUnlock(p)
Prepares(p) == Backup(p) \/ Retain(p) \/ Authenticate(p)
Trades(p) == SpawnsAndRuns(p) \/ Leaves(p)
Repeats(p) == RecordsAttempt(p) \/ Retries(p)
Obeys(p) == stage[p] = "running" /\ Signalled(p)

Moves(p) == \/ Starts(p) \/ Gates(p) \/ Migrates(p) \/ Prepares(p) \/ TakesLock(p) \/ Trades(p)
            \/ FreesLock(p) \/ Repeats(p) \/ Gone(p) \/ Obeys(p)

\* A step of the system is a step of one process: an operator's stop is one of
\* the process that the PID file names.
LEMMA StepOfOne == LockType /\ [LaunchNext]_launchVars => (\E p \in Pids : Moves(p)) \/ UNCHANGED launchVars
<1> SUFFICES ASSUME LockType, LaunchNext PROVE \E p \in Pids : Moves(p)
  OBVIOUS
<1> USE DEF Moves, Starts, Gates, Migrates, Prepares,
         Trades, Repeats, Obeys
<1>1. CASE Stop
  <2>1. pidFile.pid \in Pids
    BY <1>1 DEF Stop, VerifiedOwner, LockType
  <2> QED BY <1>1, <2>1 DEF Stop
<1>2. ASSUME NEW p \in Pids, Step(p) PROVE Moves(p)
  BY <1>2 DEF Step, PreflightFails, Finishes, RecordRaises, GivesUp
<1>3. CASE ~Stop
  BY <1>2, <1>3 DEF LaunchNext, Killed
<1> QED BY <1>1, <1>3

\* The three type invariants.
LEMMA LockTypeStep == LockType /\ [LaunchNext]_launchVars => LockType'
<1> SUFFICES ASSUME LockType, [LaunchNext]_launchVars PROVE LockType'
  OBVIOUS
<1> USE DEF Starts, Gates, Migrates, Prepares,
         Trades, Repeats, Obeys
<1> USE DEF LockType, Phases
<1>1. ASSUME NEW p \in Pids, Starts(p) PROVE LockType'
  BY <1>1
     DEF StartWrapped, StartDirect, StartStranger, Begin, lockVars, attemptVars, schemaVars
<1>2. ASSUME NEW p \in Pids, Gates(p) PROVE LockType'
  BY <1>2 DEF Gates, PreflightOk, Gated, LooksForLegacy, Returns, lockVars, attemptVars,
         schemaVars
<1>3. ASSUME NEW p \in Pids, Migrates(p) PROVE LockType'
  BY <1>3
     DEF Migrates, MigrationLock, MigrationTimeout, ScriptStep, ScriptDone, MigrationUnlock,
         Goes, Returns, lockVars, attemptVars, schemaVars
<1>4. ASSUME NEW p \in Pids, Prepares(p) PROVE LockType'
  BY <1>4 DEF Prepares, Backup, Retain, Authenticate, Goes, Returns, lockVars, attemptVars,
         schemaVars
<1>5. ASSUME NEW p \in Pids, TakesLock(p) PROVE LockType'
  BY <1>5 DEF TakesLock, Acquire, Sweep, Win, WritePid, LockOwner, Refused, At, Free, Goes,
         Returns, lockVars, attemptVars, schemaVars
<1>6. ASSUME NEW p \in Pids, Trades(p) PROVE LockType'
  BY <1>6 DEF Trades, SpawnsAndRuns, Leaves, Goes, lockVars, attemptVars, schemaVars
<1>7. ASSUME NEW p \in Pids, FreesLock(p) PROVE LockType'
  BY <1>7
     DEF FreesLock, Unlock, CheckRecord, RemoveRecord, At, lockVars, attemptVars, schemaVars
<1>8. ASSUME NEW p \in Pids, Repeats(p) PROVE LockType'
  BY <1>8 DEF Repeats, RecordsAttempt, Retries, lockVars, attemptVars, schemaVars
<1>9. ASSUME NEW p \in Pids, Gone(p) PROVE LockType'
  BY <1>9 DEF Gone, End, Cleared, lockVars, attemptVars, schemaVars
<1>10. ASSUME NEW p \in Pids, Obeys(p) PROVE LockType'
  BY <1>10 DEF Obeys, Signalled, lockVars, attemptVars, schemaVars
<1>11. CASE UNCHANGED launchVars
  BY <1>11 DEF launchVars, lockVars, attemptVars, schemaVars
<1> QED BY StepOfOne, <1>1, <1>2, <1>3, <1>4, <1>5, <1>6, <1>7, <1>8, <1>9, <1>10, <1>11
     DEF Moves

LEMMA AttemptTypeStep == LockType /\ AttemptType /\ [LaunchNext]_launchVars => AttemptType'
<1> SUFFICES ASSUME LockType, AttemptType, [LaunchNext]_launchVars PROVE AttemptType'
  OBVIOUS
<1> USE DEF Starts, Gates, Migrates, Prepares,
         Trades, Repeats, Obeys
<1> USE LaunchAssumption DEF AttemptType, Stages, Terminal
<1>1. ASSUME NEW p \in Pids, Starts(p) PROVE AttemptType'
  <2>1. 0 \in 0..MaxLaunchAttempts /\ 1 \in 0..MaxLaunchAttempts
    OBVIOUS
  <2>2. attempt' \in [Pids -> 0..MaxLaunchAttempts] /\ stage' \in [Pids -> Stages]
    BY <1>1, <2>1 DEF StartWrapped, StartDirect, StartStranger, Begin, attemptVars
  <2>3. wrapped' \in [Pids -> BOOLEAN] /\ UNCHANGED <<code, stopped, beside>>
    BY <1>1 DEF StartWrapped, StartDirect, StartStranger, attemptVars
  <2> QED BY <2>2, <2>3
<1>2. ASSUME NEW p \in Pids, Gates(p) PROVE AttemptType'
  BY <1>2 DEF Gates, PreflightOk, Gated, LooksForLegacy, Returns, lockVars, attemptVars,
         schemaVars
<1>3. ASSUME NEW p \in Pids, Migrates(p) PROVE AttemptType'
  BY <1>3
     DEF Migrates, MigrationLock, MigrationTimeout, ScriptStep, ScriptDone, MigrationUnlock,
         Goes, Returns, lockVars, attemptVars, schemaVars
<1>4. ASSUME NEW p \in Pids, Prepares(p) PROVE AttemptType'
  BY <1>4 DEF Prepares, Backup, Retain, Authenticate, Goes, Returns, lockVars, attemptVars,
         schemaVars
<1>5. ASSUME NEW p \in Pids, TakesLock(p) PROVE AttemptType'
  BY <1>5 DEF TakesLock, Acquire, Sweep, Win, WritePid, LockOwner, Refused, At, Free, Goes,
         Returns, lockVars, attemptVars, schemaVars
<1>6. ASSUME NEW p \in Pids, Trades(p) PROVE AttemptType'
  BY <1>6 DEF Trades, SpawnsAndRuns, Leaves, Goes, lockVars, attemptVars, schemaVars
<1>7. ASSUME NEW p \in Pids, FreesLock(p) PROVE AttemptType'
  BY <1>7
     DEF FreesLock, Unlock, CheckRecord, RemoveRecord, At, lockVars, attemptVars, schemaVars
<1>8. ASSUME NEW p \in Pids, Repeats(p) PROVE AttemptType'
  BY <1>8 DEF Repeats, RecordsAttempt, Retries, lockVars, attemptVars, schemaVars
<1>9. ASSUME NEW p \in Pids, Gone(p) PROVE AttemptType'
  BY <1>9 DEF Gone, End, Cleared, lockVars, attemptVars, schemaVars
<1>10. ASSUME NEW p \in Pids, Obeys(p) PROVE AttemptType'
  BY <1>10 DEF Obeys, Signalled, lockVars, attemptVars, schemaVars
<1>11. CASE UNCHANGED launchVars
  BY <1>11 DEF launchVars, lockVars, attemptVars, schemaVars
<1> QED BY StepOfOne, <1>1, <1>2, <1>3, <1>4, <1>5, <1>6, <1>7, <1>8, <1>9, <1>10, <1>11
     DEF Moves

\* What a process keeps of its own while another moves.
LEMMA OthersStay ==
  ASSUME LockType, AttemptType, SchemaType, NEW p \in Pids, Moves(p), NEW q \in Pids, q # p
  PROVE  /\ life'[q] = life[q] /\ born'[q] = born[q] /\ phase'[q] = phase[q]
         /\ stage'[q] = stage[q] /\ code'[q] = code[q] /\ stopped'[q] = stopped[q]
         /\ beside'[q] = beside[q] /\ next'[q] = next[q]
<1> USE DEF Starts, Gates, Migrates, Prepares,
         Trades, Repeats, Obeys
<1> USE DEF LockType, AttemptType, SchemaType
<1>1. CASE Starts(p)
  BY <1>1
     DEF StartWrapped, StartDirect, StartStranger, Begin, lockVars, attemptVars, schemaVars
<1>2. CASE Gates(p)
  BY <1>2 DEF Gates, PreflightOk, Gated, LooksForLegacy, Returns, lockVars, attemptVars,
         schemaVars
<1>3. CASE Migrates(p)
  BY <1>3
     DEF Migrates, MigrationLock, MigrationTimeout, ScriptStep, ScriptDone, MigrationUnlock,
         Goes, Returns, lockVars, attemptVars, schemaVars
<1>4. CASE Prepares(p)
  BY <1>4 DEF Prepares, Backup, Retain, Authenticate, Goes, Returns, lockVars, attemptVars,
         schemaVars
<1>5. CASE TakesLock(p)
  BY <1>5 DEF TakesLock, Acquire, Sweep, Win, WritePid, LockOwner, Refused, At, Free, Goes,
         Returns, lockVars, attemptVars, schemaVars
<1>6. CASE Trades(p)
  BY <1>6 DEF Trades, SpawnsAndRuns, Leaves, Goes, lockVars, attemptVars, schemaVars
<1>7. CASE FreesLock(p)
  BY <1>7
     DEF FreesLock, Unlock, CheckRecord, RemoveRecord, At, lockVars, attemptVars, schemaVars
<1>8. CASE Repeats(p)
  BY <1>8 DEF Repeats, RecordsAttempt, Retries, lockVars, attemptVars, schemaVars
<1>9. CASE Gone(p)
  BY <1>9 DEF Gone, End, Cleared, lockVars, attemptVars, schemaVars
<1>10. CASE Obeys(p)
  BY <1>10 DEF Obeys, Signalled, lockVars, attemptVars, schemaVars
<1> QED BY <1>1, <1>2, <1>3, <1>4, <1>5, <1>6, <1>7, <1>8, <1>9, <1>10 DEF Moves

\* A process is in acquire or release exactly when its attempt is.
LEMMA StageStep ==
  ASSUME LockType, AttemptType, SchemaType, StageAndPhase, NEW p \in Pids, Moves(p),
         NEW q \in Pids
  PROVE  StageAndPhaseOf(q)'
<1> USE DEF Starts, Gates, Migrates, Prepares,
         Trades, Repeats, Obeys
<1> USE DEF StageAndPhaseOf, StageAndPhase, AtLock, Phases, Stages
<1>1. CASE q # p
  BY <1>1, OthersStay
<1>2. CASE q = p
  <2> USE DEF LockType, AttemptType, SchemaType
  <2>1. CASE Starts(p)
    BY <1>2, <2>1
       DEF Starts, StartWrapped, StartDirect, StartStranger, Begin, lockVars, attemptVars,
           schemaVars
  <2>2. CASE Gates(p)
    BY <1>2, <2>2
       DEF Gates, PreflightOk, Gated, LooksForLegacy, Returns, lockVars, attemptVars,
           schemaVars
  <2>3. CASE Migrates(p)
    BY <1>2, <2>3 DEF Migrates, MigrationLock, MigrationTimeout, ScriptStep, ScriptDone,
           MigrationUnlock, Goes, Returns, lockVars, attemptVars, schemaVars
  <2>4. CASE Prepares(p)
    BY <1>2, <2>4
       DEF Prepares, Backup, Retain, Authenticate, Goes, Returns, lockVars, attemptVars,
           schemaVars
  <2>5. CASE TakesLock(p)
    BY <1>2, <2>5
       DEF TakesLock, Acquire, Sweep, Win, WritePid, LockOwner, Refused, At, Free, Goes,
           Returns, lockVars, attemptVars, schemaVars
  <2>6. CASE Trades(p)
    BY <1>2, <2>6 DEF Trades, SpawnsAndRuns, Leaves, Goes, lockVars, attemptVars, schemaVars
  <2>7. CASE FreesLock(p)
    BY <1>2, <2>7
       DEF FreesLock, Unlock, CheckRecord, RemoveRecord, At, lockVars, attemptVars,
           schemaVars
  <2>8. CASE Repeats(p)
    BY <1>2, <2>8 DEF Repeats, RecordsAttempt, Retries, lockVars, attemptVars, schemaVars
  <2>9. CASE Gone(p)
    BY <1>2, <2>9 DEF Gone, End, Cleared, lockVars, attemptVars, schemaVars
  <2>10. CASE Obeys(p)
    BY <1>2, <2>10 DEF Obeys, Signalled, lockVars, attemptVars, schemaVars
  <2> QED BY <2>1, <2>2, <2>3, <2>4, <2>5, <2>6, <2>7, <2>8, <2>9, <2>10 DEF Moves
<1> QED BY <1>1, <1>2

\* Who has the flock has won it and not released it.
LEMMA FlockStep ==
  ASSUME LockType, AttemptType, SchemaType, StageAndPhase, FlockIsHeld, NEW p \in Pids,
         Moves(p), NEW q \in Pids
  PROVE  FlockOf(q)'
<1> USE DEF Starts, Gates, Migrates, Prepares,
         Trades, Repeats, Obeys
<1> USE DEF FlockOf, FlockIsHeld, StageAndPhaseOf, StageAndPhase, AtLock, Phases
<1>1. CASE q # p
  <2>0. (holder' = q) = (holder = q)
    <3> USE DEF LockType, AttemptType, SchemaType
    <3>1. CASE Starts(p)
      BY <1>1, <3>1, LockAssumption
         DEF Starts, StartWrapped, StartDirect, StartStranger, Begin, lockVars, attemptVars,
             schemaVars
    <3>2. CASE Gates(p)
      BY <1>1, <3>2, LockAssumption
         DEF Gates, PreflightOk, Gated, LooksForLegacy, Returns, lockVars, attemptVars,
             schemaVars
    <3>3. CASE Migrates(p)
      BY <1>1, <3>3, LockAssumption
         DEF Migrates, MigrationLock, MigrationTimeout, ScriptStep, ScriptDone,
             MigrationUnlock, Goes, Returns, lockVars, attemptVars, schemaVars
    <3>4. CASE Prepares(p)
      BY <1>1, <3>4, LockAssumption
         DEF Prepares, Backup, Retain, Authenticate, Goes, Returns, lockVars, attemptVars,
             schemaVars
    <3>5. CASE TakesLock(p)
      BY <1>1, <3>5, LockAssumption
         DEF TakesLock, Acquire, Sweep, Win, WritePid, LockOwner, Refused, At, Free, Goes,
             Returns, lockVars, attemptVars, schemaVars
    <3>6. CASE Trades(p)
      BY <1>1, <3>6, LockAssumption
         DEF Trades, SpawnsAndRuns, Leaves, Goes, lockVars, attemptVars, schemaVars
    <3>7. CASE FreesLock(p)
      BY <1>1, <3>7, LockAssumption
         DEF FreesLock, Unlock, CheckRecord, RemoveRecord, At, lockVars, attemptVars,
             schemaVars
    <3>8. CASE Repeats(p)
      BY <1>1, <3>8, LockAssumption
         DEF Repeats, RecordsAttempt, Retries, lockVars, attemptVars, schemaVars
    <3>9. CASE Gone(p)
      BY <1>1, <3>9, LockAssumption
         DEF Gone, End, Cleared, lockVars, attemptVars, schemaVars
    <3>10. CASE Obeys(p)
      BY <1>1, <3>10, LockAssumption DEF Obeys, Signalled, lockVars, attemptVars, schemaVars
    <3> QED BY <3>1, <3>2, <3>3, <3>4, <3>5, <3>6, <3>7, <3>8, <3>9, <3>10 DEF Moves
  <2> QED BY <1>1, <2>0, OthersStay
<1>2. CASE q = p
  <2> USE DEF LockType, AttemptType, SchemaType
  <2>1. CASE Starts(p)
    BY <1>2, <2>1, LockAssumption
       DEF Starts, StartWrapped, StartDirect, StartStranger, Begin, lockVars, attemptVars,
           schemaVars
  <2>2. CASE Gates(p)
    BY <1>2, <2>2, LockAssumption
       DEF Gates, PreflightOk, Gated, LooksForLegacy, Returns, lockVars, attemptVars,
           schemaVars
  <2>3. CASE Migrates(p)
    BY <1>2, <2>3, LockAssumption
       DEF Migrates, MigrationLock, MigrationTimeout, ScriptStep, ScriptDone,
           MigrationUnlock, Goes, Returns, lockVars, attemptVars, schemaVars
  <2>4. CASE Prepares(p)
    BY <1>2, <2>4, LockAssumption
       DEF Prepares, Backup, Retain, Authenticate, Goes, Returns, lockVars, attemptVars,
           schemaVars
  <2>5. CASE TakesLock(p)
    BY <1>2, <2>5, LockAssumption
       DEF TakesLock, Acquire, Sweep, Win, WritePid, LockOwner, Refused, At, Free, Goes,
           Returns, lockVars, attemptVars, schemaVars
  <2>6. CASE Trades(p)
    BY <1>2, <2>6, LockAssumption
       DEF Trades, SpawnsAndRuns, Leaves, Goes, lockVars, attemptVars, schemaVars
  <2>7. CASE FreesLock(p)
    BY <1>2, <2>7, LockAssumption
       DEF FreesLock, Unlock, CheckRecord, RemoveRecord, At, lockVars, attemptVars,
           schemaVars
  <2>8. CASE Repeats(p)
    BY <1>2, <2>8, LockAssumption
       DEF Repeats, RecordsAttempt, Retries, lockVars, attemptVars, schemaVars
  <2>9. CASE Gone(p)
    <3>1. phase'[p] = "out"
      BY <2>9 DEF Gone, End
    <3>2. holder' = IF holder = p THEN Nobody ELSE holder
      BY <2>9 DEF Gone, End
    <3> QED BY <1>2, <3>1, <3>2, LockAssumption
  <2>10. CASE Obeys(p)
    BY <1>2, <2>10, LockAssumption DEF Obeys, Signalled, lockVars, attemptVars, schemaVars
  <2> QED BY <2>1, <2>2, <2>3, <2>4, <2>5, <2>6, <2>7, <2>8, <2>9, <2>10 DEF Moves
<1> QED BY <1>1, <1>2

\* What a step does to the PID file.
LEMMA PidFileMoves ==
  ASSUME LockType, NEW p \in Pids, Moves(p)
  PROVE  \/ pidFile' \in {pidFile, NoFile}
         \/ /\ pidFile' = LockOwner(p) /\ phase[p] = "won" /\ phase'[p] = "held"
            /\ UNCHANGED <<life, born>>
<1> USE DEF LockType, Starts, Gates, Migrates, Prepares,
         Trades, Repeats, Obeys
<1>1. CASE Gates(p) \/ Migrates(p) \/ Prepares(p) \/ Trades(p) \/ Repeats(p) \/ Obeys(p)
  BY <1>1 DEF Gates, PreflightOk, Gated, LooksForLegacy, Returns, Migrates, MigrationLock,
         MigrationTimeout, ScriptStep, ScriptDone, MigrationUnlock, Goes, Prepares, Backup,
         Retain, Authenticate, Trades, SpawnsAndRuns, Leaves, Repeats, RecordsAttempt,
         Retries, Obeys, Signalled, lockVars, attemptVars, schemaVars
<1>2. CASE Starts(p)
  BY <1>2
     DEF Starts, StartWrapped, StartDirect, StartStranger, Begin, lockVars, attemptVars,
         schemaVars
<1>3. CASE Gone(p)
  BY <1>3 DEF Gone, End, Cleared, lockVars, attemptVars, schemaVars
<1>4. CASE TakesLock(p)
  BY <1>4 DEF TakesLock, Acquire, Sweep, Win, WritePid, Refused, At, Free, Goes, Returns,
         lockVars, attemptVars, schemaVars
<1>5. CASE FreesLock(p)
  BY <1>5
     DEF FreesLock, Unlock, CheckRecord, RemoveRecord, At, lockVars, attemptVars, schemaVars
<1> QED BY <1>1, <1>2, <1>3, <1>4, <1>5 DEF Moves

\* What it does to the process that takes it.
LEMMA ProcessMoves ==
  ASSUME LockType, StageAndPhase, NEW p \in Pids, Moves(p)
  PROVE  \/ life[p] = "dead" /\ born'[p] = born[p] + 1
         \/ life'[p] = "dead" /\ born'[p] = born[p]
         \/ /\ life'[p] = life[p] /\ born'[p] = born[p] /\ life[p] = "launcher"
            /\ phase'[p] = phase[p] \/ phase[p] \notin {"held", "unlocked", "remove"}
                 \/ phase'[p] \in {"held", "unlocked", "remove"} \/ pidFile' = NoFile \/ pidFile.pid # p
<1> USE DEF LockType, Phases, StageAndPhase, StageAndPhaseOf, AtLock, Starts, Gates, Migrates, Prepares,
         Trades,
        Repeats, Obeys
<1>1. CASE Gates(p) \/ Migrates(p) \/ Prepares(p) \/ Trades(p) \/ Repeats(p) \/ Obeys(p)
  BY <1>1 DEF Gates, PreflightOk, Gated, LooksForLegacy, Returns, Migrates, MigrationLock,
         MigrationTimeout, ScriptStep, ScriptDone, MigrationUnlock, Goes, Prepares, Backup,
         Retain, Authenticate, Trades, SpawnsAndRuns, Leaves, Repeats, RecordsAttempt,
         Retries, Obeys, Signalled, lockVars, attemptVars, schemaVars
<1>2. CASE Starts(p)
  BY <1>2
     DEF Starts, StartWrapped, StartDirect, StartStranger, Begin, lockVars, attemptVars,
         schemaVars
<1>3. CASE Gone(p)
  BY <1>3 DEF Gone, End, Cleared, lockVars, attemptVars, schemaVars
<1>4. CASE TakesLock(p)
  BY <1>4 DEF TakesLock, Acquire, Sweep, Win, WritePid, LockOwner, Refused, At, Free, Goes,
         Returns, lockVars, attemptVars, schemaVars
<1>5. CASE FreesLock(p)
  BY <1>5
     DEF FreesLock, Unlock, CheckRecord, RemoveRecord, At, lockVars, attemptVars, schemaVars
<1> QED BY <1>1, <1>2, <1>3, <1>4, <1>5 DEF Moves

\* A PID file is never ahead of its PID, and one that verifies is its writer's.
LEMMA RecordStep ==
  ASSUME LockType, AttemptType, SchemaType, StageAndPhase, RecordIsPast, NEW p \in Pids,
         Moves(p), NEW q \in Pids
  PROVE  RecordOf(q)'
<1> SUFFICES ASSUME pidFile'.pid = q PROVE RecordOf(q)'
  BY DEF RecordOf
<1>1. NoFile.pid \notin Pids /\ LockOwner(p).pid = p /\ LockOwner(p).born = born[p]
  BY LockAssumption DEF NoFile, LockOwner
<1>2. born[q] \in Nat /\ phase[q] \in Phases
  BY DEF LockType
<1>3. CASE pidFile' = pidFile
  <2>1. pidFile.born \in Nat /\ RecordOf(q) /\ pidFile.pid = q /\ pidFile' # NoFile
    BY <1>1, <1>3 DEF LockType, RecordIsPast
  <2>2. CASE q # p
    BY <1>3, <2>1, <2>2, OthersStay DEF RecordOf
  <2>3. CASE q = p
    BY <1>2, <1>3, <2>1, <2>3, ProcessMoves DEF RecordOf
  <2> QED BY <2>2, <2>3
<1>4. CASE pidFile' = LockOwner(p) /\ phase[p] = "won" /\ phase'[p] = "held" /\ UNCHANGED <<life, born>>
  <2>1. q = p /\ pidFile'.born = born[q]
    BY <1>1, <1>4
  <2>2. life[q] = "launcher"
    BY <1>4, <2>1 DEF StageAndPhase, StageAndPhaseOf, AtLock
  <2> QED BY <1>2, <1>4, <2>1, <2>2 DEF RecordOf
<1> QED BY <1>1, <1>3, <1>4, PidFileMoves

\* An attempt that saw the legacy system gets no further.
LEMMA LegacyStep ==
  ASSUME LockType, AttemptType, SchemaType, StageAndPhase, NeverBesideLegacy,
         NEW p \in Pids, Moves(p), NEW q \in Pids
  PROVE  BesideOf(q)'
<1> USE DEF Starts, Gates, Migrates, Prepares,
         Trades, Repeats, Obeys
<1> USE DEF BesideOf, NeverBesideLegacy, LaunchctlAnswers, LegacyActive, StageAndPhaseOf,
         StageAndPhase, AtLock, Phases
<1>1. CASE q # p
  BY <1>1, OthersStay
<1>2. CASE q = p
  <2> USE DEF LockType, AttemptType, SchemaType
  <2>1. CASE Starts(p)
    BY <1>2, <2>1
       DEF Starts, StartWrapped, StartDirect, StartStranger, Begin, lockVars, attemptVars,
           schemaVars
  <2>2. CASE Gates(p)
    BY <1>2, <2>2
       DEF Gates, PreflightOk, Gated, LooksForLegacy, Returns, lockVars, attemptVars,
           schemaVars
  <2>3. CASE Migrates(p)
    BY <1>2, <2>3 DEF Migrates, MigrationLock, MigrationTimeout, ScriptStep, ScriptDone,
           MigrationUnlock, Goes, Returns, lockVars, attemptVars, schemaVars
  <2>4. CASE Prepares(p)
    BY <1>2, <2>4
       DEF Prepares, Backup, Retain, Authenticate, Goes, Returns, lockVars, attemptVars,
           schemaVars
  <2>5. CASE TakesLock(p)
    BY <1>2, <2>5
       DEF TakesLock, Acquire, Sweep, Win, WritePid, LockOwner, Refused, At, Free, Goes,
           Returns, lockVars, attemptVars, schemaVars
  <2>6. CASE Trades(p)
    BY <1>2, <2>6 DEF Trades, SpawnsAndRuns, Leaves, Goes, lockVars, attemptVars, schemaVars
  <2>7. CASE FreesLock(p)
    BY <1>2, <2>7
       DEF FreesLock, Unlock, CheckRecord, RemoveRecord, At, lockVars, attemptVars,
           schemaVars
  <2>8. CASE Repeats(p)
    BY <1>2, <2>8 DEF Repeats, RecordsAttempt, Retries, lockVars, attemptVars, schemaVars
  <2>9. CASE Gone(p)
    BY <1>2, <2>9 DEF Gone, End, Cleared, lockVars, attemptVars, schemaVars
  <2>10. CASE Obeys(p)
    BY <1>2, <2>10 DEF Obeys, Signalled, lockVars, attemptVars, schemaVars
  <2> QED BY <2>1, <2>2, <2>3, <2>4, <2>5, <2>6, <2>7, <2>8, <2>9, <2>10 DEF Moves
<1> QED BY <1>1, <1>2

\* A run that obeyed its signal ends with EXIT_SAFETY_STOP.
LEMMA FinalStep ==
  ASSUME LockType, AttemptType, SchemaType, StageAndPhase, SignalledIsSafety,
         NEW p \in Pids, Moves(p), NEW q \in Pids
  PROVE  FinalOf(q)'
<1> USE DEF Starts, Gates, Migrates, Prepares,
         Trades, Repeats, Obeys
<1> USE DEF FinalOf, SignalledIsSafety, IsTerminal, Terminal, StageAndPhaseOf, StageAndPhase, AtLock, Phases
<1>1. CASE q # p
  BY <1>1, OthersStay
<1>2. CASE q = p
  <2> USE DEF LockType, AttemptType, SchemaType
  <2>1. CASE Starts(p)
    BY <1>2, <2>1
       DEF Starts, StartWrapped, StartDirect, StartStranger, Begin, lockVars, attemptVars,
           schemaVars
  <2>2. CASE Gates(p)
    BY <1>2, <2>2
       DEF Gates, PreflightOk, Gated, LooksForLegacy, Returns, lockVars, attemptVars,
           schemaVars
  <2>3. CASE Migrates(p)
    BY <1>2, <2>3 DEF Migrates, MigrationLock, MigrationTimeout, ScriptStep, ScriptDone,
           MigrationUnlock, Goes, Returns, lockVars, attemptVars, schemaVars
  <2>4. CASE Prepares(p)
    BY <1>2, <2>4
       DEF Prepares, Backup, Retain, Authenticate, Goes, Returns, lockVars, attemptVars,
           schemaVars
  <2>5. CASE TakesLock(p)
    BY <1>2, <2>5
       DEF TakesLock, Acquire, Sweep, Win, WritePid, LockOwner, Refused, At, Free, Goes,
           Returns, lockVars, attemptVars, schemaVars
  <2>6. CASE Trades(p)
    BY <1>2, <2>6 DEF Trades, SpawnsAndRuns, Leaves, Goes, lockVars, attemptVars, schemaVars
  <2>7. CASE FreesLock(p)
    BY <1>2, <2>7
       DEF FreesLock, Unlock, CheckRecord, RemoveRecord, At, lockVars, attemptVars,
           schemaVars
  <2>8. CASE Repeats(p)
    BY <1>2, <2>8 DEF Repeats, RecordsAttempt, Retries, lockVars, attemptVars, schemaVars
  <2>9. CASE Gone(p)
    BY <1>2, <2>9 DEF Gone, End, Cleared, lockVars, attemptVars, schemaVars
  <2>10. CASE Obeys(p)
    BY <1>2, <2>10 DEF Obeys, Signalled, lockVars, attemptVars, schemaVars
  <2> QED BY <2>1, <2>2, <2>3, <2>4, <2>5, <2>6, <2>7, <2>8, <2>9, <2>10 DEF Moves
<1> QED BY <1>1, <1>2

\* Who is at the script has the migration lock, and nobody else.
LEMMA MigrationLockStep ==
  ASSUME LockType, AttemptType, SchemaType, StageAndPhase, Migration, NEW p \in Pids,
         Moves(p), NEW q \in Pids
  PROVE  MigrationLockOf(q)'
<1> USE DEF Starts, Gates, Migrates, Prepares,
         Trades, Repeats, Obeys
<1> USE DEF MigrationLockOf, ScriptOf, Migration, AtLock, Stages, StageAndPhaseOf, StageAndPhase, Phases
<1>1. CASE q # p
  <2>0. (migrating' = q) = (migrating = q)
    <3> USE DEF LockType, AttemptType, SchemaType
    <3>1. CASE Starts(p)
      BY <1>1, <3>1, LockAssumption
         DEF Starts, StartWrapped, StartDirect, StartStranger, Begin, lockVars, attemptVars,
             schemaVars
    <3>2. CASE Gates(p)
      BY <1>1, <3>2, LockAssumption
         DEF Gates, PreflightOk, Gated, LooksForLegacy, Returns, lockVars, attemptVars,
             schemaVars
    <3>3. CASE Migrates(p)
      BY <1>1, <3>3, LockAssumption
         DEF Migrates, MigrationLock, MigrationTimeout, ScriptStep, ScriptDone,
             MigrationUnlock, Goes, Returns, lockVars, attemptVars, schemaVars
    <3>4. CASE Prepares(p)
      BY <1>1, <3>4, LockAssumption
         DEF Prepares, Backup, Retain, Authenticate, Goes, Returns, lockVars, attemptVars,
             schemaVars
    <3>5. CASE TakesLock(p)
      BY <1>1, <3>5, LockAssumption
         DEF TakesLock, Acquire, Sweep, Win, WritePid, LockOwner, Refused, At, Free, Goes,
             Returns, lockVars, attemptVars, schemaVars
    <3>6. CASE Trades(p)
      BY <1>1, <3>6, LockAssumption
         DEF Trades, SpawnsAndRuns, Leaves, Goes, lockVars, attemptVars, schemaVars
    <3>7. CASE FreesLock(p)
      BY <1>1, <3>7, LockAssumption
         DEF FreesLock, Unlock, CheckRecord, RemoveRecord, At, lockVars, attemptVars,
             schemaVars
    <3>8. CASE Repeats(p)
      BY <1>1, <3>8, LockAssumption
         DEF Repeats, RecordsAttempt, Retries, lockVars, attemptVars, schemaVars
    <3>9. CASE Gone(p)
      BY <1>1, <3>9, LockAssumption
         DEF Gone, End, Cleared, lockVars, attemptVars, schemaVars
    <3>10. CASE Obeys(p)
      BY <1>1, <3>10, LockAssumption DEF Obeys, Signalled, lockVars, attemptVars, schemaVars
    <3> QED BY <3>1, <3>2, <3>3, <3>4, <3>5, <3>6, <3>7, <3>8, <3>9, <3>10 DEF Moves
  <2> QED BY <1>1, <2>0, OthersStay
<1>2. CASE q = p
  <2> USE DEF LockType, AttemptType, SchemaType
  <2>1. CASE Starts(p)
    BY <1>2, <2>1, LockAssumption
       DEF Starts, StartWrapped, StartDirect, StartStranger, Begin, lockVars, attemptVars,
           schemaVars
  <2>2. CASE Gates(p)
    BY <1>2, <2>2, LockAssumption
       DEF Gates, PreflightOk, Gated, LooksForLegacy, Returns, lockVars, attemptVars,
           schemaVars
  <2>3. CASE Migrates(p)
    BY <1>2, <2>3, LockAssumption
       DEF Migrates, MigrationLock, MigrationTimeout, ScriptStep, ScriptDone,
           MigrationUnlock, Goes, Returns, lockVars, attemptVars, schemaVars
  <2>4. CASE Prepares(p)
    BY <1>2, <2>4, LockAssumption
       DEF Prepares, Backup, Retain, Authenticate, Goes, Returns, lockVars, attemptVars,
           schemaVars
  <2>5. CASE TakesLock(p)
    BY <1>2, <2>5, LockAssumption
       DEF TakesLock, Acquire, Sweep, Win, WritePid, LockOwner, Refused, At, Free, Goes,
           Returns, lockVars, attemptVars, schemaVars
  <2>6. CASE Trades(p)
    BY <1>2, <2>6, LockAssumption
       DEF Trades, SpawnsAndRuns, Leaves, Goes, lockVars, attemptVars, schemaVars
  <2>7. CASE FreesLock(p)
    BY <1>2, <2>7, LockAssumption
       DEF FreesLock, Unlock, CheckRecord, RemoveRecord, At, lockVars, attemptVars,
           schemaVars
  <2>8. CASE Repeats(p)
    BY <1>2, <2>8, LockAssumption
       DEF Repeats, RecordsAttempt, Retries, lockVars, attemptVars, schemaVars
  <2>9. CASE Gone(p)
    BY <1>2, <2>9, LockAssumption DEF Gone, End, Cleared, lockVars, attemptVars, schemaVars
  <2>10. CASE Obeys(p)
    BY <1>2, <2>10, LockAssumption DEF Obeys, Signalled, lockVars, attemptVars, schemaVars
  <2> QED BY <2>1, <2>2, <2>3, <2>4, <2>5, <2>6, <2>7, <2>8, <2>9, <2>10 DEF Moves
<1> QED BY <1>1, <1>2

\* Nothing that is done to the schema is undone.
LEMMA SchemaGrows ==
  ASSUME SchemaType, NEW p \in Pids, Moves(p)
  PROVE  schema \subseteq schema' /\ (recorded => recorded')
<1> USE DEF SchemaType, Starts, Gates, Migrates, Prepares,
         Trades, Repeats, Obeys
<1>1. CASE Gates(p) \/ Migrates(p) \/ Prepares(p) \/ Trades(p) \/ Repeats(p) \/ Obeys(p)
  BY <1>1 DEF Gates, PreflightOk, Gated, LooksForLegacy, Returns, Migrates, MigrationLock,
         MigrationTimeout, ScriptStep, ScriptDone, MigrationUnlock, Goes, Prepares, Backup,
         Retain, Authenticate, Trades, SpawnsAndRuns, Leaves, Repeats, RecordsAttempt,
         Retries, Obeys, Signalled, lockVars, attemptVars, schemaVars
<1>2. CASE Starts(p)
  BY <1>2
     DEF Starts, StartWrapped, StartDirect, StartStranger, Begin, lockVars, attemptVars,
         schemaVars
<1>3. CASE Gone(p)
  BY <1>3 DEF Gone, End, Cleared, lockVars, attemptVars, schemaVars
<1>4. CASE TakesLock(p)
  BY <1>4 DEF TakesLock, Acquire, Sweep, Win, WritePid, LockOwner, Refused, At, Free, Goes,
         Returns, lockVars, attemptVars, schemaVars
<1>5. CASE FreesLock(p)
  BY <1>5
     DEF FreesLock, Unlock, CheckRecord, RemoveRecord, At, lockVars, attemptVars, schemaVars
<1> QED BY <1>1, <1>2, <1>3, <1>4, <1>5 DEF Moves

\* What one step of the migration's script does: a statement, or the version.
ScriptMoves(p) ==
  /\ next[p] \in 1..(NumStatements + 1) /\ next'[p] = next[p] + 1 /\ stage[p] = "script"
  /\ next' = [next EXCEPT ![p] = next[p] + 1] /\ migrating' \in {migrating, Nobody}
  /\ \/ /\ next[p] <= NumStatements /\ schema' = schema \cup {next[p]}
        /\ recorded' = recorded /\ stage'[p] = "script"
     \/ /\ next[p] = NumStatements + 1 /\ recorded' = TRUE /\ schema' = schema
        /\ stage'[p] \in {"script", "returned"}

LEMMA ScriptStepIs ==
  ASSUME SchemaType, AttemptType, NEW p \in Pids, ScriptStep(p)
  PROVE  ScriptMoves(p)
<1> USE LaunchAssumption DEF AttemptType, SchemaType
<1>1. next[p] \in 1..(NumStatements + 1) /\ next' = [next EXCEPT ![p] = next[p] + 1] /\ stage[p] = "script"
  BY DEF ScriptStep, Script
<1>2. next'[p] = next[p] + 1
  BY <1>1
<1>3. CASE next[p] <= NumStatements
  <2>1. Script[next[p]] = next[p] /\ next[p] # Insert
    BY <1>1, <1>3 DEF Script, Insert
  <2>2. schema' = schema \cup {next[p]} /\ UNCHANGED <<recorded, migrating, attemptVars>>
    BY <2>1 DEF ScriptStep
  <2> QED BY <1>1, <1>2, <1>3, <2>2 DEF ScriptMoves, attemptVars
<1>4. CASE next[p] = NumStatements + 1
  <2>1. Script[next[p]] = Insert
    BY <1>1, <1>4 DEF Script, Insert
  <2>2. recorded' = TRUE /\ schema' = schema
    BY <2>1 DEF ScriptStep
  <2>3. stage'[p] \in {"script", "returned"} /\ migrating' \in {migrating, Nobody}
    BY <1>1, <2>1 DEF ScriptStep, Returns, attemptVars
  <2> QED BY <1>1, <1>2, <1>4, <2>2, <2>3 DEF ScriptMoves
<1>5. next[p] <= NumStatements \/ next[p] = NumStatements + 1
  BY <1>1
<1> QED BY <1>3, <1>4, <1>5

\* What a script has passed is in the schema, whoever else works at it.
LEMMA ScriptStepKeeps ==
  ASSUME LockType, AttemptType, SchemaType, StageAndPhase, Migration, RecordedIsWhole,
         NEW p \in Pids, Moves(p), NEW q \in Pids
  PROVE  ScriptOf(q)'
<1> USE DEF Starts, Gates, Migrates, Prepares,
         Trades, Repeats, Obeys
<1> USE DEF MigrationLockOf, ScriptOf, Migration, RecordedIsWhole, Script, Insert, AtLock,
         Stages, StageAndPhaseOf, StageAndPhase, Phases
<1>1. CASE q # p
  BY <1>1, SchemaGrows, OthersStay
<1>2. CASE q = p
  <2> USE DEF LockType, AttemptType, SchemaType
  <2>1. CASE Starts(p)
    BY <1>2, <2>1, LaunchAssumption, SchemaGrows
       DEF Starts, StartWrapped, StartDirect, StartStranger, Begin, lockVars, attemptVars,
           schemaVars
  <2>2. CASE Gates(p)
    BY <1>2, <2>2, LaunchAssumption, SchemaGrows
       DEF Gates, PreflightOk, Gated, LooksForLegacy, Returns, lockVars, attemptVars,
           schemaVars
  <2>3. CASE Migrates(p)
    <3>1. CASE MigrationLock(p)
      BY <1>2, <3>1, LaunchAssumption DEF MigrationLock, Goes
    <3>2. CASE MigrationTimeout(p) \/ MigrationUnlock(p)
      BY <1>2, <3>2 DEF MigrationTimeout, MigrationUnlock, Returns, Goes, schemaVars
    <3>3. CASE ScriptDone(p)
      BY <1>2, <3>3, LaunchAssumption DEF ScriptDone, Goes
    <3>4. CASE ScriptStep(p)
      <4>0. ScriptMoves(p)
        <5> HIDE DEF SchemaType, AttemptType
        <5> QED BY <3>4, ScriptStepIs
      <4>1. CASE next[p] <= NumStatements /\ schema' = schema \cup {next[p]} /\ stage'[p] = "script"
        <5>1. next[p] >= 1 /\ next[p] \in Nat /\ next'[p] = next[p] + 1 /\ stage[p] = "script"
          BY <4>0 DEF ScriptMoves
        <5>2. \A i \in 1..NumStatements : i < next'[p] => i < next[p] \/ i = next[p]
          BY <5>1, LaunchAssumption
        <5>3. \A i \in 1..NumStatements : i < next'[p] => i \in schema'
          BY <4>1, <5>1, <5>2
        <5>4. next'[p] >= 1 /\ ~(next'[p] > NumStatements + 1)
          BY SMTT(20), <4>1, <5>1, LaunchAssumption
        <5> QED BY <1>2, <4>1, <5>3, <5>4
      <4>2. CASE next[p] = NumStatements + 1 /\ recorded' /\ schema' = schema /\ stage'[p] \in {"script", "returned"}
        <5>1. next'[p] = NumStatements + 2 /\ stage[p] = "script"
          BY <4>0, <4>2, LaunchAssumption DEF ScriptMoves
        <5>2. \A i \in 1..NumStatements : i < next[p]
          BY <4>2, LaunchAssumption
        <5> QED BY <1>2, <4>2, <5>1, <5>2, LaunchAssumption
      <4> QED BY <4>0, <4>1, <4>2 DEF ScriptMoves
    <3> QED BY <2>3, <3>1, <3>2, <3>3, <3>4 DEF Migrates
  <2>4. CASE Prepares(p)
    BY <1>2, <2>4, LaunchAssumption, SchemaGrows
       DEF Prepares, Backup, Retain, Authenticate, Goes, Returns, lockVars, attemptVars,
           schemaVars
  <2>5. CASE TakesLock(p)
    BY <1>2, <2>5, LaunchAssumption, SchemaGrows
       DEF TakesLock, Acquire, Sweep, Win, WritePid, LockOwner, Refused, At, Free, Goes,
           Returns, lockVars, attemptVars, schemaVars
  <2>6. CASE Trades(p)
    BY <1>2, <2>6, LaunchAssumption, SchemaGrows
       DEF Trades, SpawnsAndRuns, Leaves, Goes, lockVars, attemptVars, schemaVars
  <2>7. CASE FreesLock(p)
    BY <1>2, <2>7, LaunchAssumption, SchemaGrows
       DEF FreesLock, Unlock, CheckRecord, RemoveRecord, At, lockVars, attemptVars,
           schemaVars
  <2>8. CASE Repeats(p)
    BY <1>2, <2>8, LaunchAssumption, SchemaGrows
       DEF Repeats, RecordsAttempt, Retries, lockVars, attemptVars, schemaVars
  <2>9. CASE Gone(p)
    BY <1>2, <2>9, LaunchAssumption, SchemaGrows
       DEF Gone, End, Cleared, lockVars, attemptVars, schemaVars
  <2>10. CASE Obeys(p)
    BY <1>2, <2>10, LaunchAssumption, SchemaGrows
       DEF Obeys, Signalled, lockVars, attemptVars, schemaVars
  <2> QED BY <2>1, <2>2, <2>3, <2>4, <2>5, <2>6, <2>7, <2>8, <2>9, <2>10 DEF Moves
<1> QED BY <1>1, <1>2

\* The rows of schema_migrations and the scripts keep their types.
LEMMA SchemaTypeStep ==
  LockType /\ AttemptType /\ SchemaType /\ [LaunchNext]_launchVars => SchemaType'
<1> SUFFICES ASSUME LockType, AttemptType, SchemaType, [LaunchNext]_launchVars
             PROVE SchemaType'
  OBVIOUS
<1> USE DEF Starts, Gates, Migrates, Prepares,
         Trades, Repeats, Obeys
<1> USE LaunchAssumption DEF SchemaType
<1>1. ASSUME NEW p \in Pids, Starts(p) PROVE SchemaType'
  BY <1>1
     DEF Starts, StartWrapped, StartDirect, StartStranger, Begin, lockVars, attemptVars,
         schemaVars
<1>2. ASSUME NEW p \in Pids, Gates(p) PROVE SchemaType'
  BY <1>2 DEF Gates, PreflightOk, Gated, LooksForLegacy, Returns, lockVars, attemptVars,
         schemaVars
<1>3. ASSUME NEW p \in Pids, Migrates(p) PROVE SchemaType'
  <2>1. CASE ScriptStep(p)
    <3>0. ScriptMoves(p)
      <4> HIDE DEF SchemaType
      <4> QED BY <2>1, ScriptStepIs
    <3>1. migrating' \in Pids \cup {Nobody}
      BY <3>0 DEF ScriptMoves
    <3>4. schema' \subseteq 1..NumStatements
      <4>1. CASE next[p] <= NumStatements /\ schema' = schema \cup {next[p]}
        <5>1. next[p] \in 1..NumStatements
          BY <3>0, <4>1 DEF ScriptMoves
        <5> QED BY <4>1, <5>1
      <4>2. CASE schema' = schema
        BY <4>2
      <4> QED BY <3>0, <4>1, <4>2 DEF ScriptMoves
    <3>5. recorded' \in BOOLEAN
      <4>1. recorded \in BOOLEAN /\ recorded' \in {recorded, TRUE}
        BY <3>0 DEF ScriptMoves
      <4> HIDE DEF SchemaType
      <4> QED BY <4>1
    <3>2. next[p] + 1 \in 0..(NumStatements + 2)
      BY <3>0 DEF ScriptMoves
    <3>3. next' \in [Pids -> 0..(NumStatements + 2)]
      BY <3>0, <3>2 DEF ScriptMoves
    <3> QED BY <3>1, <3>3, <3>4, <3>5
  <2>2. CASE MigrationLock(p)
    <3>1. 0 \in 0..(NumStatements + 2) /\ 1 \in 0..(NumStatements + 2)
      OBVIOUS
    <3>2. next' \in [Pids -> 0..(NumStatements + 2)]
      BY <2>2, <3>1 DEF MigrationLock
    <3> QED BY <2>2, <3>2 DEF MigrationLock
  <2>3. CASE MigrationTimeout(p)
    BY <2>3 DEF MigrationTimeout, schemaVars
  <2>4. CASE ScriptDone(p)
    BY <2>4 DEF ScriptDone
  <2>5. CASE MigrationUnlock(p)
    BY <2>5 DEF MigrationUnlock
  <2> QED BY <1>3, <2>1, <2>2, <2>3, <2>4, <2>5
<1>4. ASSUME NEW p \in Pids, Prepares(p) PROVE SchemaType'
  BY <1>4 DEF Prepares, Backup, Retain, Authenticate, Goes, Returns, lockVars, attemptVars,
         schemaVars
<1>5. ASSUME NEW p \in Pids, TakesLock(p) PROVE SchemaType'
  BY <1>5 DEF TakesLock, Acquire, Sweep, Win, WritePid, LockOwner, Refused, At, Free, Goes,
         Returns, lockVars, attemptVars, schemaVars
<1>6. ASSUME NEW p \in Pids, Trades(p) PROVE SchemaType'
  BY <1>6 DEF Trades, SpawnsAndRuns, Leaves, Goes, lockVars, attemptVars, schemaVars
<1>7. ASSUME NEW p \in Pids, FreesLock(p) PROVE SchemaType'
  BY <1>7
     DEF FreesLock, Unlock, CheckRecord, RemoveRecord, At, lockVars, attemptVars, schemaVars
<1>8. ASSUME NEW p \in Pids, Repeats(p) PROVE SchemaType'
  BY <1>8 DEF Repeats, RecordsAttempt, Retries, lockVars, attemptVars, schemaVars
<1>9. ASSUME NEW p \in Pids, Gone(p) PROVE SchemaType'
  BY <1>9 DEF Gone, End, Cleared, lockVars, attemptVars, schemaVars
<1>10. ASSUME NEW p \in Pids, Obeys(p) PROVE SchemaType'
  BY <1>10 DEF Obeys, Signalled, lockVars, attemptVars, schemaVars
<1>11. CASE UNCHANGED launchVars
  BY <1>11 DEF launchVars, lockVars, attemptVars, schemaVars
<1> QED BY StepOfOne, <1>1, <1>2, <1>3, <1>4, <1>5, <1>6, <1>7, <1>8, <1>9, <1>10, <1>11
     DEF Moves

\* The version is written once every statement is in.
LEMMA WholeStep ==
  LockType /\ AttemptType /\ SchemaType /\ Migration /\ RecordedIsWhole /\ [LaunchNext]_launchVars => RecordedIsWhole'
<1> SUFFICES ASSUME LockType, AttemptType, SchemaType, Migration, RecordedIsWhole, [LaunchNext]_launchVars
             PROVE RecordedIsWhole'
  OBVIOUS
<1> USE DEF Starts, Gates, Migrates, Prepares,
         Trades, Repeats, Obeys
<1> USE DEF RecordedIsWhole
<1>1. ASSUME NEW p \in Pids, Starts(p) PROVE RecordedIsWhole'
  BY <1>1
     DEF Starts, StartWrapped, StartDirect, StartStranger, Begin, lockVars, attemptVars,
         schemaVars
<1>2. ASSUME NEW p \in Pids, Gates(p) PROVE RecordedIsWhole'
  BY <1>2 DEF Gates, PreflightOk, Gated, LooksForLegacy, Returns, lockVars, attemptVars,
         schemaVars
<1>3. ASSUME NEW p \in Pids, Migrates(p) PROVE RecordedIsWhole'
  <2>1. CASE ScriptStep(p)
    <3>0. ScriptMoves(p)
      BY <2>1, ScriptStepIs
    <3>1. CASE next[p] <= NumStatements /\ schema' = schema \cup {next[p]} /\ recorded' = recorded
      <4>1. next[p] \in 1..NumStatements
        BY <3>0, <3>1, LaunchAssumption DEF ScriptMoves
      <4> QED BY <3>1, <4>1
    <3>2. CASE next[p] = NumStatements + 1 /\ schema' = schema
      <4>1. \A i \in 1..NumStatements : i < next[p]
        BY <3>2, LaunchAssumption
      <4>2. ScriptOf(p) /\ stage[p] = "script"
        BY <3>0 DEF Migration, ScriptMoves
      <4>3. 1..NumStatements \subseteq schema
        BY <4>1, <4>2 DEF ScriptOf
      <4> QED BY <3>2, <4>3 DEF SchemaType
    <3> QED BY <3>0, <3>1, <3>2 DEF ScriptMoves
  <2>2. CASE ~ScriptStep(p)
    BY <1>3, <2>2
       DEF MigrationLock, MigrationTimeout, ScriptDone, MigrationUnlock, schemaVars
  <2> QED BY <2>1, <2>2
<1>4. ASSUME NEW p \in Pids, Prepares(p) PROVE RecordedIsWhole'
  BY <1>4 DEF Prepares, Backup, Retain, Authenticate, Goes, Returns, lockVars, attemptVars,
         schemaVars
<1>5. ASSUME NEW p \in Pids, TakesLock(p) PROVE RecordedIsWhole'
  BY <1>5 DEF TakesLock, Acquire, Sweep, Win, WritePid, LockOwner, Refused, At, Free, Goes,
         Returns, lockVars, attemptVars, schemaVars
<1>6. ASSUME NEW p \in Pids, Trades(p) PROVE RecordedIsWhole'
  BY <1>6 DEF Trades, SpawnsAndRuns, Leaves, Goes, lockVars, attemptVars, schemaVars
<1>7. ASSUME NEW p \in Pids, FreesLock(p) PROVE RecordedIsWhole'
  BY <1>7
     DEF FreesLock, Unlock, CheckRecord, RemoveRecord, At, lockVars, attemptVars, schemaVars
<1>8. ASSUME NEW p \in Pids, Repeats(p) PROVE RecordedIsWhole'
  BY <1>8 DEF Repeats, RecordsAttempt, Retries, lockVars, attemptVars, schemaVars
<1>9. ASSUME NEW p \in Pids, Gone(p) PROVE RecordedIsWhole'
  BY <1>9 DEF Gone, End, Cleared, lockVars, attemptVars, schemaVars
<1>10. ASSUME NEW p \in Pids, Obeys(p) PROVE RecordedIsWhole'
  BY <1>10 DEF Obeys, Signalled, lockVars, attemptVars, schemaVars
<1>11. CASE UNCHANGED launchVars
  BY <1>11 DEF launchVars, lockVars, attemptVars, schemaVars
<1> QED BY StepOfOne, <1>1, <1>2, <1>3, <1>4, <1>5, <1>6, <1>7, <1>8, <1>9, <1>10, <1>11
     DEF Moves

-----------------------------------------------------------------------------
(* Launch: the invariant, and what follows from it.                        *)

\* Who is where, and who has the flock; ...
LockInv == StageAndPhase /\ FlockIsHeld /\ RecordIsPast
\* ... how far the schema has come; what an attempt has found and been told.
SchemaInv == Migration /\ RecordedIsWhole
AttemptInv == NeverBesideLegacy /\ SignalledIsSafety

LaunchInv ==
  /\ LockType /\ AttemptType /\ SchemaType
  /\ LockInv /\ SchemaInv /\ AttemptInv

LEMMA LaunchInitHolds == LaunchInit => LaunchInv
<1> SUFFICES ASSUME LaunchInit PROVE LaunchInv
  OBVIOUS
<1> USE LockAssumption, LaunchAssumption DEF LaunchInit, LockInit
<1>1. LockType
  BY DEF LockType, Phases
<1>2. AttemptType
  BY DEF AttemptType, Stages
<1>3. SchemaType
  <2>1. 0 \in 0..(NumStatements + 2)
    OBVIOUS
  <2>2. next \in [Pids -> 0..(NumStatements + 2)]
    BY <2>1
  <2>3. migrating \in Pids \cup {Nobody} /\ schema \subseteq 1..NumStatements /\ recorded \in BOOLEAN
    OBVIOUS
  <2> QED BY <2>2, <2>3 DEF SchemaType
<1>4. StageAndPhase /\ FlockIsHeld /\ RecordIsPast
  BY DEF StageAndPhase, StageAndPhaseOf, FlockIsHeld, FlockOf, RecordIsPast, RecordOf,
         AtLock, NoFile
<1>5. Migration /\ RecordedIsWhole
  BY DEF Migration, MigrationLockOf, ScriptOf, RecordedIsWhole, AtLock
<1>6. NeverBesideLegacy /\ SignalledIsSafety
  BY DEF NeverBesideLegacy, SignalledIsSafety, FinalOf
<1> QED BY <1>1, <1>2, <1>3, <1>4, <1>5, <1>6 DEF LaunchInv, LockInv, SchemaInv, AttemptInv

LEMMA LaunchStep == LaunchInv /\ [LaunchNext]_launchVars => LaunchInv'
<1> SUFFICES ASSUME LaunchInv, [LaunchNext]_launchVars PROVE LaunchInv'
  OBVIOUS
<1> USE DEF LockInv, SchemaInv, AttemptInv
<1>1. LockType' /\ AttemptType' /\ SchemaType' /\ RecordedIsWhole'
  BY LockTypeStep, AttemptTypeStep, SchemaTypeStep, WholeStep DEF LaunchInv
<1>2. ASSUME NEW p \in Pids, Moves(p) PROVE LaunchInv'
  <2>1. StageAndPhase' /\ FlockIsHeld' /\ RecordIsPast'
    BY <1>2, StageStep, FlockStep, RecordStep
       DEF LaunchInv, StageAndPhase, FlockIsHeld, RecordIsPast
  <2>2. Migration'
    BY <1>2, MigrationLockStep, ScriptStepKeeps DEF LaunchInv, Migration
  <2>3. \A q \in Pids : BesideOf(q)' /\ FinalOf(q)'
    BY <1>2, LegacyStep, FinalStep DEF LaunchInv
  <2>4. NeverBesideLegacy' /\ SignalledIsSafety'
    BY <2>3 DEF NeverBesideLegacy, BesideOf, SignalledIsSafety
  <2> QED BY <1>1, <2>1, <2>2, <2>4 DEF LaunchInv
<1>3. CASE UNCHANGED launchVars
  <2> USE <1>3 DEF LaunchInv, launchVars, lockVars, attemptVars, schemaVars
  <2>1. StageAndPhase' /\ FlockIsHeld' /\ RecordIsPast'
    BY DEF StageAndPhase, StageAndPhaseOf, FlockIsHeld, FlockOf, RecordIsPast, RecordOf
  <2>2. Migration'
    BY DEF Migration, MigrationLockOf, ScriptOf
  <2>3. NeverBesideLegacy' /\ SignalledIsSafety'
    BY DEF NeverBesideLegacy, SignalledIsSafety, FinalOf
  <2> QED BY <1>1, <2>1, <2>2, <2>3 DEF LaunchInv
<1>4. (\E p \in Pids : Moves(p)) \/ UNCHANGED launchVars
  BY StepOfOne DEF LaunchInv
<1> QED BY <1>2, <1>3, <1>4

(* The three types and the seven facts hold of every launch.                   *)
THEOREM LaunchInvHolds == LaunchSpec => []LaunchInv
<1> QED BY LaunchInitHolds, LaunchStep, PTL DEF LaunchSpec

\* What the runs check of a launch follows.
LEMMA LaunchInvIsSound == LaunchInv => LaunchIsSound
<1> SUFFICES ASSUME LaunchInv PROVE LaunchIsSound
  OBVIOUS
<1> USE DEF LaunchInv, LockInv, SchemaInv, AttemptInv
<1>1. LaunchTypeOK
  <2>1. \A p \in Pids : /\ life[p] # "launcher" => phase[p] = "out" /\ stage[p] = "off"
                        /\ phase[p] # "out" => stage[p] \in AtLock
    BY DEF StageAndPhase, StageAndPhaseOf, AtLock
  <2>2. \A p \in Pids : /\ (holder = p) = (phase[p] \in {"won", "held"})
                        /\ (migrating = p) => stage[p] \in {"script", "unlock"}
    BY DEF FlockIsHeld, FlockOf, Migration, MigrationLockOf
  <2>3. \A p \in Pids : attempt[p] \in 0..MaxLaunchAttempts /\ next[p] \in 0..(NumStatements + 2)
    BY DEF AttemptType, SchemaType
  <2> QED BY <2>1, <2>2, <2>3 DEF LaunchTypeOK, SchemaType, AtLock
<1>2. OneSupervisor
  BY DEF OneSupervisor, Runs, FlockIsHeld, FlockOf
<1>3. RecordNamesItsWriter
  <2> SUFFICES ASSUME VerifiedOwner(pidFile)
               PROVE  life[pidFile.pid] = "launcher" /\ phase[pidFile.pid] \in {"held", "unlocked", "remove"}
    BY DEF RecordNamesItsWriter
  <2>1. pidFile.pid \in Pids
    BY DEF VerifiedOwner, LockType
  <2>2. RecordOf(pidFile.pid)
    BY <2>1 DEF RecordIsPast
  <2> QED BY <2>2 DEF RecordOf, VerifiedOwner
<1>4. StopIsFinal
  BY DEF StopIsFinal, SignalledIsSafety, FinalOf
<1> QED BY <1>1, <1>2, <1>3, <1>4 DEF LaunchIsSound

(* However launches, kills, stops and reused PIDs interleave: one supervisor   *)
(* at a time has the group; a PID file that verifies names its writer; nothing *)
(* starts beside the legacy system; an obeyed stop is final (ProcessLock,      *)
(* supervised_launch.run, legacy_system_status).                               *)
THEOREM LaunchIsSoundHolds == LaunchSpec => []LaunchIsSound
<1> QED BY LaunchInvHolds, LaunchInvIsSound, PTL

LEMMA LaunchInvSchema == LaunchInv => SchemaIsWhole
<1> SUFFICES ASSUME LaunchInv PROVE SchemaIsWhole
  OBVIOUS
<1>1. \A p \in Pids : Runs(p) => recorded
  BY DEF Runs, LaunchInv, SchemaInv, Migration, ScriptOf, AtLock
<1> QED BY <1>1 DEF LaunchInv, SchemaInv, RecordedIsWhole, SchemaIsWhole

(* A group trades on a whole schema only, wherever an earlier launch was       *)
(* killed in the middle of its migration, and a version that is recorded is    *)
(* whole (MigrationRunner).                                                    *)
THEOREM SchemaIsWholeHolds == LaunchSpec => []SchemaIsWhole
<1> QED BY LaunchInvHolds, LaunchInvSchema, PTL

\* What the action property says of a step.
RefusedByTheLiving ==
  \A p \in Pids : phase[p] = "contend" /\ phase'[p] = "out" /\ life'[p] # "dead" =>
    \E q \in Pids \ {p} : holder = q /\ life[q] = "launcher"

\* Only its own refusal takes a contender out of acquire alive.
LEMMA ContenderIsRefused ==
  ASSUME LaunchInv, NEW p \in Pids, Moves(p), phase[p] = "contend", phase'[p] = "out",
         life'[p] # "dead"
  PROVE  Refused(p)
<1> USE DEF LaunchInv, LockType, Phases
<1>1. stage[p] = "acquire"
  BY DEF LockInv, StageAndPhase, StageAndPhaseOf, AtLock
<1>2. ~Starts(p) /\ ~Gone(p)
  BY DEF Starts, StartWrapped, StartDirect, StartStranger, Begin, Gone, End
<1>3. ~(Gates(p) \/ Migrates(p) \/ Prepares(p) \/ Trades(p) \/ Repeats(p) \/ Obeys(p) \/ FreesLock(p))
  BY <1>1 DEF Gates, PreflightOk, Gated, LooksForLegacy, Returns, Migrates, MigrationLock,
         MigrationTimeout,
       ScriptStep, ScriptDone, MigrationUnlock, Goes, Prepares, Backup, Retain, Authenticate, Trades,
       SpawnsAndRuns, Leaves, Repeats, RecordsAttempt, Retries, Obeys, FreesLock
<1>4. TakesLock(p)
  BY <1>2, <1>3 DEF Moves
<1> QED BY <1>4 DEF TakesLock, Acquire, Sweep, Win, WritePid, At

LEMMA RefusalStep == LaunchInv /\ [LaunchNext]_launchVars => RefusedByTheLiving
<1> SUFFICES ASSUME LaunchInv, [LaunchNext]_launchVars, NEW p \in Pids,
                    phase[p] = "contend", phase'[p] = "out", life'[p] # "dead"
             PROVE  \E q \in Pids \ {p} : holder = q /\ life[q] = "launcher"
  BY DEF RefusedByTheLiving
<1>1. PICK r \in Pids : Moves(r)
  BY StepOfOne DEF LaunchInv, launchVars, lockVars
<1>2. r = p
  BY <1>1, OthersStay DEF LaunchInv
<1>3. Refused(p)
  BY <1>1, <1>2, ContenderIsRefused
<1>4. holder \in Pids /\ phase[holder] \in {"won", "held"}
  BY <1>3 DEF Refused, Free, LaunchInv, LockInv, LockType, FlockIsHeld, FlockOf
<1>5. holder # p /\ life[holder] = "launcher"
  BY <1>4 DEF LaunchInv, LockInv, StageAndPhase, StageAndPhaseOf, AtLock
<1> QED BY <1>4, <1>5

(* Whoever is refused the group's lock is refused by a living launcher that    *)
(* has it, never by what a dead one left behind (ProcessLock.acquire).         *)
THEOREM RefusedOnlyByTheLivingHolds == LaunchSpec => RefusedOnlyByTheLiving
<1>1. LaunchInv /\ [LaunchNext]_launchVars => [RefusedByTheLiving]_launchVars
  BY RefusalStep
<1> QED BY <1>1, LaunchInvHolds, PTL
     DEF LaunchSpec, RefusedOnlyByTheLiving, RefusedByTheLiving

-----------------------------------------------------------------------------
(* Admission: what it promises of any strategies, tokens, starts and days,  *)
(* and the wiring that keeps engine strategies from running.                *)

\* Files have an order; a start selects among them.
AdmissionParameters ==
  /\ Days \subseteq Nat /\ 0 \in Days
  /\ Live \subseteq Strategies
  /\ Rank \in [Strategies -> Nat]
  /\ \A s, t \in Strategies : Rank[s] = Rank[t] => s = t
  /\ \A S \in Selections : S \subseteq Strategies

AdmissionType ==
  /\ today \in Days
  /\ \A w \in spawned : w.who \in Strategies /\ w.date \in Days
  /\ state \in [Strategies -> {"none", "fixture", "engine", "refused", "crashed", "ended"}]
  /\ date \in [Strategies -> Days]
  /\ placed \in [Strategies -> [Days -> Nat]]

\* No live strategy gets as far as a process.
NoLiveProcess == \A w \in spawned : w.who \notin Live

\* What an order changes, whoever places it.
LEMMA OrderEffect ==
  ASSUME AdmissionParameters, AdmissionType, NEW s \in Strategies, PlaceOrder(s)
  PROVE  /\ Alive(s) /\ UNCHANGED <<today, group, spawned, mine, date>>
         /\ \/ /\ Taken(s, NextSequenceNumber(s)) /\ placed' = placed
               /\ state' = [state EXCEPT ![s] = "crashed"]
            \/ /\ ~Taken(s, NextSequenceNumber(s)) /\ state' = state
               /\ placed' = [placed EXCEPT ![s] =
                               [placed[s] EXCEPT ![date[s]] = placed[s][date[s]] + 1]]
BY DEF PlaceOrder, NextSequenceNumber, AdmissionType

LEMMA AdmissionTypeStep ==
  ASSUME AdmissionParameters, AdmissionType, [AdmissionNext]_admissionVars
  PROVE  AdmissionType'
<1>1. ASSUME NEW S \in Selections, StartGroup(S) PROVE AdmissionType'
  <2>1. S \subseteq Strategies
    BY DEF AdmissionParameters
  <2>2. \A s \in Admitted(S) : s \in Strategies
    BY <2>1 DEF Admitted
  <2> QED BY <1>1, <2>2 DEF StartGroup, AdmissionType
<1>2. ASSUME NEW w \in spawned, StartWorker(w) PROVE AdmissionType'
  BY <1>2 DEF StartWorker, AdmissionType
<1>3. ASSUME NEW w \in spawned, LoseWorker(w) PROVE AdmissionType'
  BY <1>3 DEF LoseWorker, AdmissionType
<1>4. ASSUME NEW s \in Strategies, PlaceOrder(s) PROVE AdmissionType'
  <2>1. date[s] \in Days /\ placed[s] \in [Days -> Nat]
    BY DEF AdmissionType
  <2>2. placed[s][date[s]] + 1 \in Nat
    BY <2>1
  <2>3. [placed[s] EXCEPT ![date[s]] = placed[s][date[s]] + 1] \in [Days -> Nat]
    BY <2>1, <2>2
  <2>4. placed' \in [Strategies -> [Days -> Nat]]
    BY <1>4, <2>3, OrderEffect DEF AdmissionType
  <2> QED BY <1>4, <2>4, OrderEffect DEF AdmissionType
<1>5. ASSUME NEW s \in Strategies, EndWorker(s) PROVE AdmissionType'
  BY <1>5 DEF EndWorker, AdmissionType
<1>6. CASE EndGroup \/ KillGroup
  BY <1>6 DEF EndGroup, KillGroup, AdmissionType
<1>7. CASE Midnight
  BY <1>7 DEF Midnight, AdmissionType
<1>8. CASE UNCHANGED admissionVars
  BY <1>8 DEF admissionVars, AdmissionType
<1> QED BY <1>1, <1>2, <1>3, <1>4, <1>5, <1>6, <1>7, <1>8 DEF AdmissionNext

LEMMA LiveStep ==
  ASSUME AdmissionParameters, AdmissionType, NoLiveProcess, LiveNeverTrades,
         [AdmissionNext]_admissionVars
  PROVE  NoLiveProcess' /\ LiveNeverTrades'
<1>0. \A s \in Live : s \in Strategies /\ ~Alive(s)
  BY DEF AdmissionParameters, LiveNeverTrades, Alive
<1>1. ASSUME NEW S \in Selections, StartGroup(S) PROVE NoLiveProcess' /\ LiveNeverTrades'
  <2>1. \A s \in Admitted(S) : s \notin Live
    BY DEF Admitted
  <2>2. NoLiveProcess'
    BY <1>1, <2>1 DEF StartGroup, NoLiveProcess
  <2>3. LiveNeverTrades'
    BY <1>1 DEF StartGroup, LiveNeverTrades
  <2> QED BY <2>2, <2>3
<1>2. ASSUME NEW w \in spawned, StartWorker(w) PROVE NoLiveProcess' /\ LiveNeverTrades'
  <2>1. w.who \notin Live /\ w.who \in Strategies
    BY DEF NoLiveProcess, AdmissionType
  <2>2. \A s \in Live : state'[s] = state[s]
    BY <1>0, <1>2, <2>1 DEF StartWorker, AdmissionType
  <2>3. placed' = placed /\ spawned' \subseteq spawned
    BY <1>2 DEF StartWorker
  <2> QED BY <2>2, <2>3 DEF NoLiveProcess, LiveNeverTrades
<1>3. ASSUME NEW w \in spawned, LoseWorker(w) PROVE NoLiveProcess' /\ LiveNeverTrades'
  BY <1>3 DEF LoseWorker, NoLiveProcess, LiveNeverTrades
<1>4. ASSUME NEW s \in Strategies, PlaceOrder(s) PROVE NoLiveProcess' /\ LiveNeverTrades'
  <2>1. Alive(s) /\ s \notin Live
    BY <1>0, <1>4, OrderEffect
  <2>2. \A t \in Live : state'[t] = state[t] /\ placed'[t] = placed[t]
    BY <1>0, <1>4, <2>1, OrderEffect DEF AdmissionType
  <2>3. spawned' = spawned
    BY <1>4, OrderEffect
  <2> QED BY <2>2, <2>3 DEF NoLiveProcess, LiveNeverTrades
<1>5. ASSUME NEW s \in Strategies, EndWorker(s) PROVE NoLiveProcess' /\ LiveNeverTrades'
  <2>1. \A t \in Live : state'[t] = state[t]
    BY <1>0, <1>5 DEF EndWorker, AdmissionType
  <2>2. UNCHANGED <<placed, spawned>>
    BY <1>5 DEF EndWorker
  <2> QED BY <2>1, <2>2 DEF NoLiveProcess, LiveNeverTrades
<1>6. CASE EndGroup \/ KillGroup \/ Midnight \/ UNCHANGED admissionVars
  BY <1>6 DEF EndGroup, KillGroup, Midnight, admissionVars, NoLiveProcess, LiveNeverTrades
<1> QED BY <1>1, <1>2, <1>3, <1>4, <1>5, <1>6 DEF AdmissionNext

LEMMA AdmissionInitHolds ==
  ASSUME AdmissionParameters
  PROVE  AdmissionInit => AdmissionType /\ NoLiveProcess /\ LiveNeverTrades
<1> SUFFICES ASSUME AdmissionInit PROVE AdmissionType /\ NoLiveProcess /\ LiveNeverTrades
  OBVIOUS
<1>1. 0 \in Days /\ 0 \in Nat /\ Live \subseteq Strategies
  BY DEF AdmissionParameters
<1>2. [d \in Days |-> 0] \in [Days -> Nat]
  BY <1>1
<1>3. AdmissionType
  BY <1>1, <1>2 DEF AdmissionInit, AdmissionType
<1>4. NoLiveProcess /\ LiveNeverTrades
  BY <1>1 DEF AdmissionInit, NoLiveProcess, LiveNeverTrades
<1> QED BY <1>3, <1>4

(* A strategy that is configured for live execution never gets a worker and   *)
(* never writes an order, on paper either, whatever is started and killed     *)
(* (add_worker, _live_admission_refusal).                                     *)
THEOREM LiveNeverTradesHolds == ASSUME AdmissionParameters PROVE AdmissionSpec => []LiveNeverTrades
<1>1. AdmissionInit => AdmissionType /\ NoLiveProcess /\ LiveNeverTrades
  BY AdmissionInitHolds
<1>2. AdmissionType /\ NoLiveProcess /\ LiveNeverTrades /\ [AdmissionNext]_admissionVars
        => AdmissionType' /\ NoLiveProcess' /\ LiveNeverTrades'
  BY AdmissionTypeStep, LiveStep
<1> QED BY <1>1, <1>2, PTL DEF AdmissionSpec

-----------------------------------------------------------------------------
(* Correlation ids.                                                          *)

LEMMA TrailStep ==
  ASSUME AdmissionParameters, AdmissionType, TrailsAreSeparate,
         [AdmissionNext]_admissionVars
  PROVE  TrailsAreSeparate'
<1>1. ASSUME NEW o \in Strategies, PlaceOrder(o), placed' # placed PROVE TrailsAreSeparate'
  <2> SUFFICES ASSUME NEW s \in Strategies, NEW t \in Strategies, s # t, Token[s] = Token[t],
                      NEW d \in Days
               PROVE  placed'[s][d] = 0 \/ placed'[t][d] = 0
    BY DEF TrailsAreSeparate
  <2> DEFINE n == placed[o][date[o]]
  <2>1. date[o] \in Days /\ \A u \in Strategies, e \in Days : placed[u][e] \in Nat
    BY DEF AdmissionType
  <2>2. \A u \in Strategies : Token[u] = Token[o] => ~(n + 1 <= placed[u][date[o]])
    BY <1>1, OrderEffect DEF Taken, NextSequenceNumber
  <2>3. \A u \in Strategies, e \in Days :
          placed'[u][e] = IF u = o /\ e = date[o] THEN n + 1 ELSE placed[u][e]
    BY <1>1, OrderEffect DEF AdmissionType
  <2>4. placed[s][d] = 0 \/ placed[t][d] = 0
    BY DEF TrailsAreSeparate
  <2>5. ASSUME NEW u \in Strategies, u # o, Token[u] = Token[o],
               placed[o][date[o]] = 0 \/ placed[u][date[o]] = 0
        PROVE  placed[u][date[o]] = 0
    <3>1. ~(n + 1 <= placed[u][date[o]])
      BY <2>2, <2>5
    <3> QED BY <2>1, <2>5, <3>1
  <2>6. CASE d # date[o] \/ (s # o /\ t # o)
    BY <2>3, <2>4, <2>6
  <2>7. CASE d = date[o] /\ s = o
    BY <2>3, <2>4, <2>5, <2>7
  <2>8. CASE d = date[o] /\ t = o
    BY <2>3, <2>4, <2>5, <2>8
  <2> QED BY <2>6, <2>7, <2>8
<1>2. CASE placed' = placed
  BY <1>2 DEF TrailsAreSeparate
<1>3. placed' # placed => \E o \in Strategies : PlaceOrder(o)
  BY DEF AdmissionNext, StartGroup, StartWorker, LoseWorker, EndWorker, EndGroup, KillGroup,
         Midnight, admissionVars
<1> QED BY <1>1, <1>2, <1>3

(* Whatever is started, killed and started again, two strategies that would   *)
(* write the same correlation ids never both have a row on one day, so that   *)
(* an id leads to one strategy (the UNIQUE constraint and                     *)
(* next_sequence_number).                                                     *)
THEOREM TrailsAreSeparateHolds == ASSUME AdmissionParameters PROVE AdmissionSpec => []TrailsAreSeparate
<1>1. AdmissionInit => AdmissionType /\ TrailsAreSeparate
  <2>1. AdmissionInit => TrailsAreSeparate
    BY DEF AdmissionInit, TrailsAreSeparate
  <2> QED BY <2>1, AdmissionInitHolds
<1>2. AdmissionType /\ TrailsAreSeparate /\ [AdmissionNext]_admissionVars => AdmissionType' /\ TrailsAreSeparate'
  BY AdmissionTypeStep, TrailStep
<1> QED BY <1>1, <1>2, PTL DEF AdmissionSpec

-----------------------------------------------------------------------------
(* A group that is always started whole.                                     *)

Owners == Admitted(Strategies)

\* Of all that have a token in common, one owns it.
LEMMA OwnersDiffer ==
  ASSUME AdmissionParameters, NEW s \in Owners, NEW t \in Owners, Token[s] = Token[t]
  PROVE  s = t
<1>1. s \in Strategies \ Live /\ t \in Strategies \ Live
  BY DEF Owners, Admitted
<1>2. Rank[s] <= Rank[t] /\ Rank[t] <= Rank[s]
  BY <1>1 DEF Owners, Admitted
<1>3. Rank[s] \in Nat /\ Rank[t] \in Nat
  BY <1>1 DEF AdmissionParameters
<1>4. Rank[s] = Rank[t]
  BY <1>2, <1>3
<1> QED BY <1>1, <1>4 DEF AdmissionParameters

OwnersOnly ==
  /\ \A w \in spawned : w.who \in Owners
  /\ \A s \in Strategies : Alive(s) => s \in Owners
  /\ \A s \in Strategies, d \in Days : placed[s][d] # 0 => s \in Owners

\* An owner's number is free.
LEMMA NeverTaken ==
  ASSUME AdmissionParameters, AdmissionType, OwnersOnly, NEW s \in Strategies, Alive(s)
  PROVE  ~Taken(s, NextSequenceNumber(s))
<1> SUFFICES ASSUME NEW t \in Strategies, Token[t] = Token[s],
                    placed[s][date[s]] + 1 <= placed[t][date[s]]
             PROVE  FALSE
  BY DEF Taken, NextSequenceNumber
<1>1. date[s] \in Days /\ placed[s][date[s]] \in Nat /\ placed[t][date[s]] \in Nat
  BY DEF AdmissionType
<1>2. placed[t][date[s]] # 0
  BY <1>1
<1>3. s \in Owners /\ t \in Owners
  BY <1>1, <1>2 DEF OwnersOnly
<1>4. s = t
  BY <1>3, OwnersDiffer
<1> QED BY <1>1, <1>4

LEMMA WholeStartStep ==
  ASSUME AdmissionParameters, Selections = {Strategies},
         AdmissionType, OwnersOnly, NoCollisionCrash, [AdmissionNext]_admissionVars
  PROVE  OwnersOnly' /\ NoCollisionCrash'
<1> DEFINE Goal == OwnersOnly' /\ NoCollisionCrash'
<1>1. ASSUME NEW S \in Selections, StartGroup(S) PROVE Goal
  <2>1. S = Strategies
    OBVIOUS
  <2>2. \A w \in spawned' : w.who \in Owners
    BY <1>1, <2>1 DEF StartGroup, OwnersOnly, Owners
  <2> QED BY <1>1, <2>2 DEF StartGroup, OwnersOnly, NoCollisionCrash, Alive
<1>2. ASSUME NEW w \in spawned, StartWorker(w) PROVE Goal
  <2>1. w.who \in Owners /\ w.who \in Strategies
    BY DEF OwnersOnly, AdmissionType
  <2>2. \A s \in Strategies : state'[s] = state[s] \/ (s = w.who /\ state'[s] # "crashed")
    BY <1>2, <2>1 DEF StartWorker, AdmissionType
  <2>3. placed' = placed /\ spawned' \subseteq spawned
    BY <1>2 DEF StartWorker
  <2> QED BY <2>1, <2>2, <2>3 DEF OwnersOnly, NoCollisionCrash, Alive
<1>3. ASSUME NEW w \in spawned, LoseWorker(w) PROVE Goal
  BY <1>3 DEF LoseWorker, OwnersOnly, NoCollisionCrash, Alive
<1>4. ASSUME NEW s \in Strategies, PlaceOrder(s) PROVE Goal
  <2>1. Alive(s) /\ s \in Owners /\ spawned' = spawned
    BY <1>4, OrderEffect DEF OwnersOnly
  <2>2. state' = state
    BY <1>4, <2>1, NeverTaken, OrderEffect
  <2>3. \A t \in Strategies : t # s => placed'[t] = placed[t]
    BY <1>4, OrderEffect DEF AdmissionType
  <2> QED BY <2>1, <2>2, <2>3 DEF OwnersOnly, NoCollisionCrash, Alive
<1>5. ASSUME NEW s \in Strategies, EndWorker(s) PROVE Goal
  <2>1. \A t \in Strategies : state'[t] = state[t] \/ state'[t] = "ended"
    BY <1>5 DEF EndWorker, AdmissionType
  <2>2. UNCHANGED <<placed, spawned>>
    BY <1>5 DEF EndWorker
  <2> QED BY <2>1, <2>2 DEF OwnersOnly, NoCollisionCrash, Alive
<1>6. CASE EndGroup \/ KillGroup \/ Midnight \/ UNCHANGED admissionVars
  BY <1>6
     DEF EndGroup, KillGroup, Midnight, admissionVars, OwnersOnly, NoCollisionCrash, Alive
<1> QED BY <1>1, <1>2, <1>3, <1>4, <1>5, <1>6 DEF AdmissionNext

(* As long as the group is always started whole, no order of one strategy     *)
(* meets the correlation id of another, over crashes of the supervisor,       *)
(* orphaned workers and midnights; one start of a single strategy is enough   *)
(* to lose this (add_worker, strategy_token).                                 *)
THEOREM WholeStartsNeverCollide ==
  ASSUME AdmissionParameters, Selections = {Strategies}
  PROVE  AdmissionSpec => []NoCollisionCrash
<1>1. AdmissionInit => AdmissionType /\ OwnersOnly /\ NoCollisionCrash
  <2>1. AdmissionInit => OwnersOnly /\ NoCollisionCrash
    BY DEF AdmissionInit, OwnersOnly, NoCollisionCrash, Alive
  <2> QED BY <2>1, AdmissionInitHolds
<1>2. AdmissionType /\ OwnersOnly /\ NoCollisionCrash /\ [AdmissionNext]_admissionVars
        => AdmissionType' /\ OwnersOnly' /\ NoCollisionCrash'
  BY AdmissionTypeStep, WholeStartStep
<1> QED BY <1>1, <1>2, PTL DEF AdmissionSpec

-----------------------------------------------------------------------------
(* The feed and the supervisor.  The feed thread alone changes what is      *)
(* subscribed, carried and routed, and its failures; the main thread alone  *)
(* changes what is said of the run.                                         *)

\* The feed: a budget not yet spent while the thread lives.
FeedInv ==
  /\ failures \in 0 .. MaxAttempts
  /\ at # "failed" => failures < MaxAttempts
  /\ ~degraded => failures = 0

SegmentType == segmentOf \in [Contracts -> Segments \cup {NoSegment}]

QueueInv ==
  /\ pending \in Seq(Requests)
  /\ forwarding \in Requests \cup {NoRequest}
  /\ control \in [Workers -> Seq(Requests)]

\* What is routed was subscribed, if only in the adapter's own books; an open
\* socket carries it.
RoutedInv ==
  /\ routed \in [Workers -> SUBSET Contracts]
  /\ \A w \in Workers : \A c \in routed[w] : segmentOf[c] # NoSegment
  /\ SocketOpen => \A w \in Workers : \A c \in routed[w] : <<c, segmentOf[c]>> \in carried

\* What may be said of the run at each point of the shutdown.
HealthInv ==
  /\ main \in {"sentinels", "reaping", "returned"} =>
       /\ ~clean => health = "DEGRADED"
       /\ clean => at = "ended"
  /\ main \notin {"sentinels", "reaping", "returned"} => clean
  /\ health = "STOPPED" => main = "returned" /\ clean

Inv == FeedInv /\ SegmentType /\ QueueInv /\ RoutedInv /\ HealthInv

-----------------------------------------------------------------------------
(* Frames.                                                                 *)

\* Whoever is not the feed thread leaves the connection and the subscriptions
\* alone; the main thread starts it.
LEMMA OnlyTheFeed ==
  [Next]_vars =>
    \/ FeedThread
    \/ /\ UNCHANGED <<failures, degraded, segmentOf, routed, carried>>
       /\ at' = at \/ (at = "new" /\ at' = "drain0")
<1> SUFFICES ASSUME [Next]_vars, ~FeedThread
             PROVE  /\ UNCHANGED <<failures, degraded, segmentOf, routed, carried>>
                    /\ at' = at \/ (at = "new" /\ at' = "drain0")
  OBVIOUS
<1> USE DEF feedVars, feedThread, subscriptions, SetStop, ClearRunning
<1>1. CASE StartFeed
  BY <1>1 DEF StartFeed, HubStart
<1>2. ASSUME NEW w \in Workers, TakeRequest(w) \/ Reap(w)
      PROVE /\ UNCHANGED <<failures, degraded, segmentOf, routed, carried>>
            /\ at' = at
  BY <1>2 DEF TakeRequest, Reap
<1>3. CASE ForwardRequest \/ CheckStuckSubscription \/ BeatRunning \/ Wake
  BY <1>3 DEF ForwardRequest, CheckStuckSubscription, BeatRunning, Wake
<1>4. CASE LastDrain \/ RequestStop \/ ClearTheFlag \/ FeedJoined
  BY <1>4 DEF LastDrain, RequestStop, ClearTheFlag, FeedJoined
<1>5. CASE GraceExpires \/ SendSentinels \/ Return \/ Raise
  BY <1>5 DEF GraceExpires, SendSentinels, Return, Raise
<1>6. CASE Clock \/ Signal \/ UNCHANGED vars
  BY <1>6 DEF Clock, ClockAges, Signal, vars
<1>7. CASE Worker
  BY <1>7 DEF Worker, Ask, Exit
<1> QED  BY <1>1, <1>2, <1>3, <1>4, <1>5, <1>6, <1>7 DEF Next, Main, Shutdown

-----------------------------------------------------------------------------
(* The feed thread.                                                        *)

\* The budget: a failure spends of it and says so; only data gives it back.
LEMMA FeedInvStep == FeedInv /\ [Next]_vars => FeedInv'
<1> SUFFICES ASSUME FeedInv, [Next]_vars PROVE FeedInv'
  OBVIOUS
<1> USE FeedAssumption DEF FeedInv, feedThread, Ended, Close
<1>1. ASSUME Failed, at # "failed" PROVE FeedInv'
  BY <1>1 DEF Failed
<1>2. CASE FeedThread
  <2>1. CASE TryConnect
    BY <2>1 DEF TryConnect
  <2>2. CASE ConnectionLost
    BY <2>2, <1>1 DEF ConnectionLost
  <2>3. CASE Connect \/ Reconnect \/ QuietFrame
    BY <2>3 DEF Connect, Reconnect, QuietFrame
  <2>4. CASE Tick
    BY <2>4 DEF Tick, Restored
  <2>5. CASE Apply
    <3>1. ASSUME Raised PROVE FeedInv'
      BY <3>1, <1>1, <2>5 DEF Raised, Apply, Draining
    <3> QED  BY <2>5, <3>1 DEF Apply, Subscribe
  <2>6. CASE Drained
    BY <2>6 DEF Drained, Draining
  <2> QED  BY <1>2, <2>1, <2>2, <2>3, <2>4, <2>5, <2>6 DEF FeedThread, FeedStep, HubStart
<1>3. CASE ~FeedThread
  BY <1>3, OnlyTheFeed
<1> QED  BY <1>2, <1>3

\* The queues carry requests.
LEMMA QueueStep == QueueInv /\ [Next]_vars => QueueInv'
<1> SUFFICES ASSUME QueueInv, [Next]_vars PROVE QueueInv'
  OBVIOUS
<1> USE DEF QueueInv, feedVars, feedThread, subscriptions
<1>1. CASE FeedThread
  <2>1. pending' = pending \/ (pending # <<>> /\ pending' = Tail(pending))
    BY <1>1
       DEF FeedThread, FeedStep, HubStart, TryConnect, Connect, ConnectionLost, Reconnect,
                QuietFrame, Tick, Apply, Drained
  <2>2. UNCHANGED <<forwarding, control>>
    BY <1>1 DEF FeedThread, mainState, workerState
  <2> QED  BY <2>1, <2>2
<1>2. ASSUME NEW w \in Workers, TakeRequest(w) PROVE QueueInv'
  BY <1>2 DEF TakeRequest
<1>3. CASE ForwardRequest
  BY <1>3 DEF ForwardRequest, Enqueue, workerState
<1>4. CASE StartFeed \/ CheckStuckSubscription \/ BeatRunning \/ Wake
  BY <1>4 DEF StartFeed, HubStart, CheckStuckSubscription, BeatRunning, Wake, workerState
<1>5. CASE LastDrain \/ RequestStop \/ ClearTheFlag \/ FeedJoined
  BY <1>5 DEF LastDrain, RequestStop, ClearTheFlag, FeedJoined, Move, workerState
<1>6. CASE GraceExpires \/ SendSentinels \/ Return \/ Raise
  BY <1>6 DEF GraceExpires, SendSentinels, Return, Raise, Move, workerState
<1>7. CASE \E w \in Workers : Reap(w)
  BY <1>7 DEF Reap
<1>8. CASE Clock \/ Signal \/ UNCHANGED vars
  BY <1>8 DEF Clock, ClockAges, Signal, vars, mainState, workerState
<1>9. ASSUME NEW w \in Workers, NEW c \in Contracts, NEW s \in Segments, Ask(w, c, s)
      PROVE QueueInv'
  <2>1. [worker |-> w, contract |-> c, segment |-> s] \in Requests
    BY DEF Requests
  <2> QED  BY <1>9, <2>1 DEF Ask, mainState
<1>10. CASE \E w \in Workers, how \in Exits : Exit(w, how)
  BY <1>10 DEF Exit, mainState
<1> QED  BY <1>1, <1>2, <1>3, <1>4, <1>5, <1>6, <1>7, <1>8, <1>9, <1>10
         DEF Next, Main, Shutdown, Worker

\* The head of the queue is a request.
LEMMA HeadIsRequest ==
  QueueInv /\ pending # <<>> =>
    Head(pending).worker \in Workers /\ Head(pending).contract \in Contracts
    /\ Head(pending).segment \in Segments
<1>1. QueueInv /\ pending # <<>> => Head(pending) \in Requests
  BY DEF QueueInv
<1> QED  BY <1>1 DEF Requests

\* Only Apply changes what is subscribed, and only from nothing.
LEMMA SegmentStep ==
  SegmentType /\ QueueInv /\ [Next]_vars =>
    /\ SegmentType'
    /\ \A c \in Contracts : segmentOf[c] # NoSegment => segmentOf'[c] = segmentOf[c]
<1> SUFFICES ASSUME SegmentType, QueueInv, [Next]_vars
             PROVE  /\ SegmentType'
                    /\ \A c \in Contracts : segmentOf[c] # NoSegment => segmentOf'[c] = segmentOf[c]
  OBVIOUS
<1> USE DEF SegmentType
<1>1. CASE Apply
  BY <1>1, HeadIsRequest DEF Apply, Subscribe, Conflicts
<1>2. CASE FeedThread /\ ~Apply
  BY <1>2
     DEF FeedThread, FeedStep, HubStart, TryConnect, Connect, ConnectionLost, Reconnect,
              QuietFrame, Tick, Drained, subscriptions
<1>3. CASE ~FeedThread
  BY <1>3, OnlyTheFeed
<1> QED  BY <1>1, <1>2, <1>3

\* A socket that was opened on all subscriptions and told of every new one.
LEMMA RoutedStep ==
  RoutedInv /\ SegmentType /\ QueueInv /\ [Next]_vars => RoutedInv'
<1> SUFFICES ASSUME RoutedInv, SegmentType, QueueInv, [Next]_vars PROVE RoutedInv'
  OBVIOUS
<1> USE FeedAssumption DEF RoutedInv, SegmentType, SocketOpen, subscriptions, feedThread
<1>1. CASE FeedThread
  <2>1. CASE TryConnect \/ ConnectionLost \/ Reconnect \/ QuietFrame
    BY <2>1 DEF TryConnect, ConnectionLost, Reconnect, QuietFrame, Ended, Failed, Close
  <2>2. CASE Connect
    BY <2>2 DEF Connect, CarriedByNewSocket, Subscribed
  <2>3. CASE Tick
    BY <2>3 DEF Tick
  <2>4. CASE Apply
    <3> DEFINE r == Head(pending)
    <3>1. r.worker \in Workers /\ r.contract \in Contracts /\ r.segment \in Segments
      BY <2>4, HeadIsRequest DEF Apply
    <3> HIDE DEF r
    <3>2. CASE r.contract \in routed[r.worker]
      BY <2>4, <3>2 DEF Apply, r
    <3>3. CASE r.contract \notin routed[r.worker]
      <4>1. routed' = [routed EXCEPT ![r.worker] = @ \cup {r.contract}] /\ Subscribe(r.contract, r.segment)
        BY <2>4, <3>3 DEF Apply, r
      <4>2. Raised => ~SocketOpen'
        BY <2>4 DEF Raised, Failed, Ended, Apply, Draining
      <4>3. ~SocketOpen /\ at' = at => ~SocketOpen'
        OBVIOUS
      <4>4. segmentOf'[r.contract] # NoSegment
            /\ \A c \in Contracts \ {r.contract} : segmentOf'[c] = segmentOf[c]
            /\ segmentOf' \in [Contracts -> Segments \cup {NoSegment}]
        BY <3>1, <4>1 DEF Subscribe, Conflicts
      <4>5. SocketOpen' => <<r.contract, segmentOf'[r.contract]>> \in carried'
                            /\ carried \subseteq carried' /\ SocketOpen
                            /\ (segmentOf[r.contract] # NoSegment
                                  => segmentOf'[r.contract] = segmentOf[r.contract])
        BY <3>1, <4>1, <4>2, <4>3 DEF Subscribe, Conflicts
      <4> QED  BY <3>1, <4>1, <4>4, <4>5
    <3> QED  BY <3>2, <3>3
  <2>5. CASE Drained
    BY <2>5 DEF Drained, Draining, Ended, Close
  <2> QED  BY <1>1, <2>1, <2>2, <2>3, <2>4, <2>5 DEF FeedThread, FeedStep, HubStart
<1>2. CASE ~FeedThread
  BY <1>2, OnlyTheFeed
<1> QED  BY <1>1, <1>2

-----------------------------------------------------------------------------
(* The main thread.                                                        *)

\* A dead feed thread stays dead.
LEMMA EndedStays == at = "ended" /\ [Next]_vars => at' = "ended"
<1>1. at = "ended" => ~FeedThread
  BY DEF FeedThread, FeedStep, HubStart, TryConnect, Connect, ConnectionLost, Reconnect,
         QuietFrame, Tick, Apply, Drained, Draining
<1> QED  BY <1>1, OnlyTheFeed

\* The shutdown writes STOPPED last, and only of a feed it saw end.
LEMMA HealthStep == HealthInv /\ [Next]_vars => HealthInv'
<1> SUFFICES ASSUME HealthInv, [Next]_vars PROVE HealthInv'
  OBVIOUS
<1> USE EndedStays DEF HealthInv, mainState, Move
<1>1. CASE FeedThread \/ Clock \/ Worker
  <2>1. UNCHANGED <<main, health, clean>>
    BY <1>1 DEF FeedThread, Clock, Worker, Ask, Exit
  <2>2. at = "ended" => at' = "ended"
    BY EndedStays
  <2> QED  BY <2>1, <2>2
<1>2. CASE \E w \in Workers : TakeRequest(w) \/ Reap(w)
  BY <1>2 DEF TakeRequest, Reap
<1>3. CASE StartFeed \/ ForwardRequest \/ CheckStuckSubscription \/ BeatRunning \/ Wake
  BY <1>3 DEF StartFeed, ForwardRequest, CheckStuckSubscription, BeatRunning, Wake
<1>4. CASE LastDrain \/ RequestStop \/ ClearTheFlag
  BY <1>4 DEF LastDrain, RequestStop, ClearTheFlag
<1>5. CASE FeedJoined
  BY <1>5 DEF FeedJoined, Over, feedThread
<1>6. CASE GraceExpires \/ SendSentinels
  BY <1>6 DEF GraceExpires, SendSentinels
<1>7. CASE Return \/ Raise
  BY <1>7 DEF Return, Raise, FinalHealth
<1>8. CASE Signal \/ UNCHANGED vars
  BY <1>8 DEF Signal, vars
<1> QED  BY <1>1, <1>2, <1>3, <1>4, <1>5, <1>6, <1>7, <1>8 DEF Next, Main, Shutdown

-----------------------------------------------------------------------------
(* Types.                                                                  *)

FlagType ==
  /\ at \in {"new", "drain0", "loop", "connect", "pump", "tick", "backoff", "ended", "failed"}
  /\ stopping \in BOOLEAN /\ running \in BOOLEAN /\ degraded \in BOOLEAN
  /\ pendingSince \in {"none", "fresh", "old"}
  /\ health \in {"STARTING", "RUNNING", "DEGRADED", "STOPPED"}

CarriedType == carried \subseteq Contracts \X Segments

ProcessType == process \in [Workers -> Exits \cup {"running"}]

\* Each flag keeps its values.
LEMMA FlagStep == FlagType /\ [Next]_vars => FlagType'
<1> SUFFICES ASSUME FlagType, [Next]_vars PROVE FlagType'
  OBVIOUS
<1> USE DEF FlagType, mainState, feedVars, feedThread, subscriptions, Ended, Failed, Close
<1>1. CASE FeedThread /\ ~Apply
  BY <1>1
     DEF FeedThread, FeedStep, HubStart, TryConnect, Connect, ConnectionLost, Reconnect,
              QuietFrame, Tick, Drained
<1>2. CASE FeedThread /\ Apply
  BY <1>2 DEF FeedThread, Apply, Subscribe, Raised
<1>3. CASE StartFeed \/ ForwardRequest \/ CheckStuckSubscription \/ BeatRunning \/ Wake
  BY <1>3 DEF StartFeed, HubStart, ForwardRequest, CheckStuckSubscription, BeatRunning, Wake
<1>4. CASE \E w \in Workers : TakeRequest(w) \/ Reap(w)
  BY <1>4 DEF TakeRequest, NoteTheTime, Reap
<1>5. CASE LastDrain \/ RequestStop \/ ClearTheFlag \/ FeedJoined
  BY <1>5 DEF LastDrain, RequestStop, ClearTheFlag, FeedJoined, SetStop, ClearRunning
<1>6. CASE GraceExpires \/ SendSentinels \/ Return \/ Raise
  BY <1>6 DEF GraceExpires, SendSentinels, Return, Raise, FinalHealth
<1>7. CASE Worker
  BY <1>7 DEF Worker, Ask, Exit
<1>8. CASE Clock \/ Signal \/ UNCHANGED vars
  BY <1>8 DEF Clock, ClockAges, Signal, vars
<1> QED  BY <1>1, <1>2, <1>3, <1>4, <1>5, <1>6, <1>7, <1>8 DEF Next, Main, Shutdown

\* Only subscriptions are carried.
LEMMA CarriedStep == CarriedType /\ SegmentType /\ QueueInv /\ [Next]_vars => CarriedType'
<1> SUFFICES ASSUME CarriedType, SegmentType, QueueInv, [Next]_vars PROVE CarriedType'
  OBVIOUS
<1> USE DEF CarriedType, SegmentType, feedThread, subscriptions, Ended, Failed, Close
<1>1. CASE FeedThread /\ ~Apply /\ ~Connect
  BY <1>1 DEF FeedThread, FeedStep, HubStart, TryConnect, ConnectionLost, Reconnect,
              QuietFrame, Tick, Drained
<1>2. CASE Connect
  BY <1>2 DEF Connect, CarriedByNewSocket, Subscribed
<1>3. CASE Apply
  BY <1>3, HeadIsRequest DEF Apply, Subscribe, Raised
<1>4. CASE ~FeedThread
  BY <1>4, OnlyTheFeed
<1> QED  BY <1>1, <1>2, <1>3, <1>4

\* A process runs or has exited.
LEMMA ProcessStep == ProcessType /\ [Next]_vars => ProcessType'
<1> SUFFICES ASSUME ProcessType, [Next]_vars PROVE ProcessType'
  OBVIOUS
<1> USE DEF ProcessType, workerState, Exits
<1>1. ASSUME NEW w \in Workers, TakeRequest(w) \/ Reap(w) PROVE ProcessType'
  BY <1>1 DEF TakeRequest, Reap
<1>2. ASSUME NEW w \in Workers, NEW how \in Exits, Exit(w, how) PROVE ProcessType'
  BY <1>2 DEF Exit
<1>3. CASE \E w \in Workers, c \in Contracts, s \in Segments : Ask(w, c, s)
  BY <1>3 DEF Ask
<1>4. CASE StartFeed \/ ForwardRequest \/ CheckStuckSubscription \/ BeatRunning \/ Wake
  BY <1>4 DEF StartFeed, ForwardRequest, CheckStuckSubscription, BeatRunning, Wake
<1>5. CASE LastDrain \/ RequestStop \/ ClearTheFlag \/ FeedJoined \/ GraceExpires
  BY <1>5 DEF LastDrain, RequestStop, ClearTheFlag, FeedJoined, GraceExpires
<1>6. CASE SendSentinels \/ Return \/ Raise
  BY <1>6 DEF SendSentinels, Return, Raise
<1>7. CASE FeedThread \/ Clock \/ Signal \/ UNCHANGED vars
  BY <1>7 DEF FeedThread, Clock, Signal, vars
<1> QED  BY <1>1, <1>2, <1>3, <1>4, <1>5, <1>6, <1>7 DEF Next, Main, Shutdown, Worker

-----------------------------------------------------------------------------

\* It holds at the start.
LEMMA InitInv == Init => Inv /\ FlagType /\ CarriedType /\ ProcessType
<1> SUFFICES ASSUME Init PROVE Inv /\ FlagType /\ CarriedType /\ ProcessType
  OBVIOUS
<1> USE FeedAssumption DEF Init, FeedInit
<1>1. FeedInv /\ HealthInv  BY DEF FeedInv, HealthInv
<1>2. SegmentType  BY DEF SegmentType
<1>3. QueueInv  BY DEF QueueInv
<1>4. RoutedInv  BY DEF RoutedInv, SocketOpen
<1>5. FlagType  BY DEF FlagType
<1>6. CarriedType /\ ProcessType  BY DEF CarriedType, ProcessType
<1> QED  BY <1>1, <1>2, <1>3, <1>4, <1>5, <1>6 DEF Inv

\* Spec => []Inv.
THEOREM Invariance == Spec => []Inv
<1>1. Init => Inv  BY InitInv
<1>2. Inv /\ [Next]_vars => Inv'
  BY FeedInvStep, SegmentStep, QueueStep, RoutedStep, HealthStep DEF Inv
<1> QED  BY <1>1, <1>2, PTL DEF Spec

\* The types.
THEOREM TypeCorrect == Spec => []TypeOK
<1> DEFINE Types == FlagType /\ CarriedType /\ ProcessType
<1>1. Init => Types  BY InitInv
<1>2. Inv /\ Types /\ [Next]_vars => Types'
  BY FlagStep, CarriedStep, ProcessStep DEF Inv
<1>3. Inv /\ Types => TypeOK
  BY DEF Inv, FeedInv, SegmentType, QueueInv, RoutedInv, FlagType, CarriedType, ProcessType,
         TypeOK
<1> HIDE DEF Types
<1> QED  BY <1>1, <1>2, <1>3, Invariance, PTL DEF Spec

\* An open socket carries every contract a worker waits for
\* (resubscribe_all and subscribe), after any number of reconnects.
THEOREM RoutedCarried == Spec => []RoutedIsCarried
<1>1. Inv => RoutedIsCarried  BY DEF Inv, RoutedInv, SocketOpen, RoutedIsCarried
<1> QED  BY <1>1, Invariance, PTL

\* A feed that has delivered has its whole budget (_observe).
THEOREM WholeBudget == Spec => []RecoveredFeedHasItsBudget
<1>1. Inv => RecoveredFeedHasItsBudget  BY DEF Inv, FeedInv, RecoveredFeedHasItsBudget
<1> QED  BY <1>1, Invariance, PTL

\* The last heartbeat is true (_publish_final_health).
THEOREM HealthIsTrue == Spec => []FinalHealthIsTrue
<1>1. Inv => FinalHealthIsTrue  BY DEF Inv, HealthInv, FinalHealthIsTrue
<1> QED  BY <1>1, Invariance, PTL

\* No second request moves a contract to another segment (subscribe).
THEOREM SegmentsAreKept == Spec => SegmentsStay
<1>1. Inv /\ [Next]_vars
        => [\A c \in Contracts : segmentOf[c] # NoSegment => segmentOf'[c] = segmentOf[c]]_vars
  BY SegmentStep DEF Inv
<1> QED  BY <1>1, Invariance, PTL DEF SegmentsStay, Spec

-----------------------------------------------------------------------------
(* The fixture worker: its candles first.                                    *)

Bars == [start : Times, first : Times, gap : BOOLEAN, hole : BOOLEAN]
WholeCandles == [start : Int, end : Int, hole : {FALSE}]
Items == WholeCandles \cup {Sentinel}

ClockType == now \in Times /\ link \in Links /\ opened \in Times /\ silent \in Times
BarType == bar = NoBar \/ (bar \in Bars /\ bar.start = FloorToInterval(bar.first))
ClosedType == closed \subseteq Times
QueueOfWhole == queue \in Seq(Items) /\ Len(queue) <= Depth

\* A bar that lost a tick is marked, and so is every bar while the feed is down.
LossIsMarked == bar # NoBar /\ (bar.hole \/ link = "down") => bar.gap

\* Without an open bar, nothing was published yet or nothing will be.
NothingClosedYet == bar = NoBar => closed = {} \/ link \in {"stopped", "off"}

CandleInv ==
  ClockType /\ BarType /\ ClosedType /\ QueueOfWhole /\ LossIsMarked /\ NothingClosedYet /\ NeverRepublished

\* An interval begins at or before its ticks.
LEMMA FloorIsBelow ==
  ASSUME NEW t \in Times
  PROVE  /\ FloorToInterval(t) \in Times /\ FloorToInterval(t) <= t
BY CandleAssumption DEF FloorToInterval, Times

\* No open bar is the missing one.
LEMMA BarIsReal == NoBar \notin Bars
BY DEF NoBar, Bars, Times

\* A new bar is unmarked and whole.
LEMMA NewBarType ==
  ASSUME NEW t \in Times
  PROVE  /\ NewBar(t) \in Bars /\ NewBar(t).start = FloorToInterval(NewBar(t).first)
         /\ NewBar(t).start = FloorToInterval(t) /\ ~NewBar(t).hole /\ ~NewBar(t).gap
BY FloorIsBelow DEF NewBar, Bars

\* What an outage does to the open bar.
LEMMA MissingBar ==
  ASSUME BarType, NEW t \in Int, NEW u \in Int
  PROVE  LET b == Missing(bar, t, u) IN
         /\ bar = NoBar => b = NoBar
         /\ bar # NoBar => b \in Bars /\ b.start = bar.start /\ b.first = bar.first /\ b.gap = bar.gap
<1>1. CASE bar = NoBar
  BY <1>1 DEF Missing
<1>2. CASE bar # NoBar
  <2>1. bar \in Bars
    BY <1>2 DEF BarType
  <2> DEFINE h == bar.hole \/ \E i \in t .. u : bar.first < i /\ i < bar.start + Interval
  <2>2. Missing(bar, t, u) = [bar EXCEPT !.hole = h]
    BY <1>2 DEF Missing
  <2>3. h \in BOOLEAN
    OBVIOUS
  <2> HIDE DEF h
  <2> QED BY <1>2, <2>1, <2>2, <2>3 DEF Bars
<1> QED BY <1>1, <1>2

\* mark_feed_gap leaves a bar where it was.
LEMMA MarkedBar ==
  ASSUME NEW b, b = NoBar \/ b \in Bars
  PROVE  /\ b = NoBar => MarkFeedGap(b) = NoBar
         /\ b # NoBar => /\ MarkFeedGap(b) \in Bars /\ MarkFeedGap(b).gap
                         /\ MarkFeedGap(b).start = b.start /\ MarkFeedGap(b).first = b.first
BY DEF MarkFeedGap, Bars

\* A full queue loses its oldest item for the new one.
LEMMA OfferKeeps ==
  ASSUME NEW q \in Seq(Items), Len(q) <= Depth, NEW x \in Items
  PROVE  Offer(q, x) \in Seq(Items) /\ Len(Offer(q, x)) <= Depth
<1>1. Depth \in Nat \ {0}
  BY CandleAssumption
<1>2. CASE Len(q) >= Depth
  <2>1. q # <<>>
    BY <1>1, <1>2
  <2>2. Tail(q) \in Seq(Items) /\ Len(Tail(q)) = Len(q) - 1
    BY <2>1
  <2>3. Append(Tail(q), x) \in Seq(Items) /\ Len(Append(Tail(q), x)) = Len(q)
    BY <2>2
  <2> QED BY <1>2, <2>3 DEF Offer
<1>3. CASE ~(Len(q) >= Depth)
  <2>1. Append(q, x) \in Seq(Items) /\ Len(Append(q, x)) = Len(q) + 1
    OBVIOUS
  <2> QED BY <1>1, <1>3, <2>1 DEF Offer
<1> QED BY <1>2, <1>3

\* What a completed bar leaves in the queue.
LEMMA FanOutKeeps ==
  ASSUME CandleInv, bar # NoBar
  PROVE  FanOut(Completed(bar)) \in Seq(Items) /\ Len(FanOut(Completed(bar))) <= Depth
<1>1. queue \in Seq(Items) /\ Len(queue) <= Depth
  BY DEF CandleInv, QueueOfWhole
<1>2. CASE bar.gap
  BY <1>1, <1>2 DEF Completed, FanOut
<1>3. CASE ~bar.gap
  <2>1. bar.hole = FALSE /\ bar.start \in Int
    BY <1>3 DEF CandleInv, LossIsMarked, BarType, Bars, Times
  <2>2. Freeze(bar) \in Items
    <3>1. bar.start + Interval \in Int
      BY <2>1, CandleAssumption
    <3>2. Freeze(bar) = [start |-> bar.start, end |-> bar.start + Interval, hole |-> FALSE]
      BY <2>1 DEF Freeze
    <3> QED BY <2>1, <3>1, <3>2 DEF Items, WholeCandles
  <2>3. Completed(bar) = <<Freeze(bar)>> /\ Completed(bar) # <<>> /\ Head(Completed(bar)) = Freeze(bar)
    BY <1>3 DEF Completed
  <2>4. FanOut(Completed(bar)) = Offer(queue, Freeze(bar))
    BY <2>3 DEF FanOut
  <2> QED BY <1>1, <2>2, <2>4, OfferKeeps
<1> QED BY <1>2, <1>3

\* A connection that fails marks the bar it leaves incomplete.
LEMMA DisconnectedKeeps ==
  ASSUME CandleInv, link \in {"up", "dead"}, Disconnected, UNCHANGED <<now, opened, closed,
         queue>>
  PROVE  CandleInv'
<1> DEFINE t == IF link = "dead" THEN silent ELSE now
           b == Missing(bar, t, now)
<1>1. t \in Int /\ now \in Int
  BY DEF CandleInv, ClockType, Times
<1>2. BarType
  BY DEF CandleInv
<1>3. /\ bar = NoBar => b = NoBar
      /\ bar # NoBar => b \in Bars /\ b.start = bar.start /\ b.first = bar.first
  <2> HIDE DEF t
  <2> QED BY <1>1, <1>2, MissingBar
<1>4. bar' = MarkFeedGap(b) /\ link' = "down" /\ silent' = 0
  BY DEF Disconnected
<1> HIDE DEF b
<1>5. /\ bar = NoBar => bar' = NoBar
      /\ bar # NoBar => bar' \in Bars /\ bar'.gap /\ bar'.start = bar.start /\ bar'.first = bar.first
  BY <1>3, <1>4, MarkedBar, BarIsReal
<1>6. BarType'
  BY <1>2, <1>5 DEF BarType
<1>7. ClockType' /\ ClosedType' /\ QueueOfWhole'
  BY <1>4, CandleAssumption DEF CandleInv, ClockType, ClosedType, QueueOfWhole, Links, Times
<1>8. LossIsMarked'
  BY <1>5 DEF LossIsMarked
<1>9. NothingClosedYet' /\ NeverRepublished'
  BY <1>5, BarIsReal, <1>4 DEF CandleInv, NothingClosedYet, NeverRepublished, Disconnected
<1> QED BY <1>6, <1>7, <1>8, <1>9 DEF CandleInv

\* A tick opens a bar, is absorbed, dropped, or completes an interval once.
LEMMA AddTickKeeps ==
  ASSUME CandleInv, NEW t \in Times, AddTick(t)
  PROVE  CandleInv'
<1>1. link = "up"
  BY DEF AddTick
<1>2. CASE Contains(t) /\ bar = NoBar
  <2>1. bar' = NewBar(t) /\ UNCHANGED <<now, link, opened, closed, queue, silent>>
    BY <1>2 DEF AddTick
  <2>2. bar' \in Bars /\ bar'.start = FloorToInterval(bar'.first) /\ ~bar'.hole
    BY <2>1, NewBarType
  <2>3. closed = {}
    BY <1>1, <1>2 DEF CandleInv, NothingClosedYet
  <2>4. ClockType' /\ ClosedType' /\ QueueOfWhole'
    BY <2>1 DEF CandleInv, ClockType, ClosedType, QueueOfWhole
  <2> QED BY <1>1, <2>1, <2>2, <2>3, <2>4, BarIsReal
          DEF CandleInv, BarType, LossIsMarked, NothingClosedYet, NeverRepublished
<1>3. CASE bar # NoBar /\ Contains(t) /\ RollsOver(t)
  <2>1. bar.start \notin closed
    <3>1. \A s \in closed : s < bar.start /\ s \in Int
      BY <1>3 DEF CandleInv, NeverRepublished, ClosedType, Times
    <3> QED BY <3>1
  <2>2. /\ bar' = NewBar(t) /\ Complete /\ UNCHANGED <<now, link, opened, silent>>
    BY <1>3, <2>1 DEF AddTick
  <2>3. bar' \in Bars /\ bar'.start = FloorToInterval(bar'.first) /\ ~bar'.hole /\ bar'.start = FloorToInterval(t)
    BY <2>2, NewBarType
  <2>4. closed' = closed \cup {bar.start} /\ queue' = FanOut(Completed(bar))
    BY <2>2 DEF Complete
  <2>5. QueueOfWhole'
    BY <1>3, <2>4, FanOutKeeps DEF QueueOfWhole
  <2>6. bar.start \in Times /\ bar.start < bar'.start
    BY <1>3, <2>3 DEF RollsOver, CandleInv, BarType, Bars
  <2>7. ClockType' /\ ClosedType'
    BY <2>2, <2>4, <2>6 DEF CandleInv, ClockType, ClosedType
  <2>8. NeverRepublished'
    <3>1. \A s \in closed : s < bar.start /\ s \in Times
      BY <1>3 DEF CandleInv, NeverRepublished, ClosedType
    <3>2. bar'.start \in Int
      BY <2>3 DEF Bars, Times
    <3> QED BY <2>4, <2>6, <3>1, <3>2 DEF NeverRepublished, Times
  <2>9. BarType' /\ LossIsMarked' /\ NothingClosedYet'
    BY <1>1, <2>2, <2>3, BarIsReal DEF BarType, LossIsMarked, NothingClosedYet
  <2> QED BY <2>5, <2>7, <2>8, <2>9 DEF CandleInv
<1>4. CASE ~(Contains(t) /\ bar = NoBar) /\ ~(bar # NoBar /\ Contains(t) /\ RollsOver(t))
  <2>1. UNCHANGED candleVars
    BY <1>4 DEF AddTick, candleVars, hubVars
  <2> QED BY <2>1
       DEF candleVars, hubVars, CandleInv, ClockType, BarType, ClosedType, QueueOfWhole,
                      LossIsMarked, NothingClosedYet, NeverRepublished
<1> QED BY <1>2, <1>3, <1>4

\* Time that passes without a connection is lost to a marked bar only.
LEMMA AdvanceKeeps == CandleInv /\ Advance => CandleInv'
<1> SUFFICES ASSUME CandleInv, Advance PROVE CandleInv'
  OBVIOUS
<1>1. now' = now + 1 /\ now' \in Times /\ UNCHANGED <<link, opened, closed, queue, silent>>
  BY CandleAssumption DEF Advance, CandleInv, ClockType, Times
<1>2. CASE link # "down"
  <2>1. bar' = bar
    BY <1>2 DEF Advance
  <2> QED BY <1>1, <2>1 DEF CandleInv, ClockType, BarType, ClosedType, QueueOfWhole,
                      LossIsMarked, NothingClosedYet, NeverRepublished
<1>3. CASE link = "down"
  <2>1. now + 1 \in Int
    BY DEF CandleInv, ClockType, Times
  <2>2. PICK u : u = now + 1
    OBVIOUS
  <2>3. bar' = Missing(bar, u, u) /\ u \in Int
    BY <1>3, <2>1, <2>2 DEF Advance
  <2>4. /\ bar = NoBar => bar' = NoBar
        /\ bar # NoBar => /\ bar' \in Bars /\ bar'.start = bar.start /\ bar'.first = bar.first
                          /\ bar'.gap = bar.gap
    BY <2>3, MissingBar DEF CandleInv
  <2>5. BarType' /\ LossIsMarked'
    BY <1>3, <2>4, BarIsReal DEF CandleInv, BarType, LossIsMarked
  <2>6. NothingClosedYet' /\ NeverRepublished'
    BY <1>1, <1>3, <2>4, BarIsReal DEF CandleInv, NothingClosedYet, NeverRepublished
  <2>7. ClockType' /\ ClosedType' /\ QueueOfWhole'
    BY <1>1 DEF CandleInv, ClockType, ClosedType, QueueOfWhole
  <2> QED BY <2>5, <2>6, <2>7 DEF CandleInv
<1> QED BY <1>2, <1>3

\* The hub's steps keep the candles' invariant.
LEMMA HubKeeps == CandleInv /\ HubStep => CandleInv'
<1> SUFFICES ASSUME CandleInv, HubStep PROVE CandleInv'
  OBVIOUS
<1>1. CASE LinkLost
  BY <1>1, DisconnectedKeeps DEF LinkLost
<1>2. CASE FramesStop
  <2> USE <1>2 DEF FramesStop
  <2>1. ClockType' /\ ClosedType' /\ QueueOfWhole'
    BY DEF CandleInv, ClockType, ClosedType, QueueOfWhole, Links
  <2> QED BY <2>1 DEF CandleInv, BarType, LossIsMarked, NothingClosedYet, NeverRepublished
<1>3. CASE Reconnected
  <2> USE <1>3 DEF Reconnected
  <2>1. ClockType' /\ ClosedType' /\ QueueOfWhole'
    BY DEF CandleInv, ClockType, ClosedType, QueueOfWhole, Links
  <2> QED BY <2>1 DEF CandleInv, BarType, LossIsMarked, NothingClosedYet, NeverRepublished
<1>4. ASSUME NEW t \in Times, AddTick(t) PROVE CandleInv'
  BY <1>4, AddTickKeeps
<1>5. CASE HubStops
  <2> DEFINE q == FanOut(Flushed)
  <2>1. q \in Seq(Items) /\ Len(q) <= Depth
    <3>1. CASE bar = NoBar
      BY <3>1 DEF Flushed, FanOut, CandleInv, QueueOfWhole
    <3>2. CASE bar # NoBar
      BY <3>2, FanOutKeeps DEF Flushed
    <3> QED BY <3>1, <3>2
  <2>2. queue' = Offer(q, Sentinel) /\ bar' = NoBar /\ link' = "stopped" /\ silent' = 0
        /\ UNCHANGED <<now, opened>>
    BY <1>5 DEF HubStops
  <2>3. QueueOfWhole'
    <3>1. Sentinel \in Items
      BY DEF Items
    <3> HIDE DEF q
    <3> QED BY <2>1, <2>2, <3>1, OfferKeeps DEF QueueOfWhole
  <2>4. ClosedType'
    BY <1>5 DEF HubStops, CandleInv, ClosedType, BarType, Bars
  <2>5. ClockType'
    BY <2>2, CandleAssumption DEF CandleInv, ClockType, Links, Times
  <2> QED BY <2>2, <2>3, <2>4, <2>5
       DEF CandleInv, BarType, LossIsMarked, NothingClosedYet, NeverRepublished
<1> QED BY <1>1, <1>2, <1>3, <1>4, <1>5 DEF HubStep

-----------------------------------------------------------------------------
(* The day of the worker.                                                    *)

Orders == [side : {-1, 0, 1}, back : Pcs]
Rows == [known : BOOLEAN, so : SquareOffStates]

DayType ==
  /\ qty \in Int /\ seen \in Nat /\ starts \in 0 .. MaxStarts
  /\ candle.end \in Int /\ signals \subseteq Int /\ filledAt \subseteq signals
  /\ pc \in Pcs /\ so \in SquareOffStates /\ row \in Rows /\ order \in Orders
FlagsType ==
  /\ request \in BOOLEAN /\ requested \in BOOLEAN /\ holds \in BOOLEAN
  /\ acted \in BOOLEAN /\ spoiled \in BOOLEAN

\* What is being filled is the first order on its candle: an entry of a flat
\* worker while entries are open, or an exit it believes in no longer.
OrderInHand ==
  pc = "fill" =>
    /\ candle.end \in signals \ filledAt /\ seen >= EntryOn
    /\ order.side \in {-1, 1} /\ order.back \in {"save", "complete"}
    /\ order.back = "save" => row.so = "PENDING"
    /\ order.side = 1 => order.back = "save" /\ candle.end < EntryEnd /\ qty = 0 /\ holds
    /\ order.side = -1 => ~holds

\* The worker's square-off state is the row's but in the middle of one.
StateIsRow ==
  /\ pc \in {"idle", "save", "clear"} \/ (pc = "fill" /\ order.back = "save") => so = row.so
  /\ InSquareOff \/ pc = "complete" => row.so = "IN_PROGRESS"
  /\ pc = "clear" => row.so = "COMPLETED"

\* A position and a square-off come with the day's row; before its entry candle a worker has none.
PositionIsKnown == qty # 0 \/ row.so # "PENDING" => row.known
BeforeEntry == WorkerAlive /\ seen < EntryOn => ~holds /\ qty = 0

\* A process sells at most once.
MaySell == WorkerAlive /\ (holds \/ seen < EntryOn \/ pc = "fill")
SoldOncePerStart ==
  /\ qty <= 1 /\ -starts <= qty /\ (MaySell => -starts + 1 <= qty)
  /\ WorkerAlive => starts >= 1

\* While nothing went wrong: the strategy believes what is so, and a square-off
\* that was begun leaves nothing open.
BeliefIsTrue ==
  ~spoiled =>
    /\ qty \in {0, 1}
    /\ WorkerAlive /\ pc # "fill" => (holds <=> qty = 1)
    /\ pc = "fill" /\ order.side = -1 => qty = 1
    /\ row.so # "PENDING" /\ ~InSquareOff => qty = 0

\* Once a candle of the square-off time was taken, a square-off was begun.
LateCandles == candle.end >= SquareOffAt => row.so # "PENDING"

DayInv ==
  /\ DayType /\ FlagsType /\ OrderInHand /\ StateIsRow /\ PositionIsKnown /\ BeforeEntry
  /\ SoldOncePerStart /\ BeliefIsTrue /\ LateCandles

FixtureInv == CandleInv /\ DayInv

\* The invariant holds at the start.
LEMMA FixtureInitInv == FixtureInit => FixtureInv
<1> SUFFICES ASSUME FixtureInit PROVE FixtureInv
  OBVIOUS
<1> USE CandleAssumption, ClockAssumption, FixtureAssumption DEF FixtureInit, CandleInit
<1>1. CandleInv
  <2>1. ClockType /\ BarType /\ ClosedType /\ QueueOfWhole
    BY DEF ClockType, BarType, ClosedType, QueueOfWhole, Times, Links
  <2> QED BY <2>1 DEF CandleInv, LossIsMarked, NothingClosedYet, NeverRepublished
<1>2. DayType
  <2>1. row \in Rows /\ order \in Orders
    BY DEF Rows, Orders, SquareOffStates, Pcs, NoOrder
  <2> QED BY <2>1 DEF DayType, Pcs, SquareOffStates, NoCandle
<1>3. FlagsType
  BY DEF FlagsType
<1>4. OrderInHand /\ StateIsRow /\ PositionIsKnown /\ BeforeEntry /\ SoldOncePerStart /\ LateCandles
  BY DEF OrderInHand, StateIsRow, InSquareOff, PositionIsKnown, BeforeEntry,
         SoldOncePerStart, MaySell,
         WorkerAlive, LateCandles, NoCandle
<1>5. BeliefIsTrue
  BY DEF BeliefIsTrue, WorkerAlive, InSquareOff
<1> QED BY <1>1, <1>2, <1>3, <1>4, <1>5 DEF FixtureInv, DayInv

\* Steps of the hub and of the environment.
LEMMA DayUntouched == DayInv /\ UNCHANGED dayVars => DayInv'
<1> SUFFICES ASSUME DayInv, UNCHANGED dayVars PROVE DayInv'
  OBVIOUS
<1> USE DEF dayVars, db, workerVars, strategy, historyVars, DayInv
<1>1. (DayType /\ FlagsType)'
  BY DEF DayType, FlagsType
<1>2. (OrderInHand /\ StateIsRow /\ PositionIsKnown /\ BeforeEntry)'
  BY DEF OrderInHand, StateIsRow, InSquareOff, PositionIsKnown, BeforeEntry, WorkerAlive
<1>3. (SoldOncePerStart /\ BeliefIsTrue /\ LateCandles)'
  BY DEF SoldOncePerStart, MaySell, BeliefIsTrue, LateCandles, WorkerAlive, InSquareOff
<1> QED BY <1>1, <1>2, <1>3

\* The candles' invariant is about the hub's state only.
LEMMA CandleUntouched == CandleInv /\ UNCHANGED candleVars => CandleInv'
BY DEF candleVars, hubVars, CandleInv, ClockType, BarType, ClosedType, QueueOfWhole,
       LossIsMarked, NothingClosedYet, NeverRepublished

\* A crash leaves what was committed; in the middle of a square-off it spoils the day.
LEMMA WorkerDiesKeeps ==
  ASSUME CandleInv, DayInv, WorkerDies
  PROVE  CandleInv' /\ DayInv'
<1> USE FixtureAssumption, ClockAssumption
       DEF WorkerDies, db, workerVars, strategy, historyVars
<1>c. CandleInv'
  <2>1. UNCHANGED candleVars
    BY DEF WorkerDies
  <2> QED BY <2>1, CandleUntouched
<1>1. DayType'
  BY DEF DayInv, DayType, Rows, Orders, Pcs, SquareOffStates
<1>2. FlagsType'
  BY DEF DayInv, FlagsType
<1>3. OrderInHand'
  BY DEF DayInv, DayType, OrderInHand, StateIsRow, InSquareOff
<1>4. StateIsRow'
  BY DEF DayInv, StateIsRow, OrderInHand, InSquareOff
<1>5. PositionIsKnown'
  BY DEF DayInv, DayType, PositionIsKnown, Rows
<1>6. BeforeEntry'
  BY DEF DayInv, DayType, BeforeEntry, OrderInHand, WorkerAlive
<1>7. SoldOncePerStart'
  BY DEF DayInv, DayType, SoldOncePerStart, MaySell, WorkerAlive, OrderInHand, BeforeEntry
<1>8. BeliefIsTrue'
  BY DEF DayInv, DayType, BeliefIsTrue, WorkerAlive, InSquareOff, OrderInHand, StateIsRow
<1>9. LateCandles'
  BY DEF DayInv, LateCandles
<1> QED BY <1>c, <1>1, <1>2, <1>3, <1>4, <1>5, <1>6, <1>7, <1>8, <1>9 DEF DayInv

\* A request touches nothing else.
LEMMA OperatorAsksKeeps ==
  ASSUME CandleInv, DayInv, OperatorAsks
  PROVE  CandleInv' /\ DayInv'
<1> USE FixtureAssumption, ClockAssumption
       DEF OperatorAsks, db, workerVars, strategy, historyVars
<1>c. CandleInv'
  <2>1. UNCHANGED candleVars
    BY DEF OperatorAsks
  <2> QED BY <2>1, CandleUntouched
<1>1. DayType'
  BY DEF DayInv, DayType, Rows, Orders, Pcs, SquareOffStates
<1>2. FlagsType'
  BY DEF DayInv, FlagsType
<1>3. OrderInHand'
  BY DEF DayInv, DayType, OrderInHand, StateIsRow, InSquareOff
<1>4. StateIsRow'
  BY DEF DayInv, StateIsRow, OrderInHand, InSquareOff
<1>5. PositionIsKnown'
  BY DEF DayInv, DayType, PositionIsKnown, Rows
<1>6. BeforeEntry'
  BY DEF DayInv, DayType, BeforeEntry, OrderInHand, WorkerAlive
<1>7. SoldOncePerStart'
  BY DEF DayInv, DayType, SoldOncePerStart, MaySell, WorkerAlive, OrderInHand, BeforeEntry
<1>8. BeliefIsTrue'
  BY DEF DayInv, DayType, BeliefIsTrue, WorkerAlive, InSquareOff, OrderInHand, StateIsRow
<1>9. LateCandles'
  BY DEF DayInv, LateCandles
<1> QED BY <1>c, <1>1, <1>2, <1>3, <1>4, <1>5, <1>6, <1>7, <1>8, <1>9 DEF DayInv

\* The save after a candle leaves the square-off state as it is.
LEMMA SaveStateKeeps ==
  ASSUME CandleInv, DayInv, SaveState
  PROVE  CandleInv' /\ DayInv'
<1> USE FixtureAssumption, ClockAssumption
       DEF SaveState, db, workerVars, strategy, historyVars
<1>c. CandleInv'
  <2>1. UNCHANGED candleVars
    BY DEF SaveState
  <2> QED BY <2>1, CandleUntouched
<1>1. DayType'
  BY DEF DayInv, DayType, Rows, Orders, Pcs, SquareOffStates
<1>2. FlagsType'
  BY DEF DayInv, FlagsType
<1>3. OrderInHand'
  BY DEF DayInv, DayType, OrderInHand, StateIsRow, InSquareOff
<1>4. StateIsRow'
  BY DEF DayInv, StateIsRow, OrderInHand, InSquareOff
<1>5. PositionIsKnown'
  BY DEF DayInv, DayType, PositionIsKnown, Rows
<1>6. BeforeEntry'
  BY DEF DayInv, DayType, BeforeEntry, OrderInHand, WorkerAlive
<1>7. SoldOncePerStart'
  BY DEF DayInv, DayType, SoldOncePerStart, MaySell, WorkerAlive, OrderInHand, BeforeEntry
<1>8. BeliefIsTrue'
  BY DEF DayInv, DayType, BeliefIsTrue, WorkerAlive, InSquareOff, OrderInHand, StateIsRow
<1>9. LateCandles'
  BY DEF DayInv, LateCandles
<1> QED BY <1>c, <1>1, <1>2, <1>3, <1>4, <1>5, <1>6, <1>7, <1>8, <1>9 DEF DayInv

\* The request goes when COMPLETED is on record.
LEMMA ClearRequestKeeps ==
  ASSUME CandleInv, DayInv, ClearRequest
  PROVE  CandleInv' /\ DayInv'
<1> USE FixtureAssumption, ClockAssumption
       DEF ClearRequest, AfterSquareOff, db, workerVars, strategy, historyVars
<1>c. CandleInv'
  <2>1. UNCHANGED candleVars
    BY DEF ClearRequest, AfterSquareOff
  <2> QED BY <2>1, CandleUntouched
<1>1. DayType'
  BY DEF DayInv, DayType, Rows, Orders, Pcs, SquareOffStates
<1>2. FlagsType'
  BY DEF DayInv, FlagsType
<1>3. OrderInHand'
  BY DEF DayInv, DayType, OrderInHand, StateIsRow, InSquareOff
<1>4. StateIsRow'
  BY DEF DayInv, StateIsRow, OrderInHand, InSquareOff
<1>5. PositionIsKnown'
  BY DEF DayInv, DayType, PositionIsKnown, Rows
<1>6. BeforeEntry'
  BY DEF DayInv, DayType, BeforeEntry, OrderInHand, WorkerAlive
<1>7. SoldOncePerStart'
  BY DEF DayInv, DayType, SoldOncePerStart, MaySell, WorkerAlive, OrderInHand, BeforeEntry
<1>8. BeliefIsTrue'
  BY DEF DayInv, DayType, BeliefIsTrue, WorkerAlive, InSquareOff, OrderInHand, StateIsRow
<1>9. LateCandles'
  BY DEF DayInv, LateCandles
<1> QED BY <1>c, <1>1, <1>2, <1>3, <1>4, <1>5, <1>6, <1>7, <1>8, <1>9 DEF DayInv

\* COMPLETED is recorded from a square-off that has dealt with its order.
LEMMA SaveCompletedKeeps ==
  ASSUME CandleInv, DayInv, SaveCompleted
  PROVE  CandleInv' /\ DayInv'
<1> USE FixtureAssumption, ClockAssumption
       DEF SaveCompleted, AfterSquareOff, db, workerVars, strategy, historyVars
<1>c. CandleInv'
  <2>1. UNCHANGED candleVars
    BY DEF SaveCompleted, AfterSquareOff
  <2> QED BY <2>1, CandleUntouched
<1>1. DayType'
  BY DEF DayInv, DayType, Rows, Orders, Pcs, SquareOffStates
<1>2. FlagsType'
  BY DEF DayInv, FlagsType
<1>3. OrderInHand'
  BY DEF DayInv, DayType, OrderInHand, StateIsRow, InSquareOff
<1>4. StateIsRow'
  BY DEF DayInv, StateIsRow, OrderInHand, InSquareOff
<1>5. PositionIsKnown'
  BY DEF DayInv, DayType, PositionIsKnown, Rows
<1>6. BeforeEntry'
  BY DEF DayInv, DayType, BeforeEntry, OrderInHand, WorkerAlive
<1>7. SoldOncePerStart'
  BY DEF DayInv, DayType, SoldOncePerStart, MaySell, WorkerAlive, OrderInHand, BeforeEntry
<1>8. BeliefIsTrue'
  BY DEF DayInv, DayType, BeliefIsTrue, WorkerAlive, InSquareOff, OrderInHand, StateIsRow
<1>9. LateCandles'
  BY DEF DayInv, LateCandles
<1> QED BY <1>c, <1>1, <1>2, <1>3, <1>4, <1>5, <1>6, <1>7, <1>8, <1>9 DEF DayInv

\* What a worker takes from its queue is whole.
LEMMA QueueShortens ==
  ASSUME CandleInv, queue # <<>>, queue' = Tail(queue), UNCHANGED <<now, link, opened, bar,
         closed, silent>>
  PROVE  CandleInv' /\ (Head(queue) # Sentinel => Head(queue) \in WholeCandles)
<1>1. queue \in Seq(Items) /\ Len(queue) <= Depth /\ Depth \in Nat
  BY CandleAssumption DEF CandleInv, QueueOfWhole
<1>2. Tail(queue) \in Seq(Items) /\ Len(Tail(queue)) = Len(queue) - 1 /\ Head(queue) \in Items
  BY <1>1
<1>3. QueueOfWhole'
  BY <1>1, <1>2 DEF QueueOfWhole
<1> QED BY <1>2, <1>3 DEF Items, CandleInv, ClockType, BarType, ClosedType,
                          LossIsMarked, NothingClosedYet, NeverRepublished

\* A clean end of the loop.
LEMMA LoopEndsKeeps ==
  ASSUME CandleInv, DayInv, LoopEnds
  PROVE  CandleInv' /\ DayInv'
<1> USE FixtureAssumption, ClockAssumption DEF LoopEnds, db, strategy, historyVars
<1>c. CandleInv'
  <2>1. CASE queue = <<>>
    BY <2>1, CandleUntouched DEF candleVars, hubVars
  <2>2. CASE queue # <<>>
    BY <2>2, QueueShortens
  <2> QED BY <2>1, <2>2
<1>1. DayType'
  BY DEF DayInv, DayType, Rows, Orders, Pcs, SquareOffStates
<1>2. FlagsType'
  BY DEF DayInv, FlagsType
<1>3. OrderInHand'
  BY DEF DayInv, DayType, OrderInHand, StateIsRow, InSquareOff, BeforeEntry, WorkerAlive
<1>4. StateIsRow'
  BY DEF DayInv, StateIsRow, OrderInHand, InSquareOff
<1>5. PositionIsKnown'
  BY DEF DayInv, DayType, PositionIsKnown, Rows
<1>6. BeforeEntry'
  BY DEF DayInv, DayType, BeforeEntry, OrderInHand, WorkerAlive
<1>7. SoldOncePerStart'
  BY DEF DayInv, DayType, SoldOncePerStart, MaySell, WorkerAlive, OrderInHand, BeforeEntry
<1>8. BeliefIsTrue'
  BY DEF DayInv, DayType, BeliefIsTrue, WorkerAlive, InSquareOff, OrderInHand, StateIsRow
<1>9. LateCandles'
  BY DEF DayInv, LateCandles
<1> QED BY <1>c, <1>1, <1>2, <1>3, <1>4, <1>5, <1>6, <1>7, <1>8, <1>9 DEF DayInv

\* The hub may die with a bar open.
LEMMA HubDiesKeeps ==
  ASSUME CandleInv, DayInv, HubDies
  PROVE  CandleInv' /\ DayInv'
<1> USE FixtureAssumption, ClockAssumption
       DEF HubDies, dayVars, db, workerVars, strategy, historyVars
<1>c. CandleInv'
  <2>1. ClockType' /\ ClosedType' /\ QueueOfWhole'
    BY DEF CandleInv, ClockType, ClosedType, QueueOfWhole, Links
  <2> QED BY <2>1 DEF CandleInv, BarType, LossIsMarked, NothingClosedYet, NeverRepublished
<1>1. DayType'
  BY DEF DayInv, DayType, Rows, Orders, Pcs, SquareOffStates
<1>2. FlagsType'
  BY DEF DayInv, FlagsType
<1>3. OrderInHand'
  BY DEF DayInv, DayType, OrderInHand, StateIsRow, InSquareOff, BeforeEntry, WorkerAlive
<1>4. StateIsRow'
  BY DEF DayInv, StateIsRow, OrderInHand, InSquareOff
<1>5. PositionIsKnown'
  BY DEF DayInv, DayType, PositionIsKnown, Rows
<1>6. BeforeEntry'
  BY DEF DayInv, DayType, BeforeEntry, OrderInHand, WorkerAlive
<1>7. SoldOncePerStart'
  BY DEF DayInv, DayType, SoldOncePerStart, MaySell, WorkerAlive, OrderInHand, BeforeEntry
<1>8. BeliefIsTrue'
  BY DEF DayInv, DayType, BeliefIsTrue, WorkerAlive, InSquareOff, OrderInHand, StateIsRow
<1>9. LateCandles'
  BY DEF DayInv, LateCandles
<1> QED BY <1>c, <1>1, <1>2, <1>3, <1>4, <1>5, <1>6, <1>7, <1>8, <1>9 DEF DayInv

\* A start adopts the row's position and square-off state.
LEMMA StartKeeps ==
  ASSUME CandleInv, DayInv, Start
  PROVE  CandleInv' /\ DayInv'
<1> USE FixtureAssumption, ClockAssumption DEF Start, db, LoadSquareOffState, OpenPosition
<1>c. CandleInv'
  <2>1. ClockType' /\ ClosedType' /\ QueueOfWhole' /\ BarType'
    BY CandleAssumption
       DEF CandleInv, ClockType, ClosedType, QueueOfWhole, BarType, Links, Times
  <2> QED BY <2>1 DEF CandleInv, LossIsMarked, NothingClosedYet, NeverRepublished
<1>f. /\ pc' = "idle" /\ candle' = NoCandle /\ starts' = starts + 1 /\ starts' \in 0 .. MaxStarts
      /\ UNCHANGED <<qty, row, signals, filledAt, spoiled>>
      /\ ~WorkerAlive /\ so' = row.so /\ NoCandle.end = -1
  BY DEF DayInv, DayType, PositionIsKnown, Rows, NoCandle
<1>g. (qty # 0 => holds' /\ seen' = EntryOn) /\ (qty = 0 => ~holds') /\ (qty = 0 => seen' = 0)
      /\ order' = NoOrder /\ requested' = FALSE /\ acted' = FALSE /\ UNCHANGED request
  BY DEF DayInv, PositionIsKnown
<1> HIDE DEF Start
<1>1. DayType'
  BY <1>f, <1>g DEF DayInv, DayType, Rows, Orders, Pcs, SquareOffStates, NoOrder
<1>2. FlagsType'
  <2>1. holds' = (qty # 0)
    BY DEF Start
  <2> QED BY <1>f, <1>g, <2>1 DEF DayInv, FlagsType
<1>3. OrderInHand'
  BY <1>f, <1>g
     DEF DayInv, DayType, OrderInHand, StateIsRow, InSquareOff, BeforeEntry, WorkerAlive
<1>4. StateIsRow'
  BY <1>f, <1>g DEF DayInv, StateIsRow, OrderInHand, InSquareOff
<1>5. PositionIsKnown'
  BY <1>f, <1>g DEF DayInv, DayType, PositionIsKnown, Rows
<1>6. BeforeEntry'
  BY <1>f, <1>g DEF DayInv, DayType, BeforeEntry, OrderInHand, WorkerAlive
<1>7. SoldOncePerStart'
  BY <1>f, <1>g
     DEF DayInv, DayType, SoldOncePerStart, MaySell, WorkerAlive, OrderInHand, BeforeEntry
<1>8. BeliefIsTrue'
  BY <1>f, <1>g
     DEF DayInv, DayType, BeliefIsTrue, WorkerAlive, InSquareOff, OrderInHand, StateIsRow
<1>9. LateCandles'
  BY <1>f, <1>g DEF DayInv, LateCandles
<1> QED BY <1>c, <1>1, <1>2, <1>3, <1>4, <1>5, <1>6, <1>7, <1>8, <1>9 DEF DayInv

\* The one place where the position changes.
LEMMA FillKeeps ==
  ASSUME CandleInv, DayInv, Fill
  PROVE  CandleInv' /\ DayInv'
<1> USE FixtureAssumption, ClockAssumption DEF Fill, db, strategy
<1>c. CandleInv'
  <2>1. UNCHANGED candleVars
    BY DEF Fill
  <2> QED BY <2>1, CandleUntouched
<1>f. PICK f \in Fills :
        /\ f \in {0, 1} /\ qty' = qty + order.side * f
        /\ filledAt' = IF f > 0 THEN filledAt \cup {candle.end} ELSE filledAt
        /\ spoiled' = (spoiled \/ f = 0)
        /\ row' = IF f > 0 THEN [row EXCEPT !.known = TRUE] ELSE row
  OBVIOUS
<1>h. pc = "fill" /\ pc' = order.back /\ UNCHANGED <<signals, candle, so, holds, seen, order, starts>>
  BY <1>f
<1>g. /\ row' \in Rows /\ row'.so = row.so /\ (f > 0 => row'.known) /\ (f = 0 => row' = row)
      /\ filledAt' \subseteq signals /\ (f = 0 => qty' = qty /\ spoiled') /\ (f = 1 => spoiled' = spoiled)
      /\ f = 1 => qty' = qty + order.side
  <2> HIDE DEF Fill
  <2>0. row \in Rows
    BY DEF DayInv, DayType
  <2>1. row' \in Rows /\ row'.so = row.so /\ (f > 0 => row'.known) /\ (f = 0 => row' = row)
    <3>1. CASE f = 0
      BY <1>f, <2>0, <3>1
    <3>2. CASE f = 1
      <4>1. row' = [row EXCEPT !.known = TRUE]
        BY <1>f, <3>2
      <4>2. row' \in Rows
        BY <2>0, <4>1 DEF Rows
      <4> QED BY <2>0, <3>2, <4>1, <4>2 DEF Rows
    <3> QED BY <1>f, <3>1, <3>2
  <2>2. qty \in Int /\ order.side \in Int /\ candle.end \in signals /\ filledAt \subseteq signals
    BY <1>h DEF DayInv, DayType, Orders, OrderInHand
  <2>3. f = 0 => qty' = qty /\ spoiled'
    <3>1. f = 0 => qty' = qty
      BY <1>f, <2>2
    <3>2. f = 0 => spoiled'
      BY <1>f
    <3> QED BY <3>1, <3>2
  <2>4. f = 1 => qty' = qty + order.side /\ spoiled' = spoiled
    BY <1>f, <2>2 DEF DayInv, FlagsType
  <2> QED BY <1>f, <2>1, <2>2, <2>3, <2>4
<1>1. DayType'
  BY <1>f, <1>g, <1>h DEF DayInv, DayType, Orders, Pcs, SquareOffStates
<1>2. FlagsType'
  BY <1>f DEF DayInv, FlagsType
<1>3. OrderInHand'
  BY <1>f
     DEF DayInv, DayType, OrderInHand, StateIsRow, InSquareOff, BeforeEntry, WorkerAlive
<1>4. StateIsRow'
  BY <1>f DEF DayInv, StateIsRow, OrderInHand, InSquareOff
<1>5. PositionIsKnown'
  BY <1>f, <1>g DEF DayInv, DayType, PositionIsKnown
<1>6. BeforeEntry'
  BY <1>f DEF DayInv, DayType, BeforeEntry, OrderInHand, WorkerAlive
<1>7. SoldOncePerStart'
  BY <1>f
     DEF DayInv, DayType, SoldOncePerStart, MaySell, WorkerAlive, OrderInHand, BeforeEntry
<1>8. BeliefIsTrue'
  <2> HIDE DEF Fill
  <2>1. CASE f = 0
    BY <1>g, <2>1 DEF BeliefIsTrue
  <2>2. CASE f = 1
    BY <1>g, <1>h, <2>2
       DEF DayInv, DayType, BeliefIsTrue, WorkerAlive, InSquareOff, OrderInHand, StateIsRow
  <2> QED BY <1>f, <2>1, <2>2
<1>9. LateCandles'
  BY <1>f DEF DayInv, LateCandles
<1> QED BY <1>c, <1>1, <1>2, <1>3, <1>4, <1>5, <1>6, <1>7, <1>8, <1>9 DEF DayInv

\* The square-off's own order, or none.
LEMMA SquareOffKeeps ==
  ASSUME CandleInv, DayInv, SquareOff
  PROVE  CandleInv' /\ DayInv'
<1>c. CandleInv'
  <2>1. UNCHANGED candleVars
    BY DEF SquareOff
  <2> QED BY <2>1, CandleUntouched
<1>i. DayType /\ FlagsType /\ OrderInHand /\ StateIsRow /\ PositionIsKnown /\ BeforeEntry
      /\ SoldOncePerStart /\ BeliefIsTrue /\ LateCandles
  BY DEF DayInv
<1>s. /\ pc = "squareOff" /\ UNCHANGED <<qty, row, request, candle, requested, so, seen, starts, filledAt>>
  BY DEF SquareOff
<1> USE FixtureAssumption, ClockAssumption
<1>1. CASE ~holds
  <2>a. pc' = "complete" /\ acted' = FALSE /\ UNCHANGED <<holds, signals, order, spoiled>>
    BY <1>1 DEF SquareOff, SquareOffSignal
  <2>1. (DayType /\ FlagsType)'
    <3>1. DayType'
      BY <1>1, <1>i, <1>s, <2>a DEF DayType, Rows, Orders, Pcs, SquareOffStates, WholeCandles
    <3>2. FlagsType'
      BY <1>1, <1>i, <1>s, <2>a DEF FlagsType
    <3> QED BY <3>1, <3>2
  <2>2. (OrderInHand /\ StateIsRow)'
    BY <1>1, <1>i, <1>s, <2>a
       DEF DayType, OrderInHand, StateIsRow, InSquareOff, BeforeEntry, WorkerAlive
  <2>3. (PositionIsKnown /\ BeforeEntry)'
    BY <1>1, <1>i, <1>s, <2>a
       DEF DayType, PositionIsKnown, Rows, BeforeEntry, OrderInHand, WorkerAlive
  <2>4. SoldOncePerStart'
    BY <1>1, <1>i, <1>s, <2>a
       DEF DayType, SoldOncePerStart, MaySell, WorkerAlive, OrderInHand, BeforeEntry
  <2>5. BeliefIsTrue'
    BY <1>1, <1>i, <1>s, <2>a
       DEF DayType, BeliefIsTrue, WorkerAlive, InSquareOff, OrderInHand, StateIsRow
  <2>6. LateCandles'
    BY <1>1, <1>i, <1>s, <2>a DEF DayType, LateCandles, StateIsRow
  <2> QED BY <1>c, <2>1, <2>2, <2>3, <2>4, <2>5, <2>6 DEF DayInv
<1>2. CASE holds /\ candle.end \in signals
  <2>a. /\ holds' = FALSE /\ pc' = "complete" /\ acted' = FALSE /\ spoiled' = TRUE
        /\ UNCHANGED <<signals, order>>
    BY <1>2 DEF SquareOff, SquareOffSignal, HandleSignal, AlreadyRecorded
  <2>1. (DayType /\ FlagsType)'
    <3>1. DayType'
      BY <1>2, <1>i, <1>s, <2>a DEF DayType, Rows, Orders, Pcs, SquareOffStates, WholeCandles
    <3>2. FlagsType'
      BY <1>2, <1>i, <1>s, <2>a DEF FlagsType
    <3> QED BY <3>1, <3>2
  <2>2. (OrderInHand /\ StateIsRow)'
    BY <1>2, <1>i, <1>s, <2>a
       DEF DayType, OrderInHand, StateIsRow, InSquareOff, BeforeEntry, WorkerAlive
  <2>3. (PositionIsKnown /\ BeforeEntry)'
    BY <1>2, <1>i, <1>s, <2>a
       DEF DayType, PositionIsKnown, Rows, BeforeEntry, OrderInHand, WorkerAlive
  <2>4. SoldOncePerStart'
    BY <1>2, <1>i, <1>s, <2>a
       DEF DayType, SoldOncePerStart, MaySell, WorkerAlive, OrderInHand, BeforeEntry
  <2>5. BeliefIsTrue'
    BY <1>2, <1>i, <1>s, <2>a
       DEF DayType, BeliefIsTrue, WorkerAlive, InSquareOff, OrderInHand, StateIsRow
  <2>6. LateCandles'
    BY <1>2, <1>i, <1>s, <2>a DEF DayType, LateCandles, StateIsRow
  <2> QED BY <1>c, <2>1, <2>2, <2>3, <2>4, <2>5, <2>6 DEF DayInv
<1>3. CASE holds /\ candle.end \notin signals
  <2>a. /\ holds' = FALSE /\ pc' = "fill" /\ signals' = signals \cup {candle.end}
        /\ order' = [side |-> -1, back |-> "complete"] /\ UNCHANGED <<acted, spoiled>>
    BY <1>3 DEF SquareOff, SquareOffSignal, HandleSignal, AlreadyRecorded
  <2>1. (DayType /\ FlagsType)'
    BY <1>3, <1>i, <1>s, <2>a
       DEF DayType, FlagsType, Rows, Orders, Pcs, SquareOffStates, WholeCandles
  <2>2. (OrderInHand /\ StateIsRow)'
    BY <1>3, <1>i, <1>s, <2>a
       DEF DayType, OrderInHand, StateIsRow, InSquareOff, BeforeEntry, WorkerAlive
  <2>3. (PositionIsKnown /\ BeforeEntry)'
    BY <1>3, <1>i, <1>s, <2>a
       DEF DayType, PositionIsKnown, Rows, BeforeEntry, OrderInHand, WorkerAlive
  <2>4. SoldOncePerStart'
    BY <1>3, <1>i, <1>s, <2>a
       DEF DayType, SoldOncePerStart, MaySell, WorkerAlive, OrderInHand, BeforeEntry
  <2>5. BeliefIsTrue'
    BY <1>3, <1>i, <1>s, <2>a
       DEF DayType, BeliefIsTrue, WorkerAlive, InSquareOff, OrderInHand, StateIsRow
  <2>6. LateCandles'
    BY <1>3, <1>i, <1>s, <2>a DEF DayType, LateCandles, StateIsRow
  <2> QED BY <1>c, <2>1, <2>2, <2>3, <2>4, <2>5, <2>6 DEF DayInv
<1> QED BY <1>c, <1>1, <1>2, <1>3

\* A candle begins a square-off, does nothing, or goes to the strategy.
LEMMA TakeCandleKeeps ==
  ASSUME CandleInv, DayInv, TakeCandle
  PROVE  CandleInv' /\ DayInv'
<1>c. CandleInv' /\ Head(queue) \in WholeCandles
  BY QueueShortens DEF TakeCandle
<1>i. DayType /\ FlagsType /\ OrderInHand /\ StateIsRow /\ PositionIsKnown /\ BeforeEntry
      /\ SoldOncePerStart /\ BeliefIsTrue /\ LateCandles
  BY DEF DayInv
<1> DEFINE end == Head(queue).end
<1>e. end \in Int
  BY <1>c DEF WholeCandles
<1>s. /\ pc = "idle" /\ candle' = Head(queue) /\ candle'.end = end /\ requested' = request /\ so = row.so
      /\ UNCHANGED <<qty, request, so, starts, filledAt>>
  BY <1>i DEF TakeCandle, ReadSquareOffRequest, StateIsRow
<1>t. CASE SquareOffDue(end)
  <2>a. /\ row' = [known |-> TRUE, so |-> "IN_PROGRESS"] /\ pc' = "squareOff"
        /\ UNCHANGED <<seen, holds, signals, order, acted, spoiled>>
    BY <1>t DEF TakeCandle, BeginsWith, strategy
  <2> HIDE DEF end
  <2>1. (DayType /\ FlagsType)'
    BY <1>i, <1>e, <1>s, <2>a
       DEF DayType, FlagsType, Rows, Orders, Pcs, SquareOffStates, WholeCandles
  <2>2. (OrderInHand /\ StateIsRow)'
    BY <1>i, <1>e, <1>s, <2>a
       DEF DayType, OrderInHand, StateIsRow, InSquareOff, BeforeEntry, WorkerAlive
  <2>3. (PositionIsKnown /\ BeforeEntry)'
    BY <1>i, <1>e, <1>s, <2>a
       DEF DayType, PositionIsKnown, Rows, BeforeEntry, OrderInHand, WorkerAlive
  <2>4. SoldOncePerStart'
    BY <1>i, <1>e, <1>s, <2>a
       DEF DayType, SoldOncePerStart, MaySell, WorkerAlive, OrderInHand, BeforeEntry
  <2>5. BeliefIsTrue'
    BY <1>i, <1>e, <1>s, <2>a
       DEF DayType, BeliefIsTrue, WorkerAlive, InSquareOff, OrderInHand, StateIsRow
  <2>6. LateCandles'
    BY <1>i, <1>e, <1>s, <2>a DEF DayType, LateCandles, StateIsRow
  <2> QED BY <1>c, <2>1, <2>2, <2>3, <2>4, <2>5, <2>6 DEF DayInv
<1>u. CASE ~SquareOffDue(end) /\ EntriesOver(end)
  <2>a. UNCHANGED <<pc, row, seen, holds, signals, order, acted, spoiled>>
    BY <1>u DEF TakeCandle, strategy
  <2>b. so # "PENDING" \/ end < SquareOffAt
    BY <1>u, <1>e, ClockAssumption DEF SquareOffDue, TriggerAt
  <2> HIDE DEF end
  <2>1. (DayType /\ FlagsType)'
    BY <1>i, <1>e, <1>s, <2>a, <2>b
       DEF DayType, FlagsType, Rows, Orders, Pcs, SquareOffStates, WholeCandles
  <2>2. (OrderInHand /\ StateIsRow)'
    BY <1>i, <1>e, <1>s, <2>a, <2>b
       DEF DayType, OrderInHand, StateIsRow, InSquareOff, BeforeEntry, WorkerAlive
  <2>3. (PositionIsKnown /\ BeforeEntry)'
    BY <1>i, <1>e, <1>s, <2>a, <2>b
       DEF DayType, PositionIsKnown, Rows, BeforeEntry, OrderInHand, WorkerAlive
  <2>4. SoldOncePerStart'
    BY <1>i, <1>e, <1>s, <2>a, <2>b
       DEF DayType, SoldOncePerStart, MaySell, WorkerAlive, OrderInHand, BeforeEntry
  <2>5. BeliefIsTrue'
    BY <1>i, <1>e, <1>s, <2>a, <2>b
       DEF DayType, BeliefIsTrue, WorkerAlive, InSquareOff, OrderInHand, StateIsRow
  <2>6. LateCandles'
    BY <1>i, <1>e, <1>s, <2>a, <2>b, ClockAssumption DEF DayType, LateCandles, StateIsRow
  <2> QED BY <1>c, <2>1, <2>2, <2>3, <2>4, <2>5, <2>6 DEF DayInv
<1>v. CASE ~SquareOffDue(end) /\ ~EntriesOver(end)
  <2>a. OnCandle(end) /\ row' = row /\ seen' = seen + 1
    BY <1>v DEF TakeCandle, OnCandle
  <2>b. so = "PENDING" /\ end < EntryEnd /\ end < SquareOffAt
    BY <1>v, <1>e, ClockAssumption DEF EntriesOver
  <2> DEFINE enters == seen + 1 = EntryOn /\ ~holds
             exits == seen + 1 = ExitOn /\ holds
  <2> USE FixtureAssumption, ClockAssumption
  <2>1. CASE ~enters /\ ~exits
    <3>a. pc' = "save" /\ UNCHANGED <<holds, signals, order, acted, spoiled>>
      BY <2>1, <2>a DEF OnCandle
    <3> HIDE DEF end
    <3>1. (DayType /\ FlagsType)'
      BY <1>i, <1>e, <1>s, <2>a, <2>b, <2>1, <3>a
         DEF DayType, FlagsType, Rows, Orders, Pcs, SquareOffStates, WholeCandles
    <3>2. (OrderInHand /\ StateIsRow)'
      BY <1>i, <1>e, <1>s, <2>a, <2>b, <2>1, <3>a
         DEF DayType, OrderInHand, StateIsRow, InSquareOff, BeforeEntry, WorkerAlive
    <3>3. (PositionIsKnown /\ BeforeEntry)'
      BY <1>i, <1>e, <1>s, <2>a, <2>b, <2>1, <3>a
         DEF DayType, PositionIsKnown, Rows, BeforeEntry, OrderInHand, WorkerAlive
    <3>4. SoldOncePerStart'
      BY <1>i, <1>e, <1>s, <2>a, <2>b, <2>1, <3>a
         DEF DayType, SoldOncePerStart, MaySell, WorkerAlive, OrderInHand, BeforeEntry
    <3>5. BeliefIsTrue'
      BY <1>i, <1>e, <1>s, <2>a, <2>b, <2>1, <3>a
         DEF DayType, BeliefIsTrue, WorkerAlive, InSquareOff, OrderInHand, StateIsRow
    <3>6. LateCandles'
      BY <1>i, <1>e, <1>s, <2>a, <2>b, <2>1, <3>a DEF DayType, LateCandles, StateIsRow
    <3> QED BY <1>c, <3>1, <3>2, <3>3, <3>4, <3>5, <3>6 DEF DayInv
  <2>2. CASE (enters \/ exits) /\ end \in signals
    <3>a. /\ pc' = "save" /\ acted' = FALSE /\ spoiled' = TRUE /\ UNCHANGED <<signals, order>>
          /\ enters => holds' /\ holds' = TRUE
          /\ exits => ~holds' /\ holds' = FALSE
      BY <2>2, <2>a DEF OnCandle, HandleSignal, AlreadyRecorded
    <3> HIDE DEF end
    <3>1. (DayType /\ FlagsType)'
      BY <1>i, <1>e, <1>s, <2>a, <2>b, <2>2, <3>a
         DEF DayType, FlagsType, Rows, Orders, Pcs, SquareOffStates, WholeCandles
    <3>2. (OrderInHand /\ StateIsRow)'
      BY <1>i, <1>e, <1>s, <2>a, <2>b, <2>2, <3>a
         DEF DayType, OrderInHand, StateIsRow, InSquareOff, BeforeEntry, WorkerAlive
    <3>3. (PositionIsKnown /\ BeforeEntry)'
      BY <1>i, <1>e, <1>s, <2>a, <2>b, <2>2, <3>a
         DEF DayType, PositionIsKnown, Rows, BeforeEntry, OrderInHand, WorkerAlive
    <3>4. SoldOncePerStart'
      BY <1>i, <1>e, <1>s, <2>a, <2>b, <2>2, <3>a
         DEF DayType, SoldOncePerStart, MaySell, WorkerAlive, OrderInHand, BeforeEntry
    <3>5. BeliefIsTrue'
      BY <1>i, <1>e, <1>s, <2>a, <2>b, <2>2, <3>a
         DEF DayType, BeliefIsTrue, WorkerAlive, InSquareOff, OrderInHand, StateIsRow
    <3>6. LateCandles'
      BY <1>i, <1>e, <1>s, <2>a, <2>b, <2>2, <3>a DEF DayType, LateCandles, StateIsRow
    <3> QED BY <1>c, <3>1, <3>2, <3>3, <3>4, <3>5, <3>6 DEF DayInv
  <2>3. CASE enters /\ end \notin signals
    <3>a. /\ holds' = TRUE /\ pc' = "fill" /\ signals' = signals \cup {end}
          /\ order' = [side |-> 1, back |-> "save"] /\ UNCHANGED <<acted, spoiled>>
      BY <2>3, <2>a DEF OnCandle, HandleSignal, AlreadyRecorded
    <3> HIDE DEF end
    <3>1. (DayType /\ FlagsType)'
      BY <1>i, <1>e, <1>s, <2>a, <2>b, <2>3, <3>a
         DEF DayType, FlagsType, Rows, Orders, Pcs, SquareOffStates, WholeCandles
    <3>2. (OrderInHand /\ StateIsRow)'
      BY <1>i, <1>e, <1>s, <2>a, <2>b, <2>3, <3>a
         DEF DayType, OrderInHand, StateIsRow, InSquareOff, BeforeEntry, WorkerAlive
    <3>3. (PositionIsKnown /\ BeforeEntry)'
      BY <1>i, <1>e, <1>s, <2>a, <2>b, <2>3, <3>a
         DEF DayType, PositionIsKnown, Rows, BeforeEntry, OrderInHand, WorkerAlive
    <3>4. SoldOncePerStart'
      BY <1>i, <1>e, <1>s, <2>a, <2>b, <2>3, <3>a
         DEF DayType, SoldOncePerStart, MaySell, WorkerAlive, OrderInHand, BeforeEntry
    <3>5. BeliefIsTrue'
      BY <1>i, <1>e, <1>s, <2>a, <2>b, <2>3, <3>a
         DEF DayType, BeliefIsTrue, WorkerAlive, InSquareOff, OrderInHand, StateIsRow
    <3>6. LateCandles'
      BY <1>i, <1>e, <1>s, <2>a, <2>b, <2>3, <3>a DEF DayType, LateCandles, StateIsRow
    <3> QED BY <1>c, <3>1, <3>2, <3>3, <3>4, <3>5, <3>6 DEF DayInv
  <2>4. CASE ~enters /\ exits /\ end \notin signals
    <3>a. /\ holds' = FALSE /\ pc' = "fill" /\ signals' = signals \cup {end}
          /\ order' = [side |-> -1, back |-> "save"] /\ UNCHANGED <<acted, spoiled>>
      BY <2>4, <2>a DEF OnCandle, HandleSignal, AlreadyRecorded
    <3> HIDE DEF end
    <3>1. (DayType /\ FlagsType)'
      BY <1>i, <1>e, <1>s, <2>a, <2>b, <2>4, <3>a
         DEF DayType, FlagsType, Rows, Orders, Pcs, SquareOffStates, WholeCandles
    <3>2. (OrderInHand /\ StateIsRow)'
      BY <1>i, <1>e, <1>s, <2>a, <2>b, <2>4, <3>a
         DEF DayType, OrderInHand, StateIsRow, InSquareOff, BeforeEntry, WorkerAlive
    <3>3. (PositionIsKnown /\ BeforeEntry)'
      BY <1>i, <1>e, <1>s, <2>a, <2>b, <2>4, <3>a
         DEF DayType, PositionIsKnown, Rows, BeforeEntry, OrderInHand, WorkerAlive
    <3>4. SoldOncePerStart'
      BY <1>i, <1>e, <1>s, <2>a, <2>b, <2>4, <3>a
         DEF DayType, SoldOncePerStart, MaySell, WorkerAlive, OrderInHand, BeforeEntry
    <3>5. BeliefIsTrue'
      BY <1>i, <1>e, <1>s, <2>a, <2>b, <2>4, <3>a
         DEF DayType, BeliefIsTrue, WorkerAlive, InSquareOff, OrderInHand, StateIsRow
    <3>6. LateCandles'
      BY <1>i, <1>e, <1>s, <2>a, <2>b, <2>4, <3>a DEF DayType, LateCandles, StateIsRow
    <3> QED BY <1>c, <3>1, <3>2, <3>3, <3>4, <3>5, <3>6 DEF DayInv
  <2> QED BY <1>c, <2>1, <2>2, <2>3, <2>4
<1> QED BY <1>c, <1>t, <1>u, <1>v

\* Every step of hub, worker, operator and crashes keeps the invariant.
LEMMA FixtureStep == FixtureInv /\ [FixtureNext]_fixtureVars => FixtureInv'
<1> SUFFICES ASSUME FixtureInv, [FixtureNext]_fixtureVars PROVE FixtureInv'
  OBVIOUS
<1> USE DEF FixtureInv
<1>1. CASE (HubStep \/ Advance) /\ UNCHANGED dayVars
  BY <1>1, HubKeeps, AdvanceKeeps, DayUntouched
<1>2. CASE UNCHANGED fixtureVars
  BY <1>2, CandleUntouched, DayUntouched DEF fixtureVars
<1>3. CASE WorkerStep
  BY <1>3, LoopEndsKeeps, TakeCandleKeeps, FillKeeps, SquareOffKeeps, SaveCompletedKeeps,
       ClearRequestKeeps,
     SaveStateKeeps DEF WorkerStep
<1>4. CASE Start \/ WorkerDies \/ HubDies \/ OperatorAsks
  BY <1>4, StartKeeps, WorkerDiesKeeps, HubDiesKeeps, OperatorAsksKeeps
<1> QED BY <1>1, <1>2, <1>3, <1>4 DEF FixtureNext

\* The inductive invariant of the fixture worker's day.
THEOREM FixtureInvHolds == FixtureSpec => []FixtureInv
<1> QED BY FixtureInitInv, FixtureStep, PTL DEF FixtureSpec

\* It implies what the run checks.
LEMMA FixtureInvIsSound == FixtureInv => CandlesAreSound /\ HonestDayIsFlat
<1> SUFFICES ASSUME FixtureInv PROVE CandlesAreSound /\ HonestDayIsFlat
  OBVIOUS
<1> USE DEF FixtureInv
<1>1. NoHoleAfterFirst
  <2> SUFFICES ASSUME NEW i \in DOMAIN queue, queue[i] # Sentinel PROVE ~queue[i].hole
    BY DEF NoHoleAfterFirst
  <2>1. queue[i] \in Items
    BY DEF CandleInv, QueueOfWhole
  <2> QED BY <2>1 DEF Items, WholeCandles
<1>2. FixtureTypeOK
  <2>1. now \in Times /\ link \in Links /\ opened \in Times /\ silent \in Times
        /\ closed \subseteq Times /\ Len(queue) <= Depth
    BY DEF CandleInv, ClockType, ClosedType, QueueOfWhole
  <2>2. bar = NoBar \/ (/\ bar.first \in Times /\ bar.start = FloorToInterval(bar.first)
                        /\ {bar.gap, bar.hole} \subseteq BOOLEAN)
    BY DEF CandleInv, BarType, Bars
  <2>3. qty \in -MaxStarts .. 1
    BY FixtureAssumption DEF DayInv, DayType, SoldOncePerStart
  <2>4. /\ row.known \in BOOLEAN /\ row.so \in SquareOffStates /\ so \in SquareOffStates
        /\ pc \in Pcs /\ order.side \in {-1, 0, 1} /\ order.back \in Pcs
        /\ seen \in Nat /\ starts \in 0 .. MaxStarts
    BY DEF DayInv, DayType, Rows, Orders
  <2>5. {request, requested, holds, acted, spoiled} \subseteq BOOLEAN
    BY DEF DayInv, FlagsType
  <2> QED BY <2>1, <2>2, <2>3, <2>4, <2>5 DEF FixtureTypeOK
<1>3. HonestDayIsFlat
  <2> SUFFICES ASSUME ~spoiled, pc \in {"idle", "stopped"}, candle.end >= SquareOffAt PROVE qty = 0
    BY DEF HonestDayIsFlat, ClosedBySquareOff
  <2> QED BY DEF DayInv, BeliefIsTrue, LateCandles, InSquareOff
<1> QED BY <1>1, <1>2, <1>3 DEF CandlesAreSound, CandleInv

\* For any intervals, delays, outages and restarts, a worker is given whole
\* candles: no interval is published twice and none with a hole after its
\* first tick that the feed knows of (CandleAggregator.add, mark_feed_gap).
THEOREM CandlesAreSoundHolds == FixtureSpec => []CandlesAreSound
<1> QED BY FixtureInvHolds, FixtureInvIsSound, PTL

\* A worker that has dealt with a candle of the square-off time or later is
\* flat, unless a square-off was interrupted, suppressed or not filled.
THEOREM HonestDayIsFlatHolds == FixtureSpec => []HonestDayIsFlat
<1> QED BY FixtureInvHolds, FixtureInvIsSound, PTL

\* The step property, its three parts together.
DayKept ==
  /\ qty' > qty => row.so = "PENDING" /\ candle.end < EntryEnd
  /\ request /\ ~request' => row.so = "COMPLETED"
  /\ qty' # qty => candle.end \notin filledAt

\* Only a fill moves the position, only ClearRequest the request.
LEMMA DayKeptStep == FixtureInv /\ [FixtureNext]_fixtureVars => DayKept
<1> SUFFICES ASSUME FixtureInv, [FixtureNext]_fixtureVars PROVE DayKept
  OBVIOUS
<1> USE DEF FixtureInv
<1>1. ASSUME qty' # qty PROVE Fill
  BY <1>1
     DEF FixtureNext, WorkerStep, fixtureVars, dayVars, db, LoopEnds, TakeCandle, SquareOff,
         SaveCompleted,
     ClearRequest, SaveState, Start, WorkerDies, HubDies, OperatorAsks
<1>2. ASSUME qty' # qty PROVE candle.end \notin filledAt
  BY <1>1, <1>2 DEF Fill, DayInv, OrderInHand
<1>3. ASSUME qty' > qty PROVE row.so = "PENDING" /\ candle.end < EntryEnd
  <2>1. qty \in Int /\ order.side \in {-1, 1} /\ pc = "fill"
    BY <1>1, <1>3 DEF Fill, DayInv, DayType, OrderInHand
  <2>2. PICK f \in {0, 1} : qty' = qty + order.side * f
    BY <1>1, <1>3, <2>1, FixtureAssumption DEF Fill
  <2>3. order.side = 1
    BY <1>3, <2>1, <2>2
  <2> QED BY <2>1, <2>3 DEF DayInv, OrderInHand
<1>4. ASSUME request, ~request' PROVE row.so = "COMPLETED"
  <2>1. ClearRequest
    BY <1>4
       DEF FixtureNext, WorkerStep, fixtureVars, dayVars, LoopEnds, TakeCandle, SquareOff,
           SaveCompleted,
       Fill, SaveState, Start, WorkerDies, HubDies, OperatorAsks
  <2> QED BY <2>1 DEF ClearRequest, DayInv, StateIsRow
<1> QED BY <1>2, <1>3, <1>4 DEF DayKept

\* Entries stay closed once a square-off was begun or the cutoff passed, the
\* operator's request is kept until a square-off is on record, and a candle
\* makes one order at most, whatever dies and is started again in between.
THEOREM DayIsKeptHolds == FixtureSpec => DayIsKept
<1>1. FixtureInv /\ [FixtureNext]_fixtureVars => [DayKept]_fixtureVars
  BY DayKeptStep
<1> QED BY <1>1, FixtureInvHolds, PTL
     DEF FixtureSpec, DayIsKept, EntriesStayClosed, RequestIsKept,
        OneOrderPerCandle, DayKept

=============================================================================
