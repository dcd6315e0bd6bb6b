------------------------------- MODULE Launch --------------------------------
(***************************************************************************)
(* How a runtime group is started: supervised_launch's bounded attempts or *)
(* an operator's start_runtime, and in each attempt __main__.main's order: *)
(* the gates, the backup, the migration under its own lock, retention, the *)
(* token, then IntradayOptionsSupervisor.run under the group's ProcessLock *)
(* until the feed ends, a signal arrives or something raises.  Several     *)
(* launches may be under way at once, and any of them can be killed at any *)
(* step.  One migration of several statements is pending at first.         *)
(***************************************************************************)
EXTENDS ProcessLock, FiniteSets

CONSTANTS
  MaxLaunchAttempts,    \* --max-attempts
  NumStatements   \* statements of the pending migration

ASSUME LaunchAssumption == MaxLaunchAttempts \in Nat \ {0} /\ NumStatements \in Nat \ {0}

VARIABLES
  stage,     \* of each launcher's attempt
  wrapped,   \* it is supervised_launch rather than start_runtime
  attempt,   \* attempts begun
  code,      \* what the attempt will return, "RAISED" for an exception
  migrating, \* who holds the migration lock, or Nobody
  next,      \* the step each one's script has got to
  schema,    \* statements whose effect is in the database
  recorded,  \* the version is in schema_migrations
  \* --- history
  stopped,   \* "no", "signalled", or "lost" when that run then raised
  beside     \* the legacy system was up when this attempt looked

attemptVars == <<stage, wrapped, attempt, code, stopped, beside>>
schemaVars == <<migrating, next, schema, recorded>>
launchVars == <<lockVars, attemptVars, schemaVars>>

Terminal == {"OK", "DISABLED", "NOT_FOUND", "LEGACY", "SAFETY"}

\* TERMINAL_EXIT_CODES
IsTerminal(c) == c \in Terminal

LaunchInit ==
  /\ LockInit
  /\ stage = [p \in Pids |-> "off"] /\ wrapped = [p \in Pids |-> FALSE]
  /\ attempt = [p \in Pids |-> 0] /\ code = [p \in Pids |-> "none"]
  /\ stopped = [p \in Pids |-> "no"] /\ beside = [p \in Pids |-> FALSE]
  /\ migrating = Nobody /\ next = [p \in Pids |-> 0] /\ schema = {} /\ recorded = FALSE

-----------------------------------------------------------------------------
(* Moving an attempt on.                                                   *)

Goes(p, from, to) ==
  /\ stage[p] = from /\ stage' = [stage EXCEPT ![p] = to]
  /\ UNCHANGED <<wrapped, attempt, stopped, beside>>

\* The attempt is over, with an exit code or an exception.
Returns(p, from, c) ==
  /\ stage[p] = from /\ stage' = [stage EXCEPT ![p] = "returned"]
  /\ code' = [code EXCEPT ![p] = c]
  /\ UNCHANGED <<wrapped, attempt, stopped, beside>>

Cleared(p) ==
  /\ stage' = [stage EXCEPT ![p] = "off"] /\ wrapped' = [wrapped EXCEPT ![p] = FALSE]
  /\ attempt' = [attempt EXCEPT ![p] = 0] /\ code' = [code EXCEPT ![p] = "none"]
  /\ stopped' = [stopped EXCEPT ![p] = "no"] /\ beside' = [beside EXCEPT ![p] = FALSE]

Gone(p) ==
  /\ End(p) /\ Cleared(p)
  /\ migrating' = (IF migrating = p THEN Nobody ELSE migrating)
  /\ next' = [next EXCEPT ![p] = 0] /\ UNCHANGED <<schema, recorded>>

-----------------------------------------------------------------------------
(* A launch begins, and its gates.                                         *)

StartWrapped(p) ==
  /\ Begin(p, "launcher") /\ stage' = [stage EXCEPT ![p] = "preflight"]
  /\ wrapped' = [wrapped EXCEPT ![p] = TRUE]
  /\ UNCHANGED <<attempt, code, stopped, beside, schemaVars>>

StartDirect(p) ==
  /\ Begin(p, "launcher") /\ stage' = [stage EXCEPT ![p] = "gates"]
  /\ attempt' = [attempt EXCEPT ![p] = 1]
  /\ UNCHANGED <<wrapped, code, stopped, beside, schemaVars>>

StartStranger(p) == Begin(p, "stranger") /\ UNCHANGED <<attemptVars, schemaVars>>

\* validate_environment, once; EXIT_PREFLIGHT_FAILED ends the wrapper.
PreflightOk(p) ==
  /\ stage[p] = "preflight" /\ stage' = [stage EXCEPT ![p] = "gates"]
  /\ attempt' = [attempt EXCEPT ![p] = 1]
  /\ UNCHANGED <<lockVars, schemaVars, wrapped, code, stopped, beside>>

PreflightFails(p) == stage[p] = "preflight" /\ Gone(p)

\* LegacySystemStatus.active
LegacyActive(agent, stray) == agent # "INACTIVE" \/ stray

\* What launchctl answers of an agent that is loaded or not: it may not answer.
LaunchctlAnswers(loaded) == {IF loaded THEN "ACTIVE" ELSE "INACTIVE", "UNKNOWN"}

\* The runtime is disabled, the strategy asked for is not enabled.
Gated(p) ==
  /\ \/ Returns(p, "gates", "DISABLED")
     \/ ~wrapped[p] /\ Returns(p, "gates", "NOT_FOUND")
  /\ UNCHANGED <<lockVars, schemaVars>>

\* legacy_system_status, of an agent and of a process started without it.
LooksForLegacy(p, loaded, stray) ==
  /\ stage[p] = "gates"
  /\ \E agent \in LaunchctlAnswers(loaded) :
       LET refuses == LegacyActive(agent, stray) IN
       /\ stage' = [stage EXCEPT ![p] = IF refuses THEN "returned" ELSE "backup"]
       /\ code' = IF refuses THEN [code EXCEPT ![p] = "LEGACY"] ELSE code
  /\ beside' = [beside EXCEPT ![p] = loaded \/ stray]
  /\ UNCHANGED <<lockVars, schemaVars, wrapped, attempt, stopped>>

-----------------------------------------------------------------------------
(* Housekeeping, before the group's lock is taken.                         *)

Backup(p) == Goes(p, "backup", "migrate") /\ UNCHANGED <<lockVars, schemaVars, code>>

\* run_pending, with the versions read under the lock.
MigrationLock(p) ==
  /\ stage[p] = "migrate" /\ migrating = Nobody
  /\ Goes(p, "migrate", IF recorded THEN "unlock" ELSE "script")
  /\ migrating' = p /\ next' = [next EXCEPT ![p] = IF recorded THEN 0 ELSE 1]
  /\ UNCHANGED <<lockVars, schema, recorded, code>>

\* The lock's timeout: MigrationError.
MigrationTimeout(p) ==
  /\ migrating # Nobody /\ Returns(p, "migrate", "RAISED") /\ UNCHANGED <<lockVars, schemaVars>>

Insert == 0

\* Seeded bug: the version is recorded before its script has run.
RecordedFirst == [i \in 1..(NumStatements + 1) |-> i - 1]

\* _apply_one: the statements, then the INSERT of the version.
Script == [i \in 1..(NumStatements + 1) |-> IF i > NumStatements THEN Insert ELSE i]

\* Each commits by itself and is a no-op when repeated, but for the INSERT,
\* whose primary key refuses a second one.
ScriptStep(p) ==
  /\ stage[p] = "script" /\ next[p] \in DOMAIN Script
  /\ next' = [next EXCEPT ![p] = @ + 1]
  /\ \/ /\ Script[next[p]] # Insert /\ schema' = schema \cup {Script[next[p]]}
        /\ UNCHANGED <<recorded, migrating, attemptVars>>
     \/ /\ Script[next[p]] = Insert /\ recorded' = TRUE /\ UNCHANGED schema
        /\ IF recorded THEN Returns(p, "script", "RAISED") /\ migrating' = Nobody
           ELSE UNCHANGED <<attemptVars, migrating>>
  /\ UNCHANGED lockVars

ScriptDone(p) ==
  /\ next[p] > NumStatements + 1 /\ Goes(p, "script", "unlock")
  /\ next' = [next EXCEPT ![p] = 0]
  /\ UNCHANGED <<lockVars, migrating, schema, recorded, code>>

MigrationUnlock(p) ==
  /\ Goes(p, "unlock", "retain") /\ migrating' = Nobody
  /\ UNCHANGED <<lockVars, next, schema, recorded, code>>

\* run_retention, which may find the database busy.
Retain(p) ==
  /\ (Goes(p, "retain", "auth") /\ UNCHANGED code) \/ Returns(p, "retain", "RAISED")
  /\ UNCHANGED <<lockVars, schemaVars>>

\* The credentials and AuthBootstrap.get_token.
Authenticate(p) ==
  /\ \/ Goes(p, "auth", "acquire") /\ UNCHANGED code
     \/ \E c \in {"NO_CREDENTIALS", "FAILED"} : Returns(p, "auth", c)
  /\ UNCHANGED <<lockVars, schemaVars>>

-----------------------------------------------------------------------------
(* IntradayOptionsSupervisor.run.                                          *)

TakesLock(p) ==
  /\ stage[p] = "acquire"
  /\ \/ Acquire(p) /\ UNCHANGED attemptVars
     \/ Sweep(p) /\ UNCHANGED attemptVars
     \/ Win(p) /\ UNCHANGED attemptVars
     \/ WritePid(p) /\ Goes(p, "acquire", "starting") /\ UNCHANGED code
     \/ Refused(p) /\ Returns(p, "acquire", "RAISED")
  /\ UNCHANGED schemaVars

\* Spawning the workers; then the handlers are installed and the feed runs.
SpawnsAndRuns(p) == Goes(p, "starting", "running") /\ UNCHANGED <<lockVars, schemaVars, code>>

\* The feed ends, or the handler's flag is seen, or something raises; a raise
\* after the signal leaves stopped_by_signal unread.
Leaves(p) ==
  /\ \E c \in {"OK", "SAFETY", "RAISED"} :
       /\ c = (IF stopped[p] = "signalled" THEN "SAFETY" ELSE "OK") \/ c = "RAISED"
       /\ stage[p] = "starting" => c = "RAISED"
       /\ code' = [code EXCEPT ![p] = c]
       /\ stopped' = IF stopped[p] = "signalled" /\ c = "RAISED"
                     THEN [stopped EXCEPT ![p] = "lost"] ELSE stopped
  /\ stage[p] \in {"starting", "running"} /\ stage' = [stage EXCEPT ![p] = "release"]
  /\ UNCHANGED <<lockVars, schemaVars, wrapped, attempt, beside>>

FreesLock(p) ==
  /\ stage[p] = "release"
  /\ Unlock(p) \/ CheckRecord(p) \/ RemoveRecord(p)
  /\ stage' = [stage EXCEPT ![p] = IF phase'[p] = "out" THEN "returned" ELSE "release"]
  /\ UNCHANGED <<schemaVars, wrapped, attempt, code, stopped, beside>>

-----------------------------------------------------------------------------
(* supervised_launch.run, once main has returned or raised.                *)

\* Seeded bug: the attempts are not counted.
NeverExhausted(p) == FALSE

Exhausted(p) == attempt[p] >= MaxLaunchAttempts

\* A direct start ends with the code, the wrapper with a terminal one.
Finishes(p) ==
  /\ stage[p] = "returned" /\ (wrapped[p] => IsTerminal(code[p]))
  /\ Gone(p)

\* _record_attempt, then the backoff unless this was the last attempt.
RecordsAttempt(p) ==
  /\ stage[p] = "returned" /\ wrapped[p] /\ ~IsTerminal(code[p])
  /\ stage' = [stage EXCEPT ![p] = IF Exhausted(p) THEN "gave_up" ELSE "backoff"]
  /\ UNCHANGED <<lockVars, schemaVars, wrapped, attempt, code, stopped, beside>>

\* It opens and migrates the database outside the try: a raise ends the wrapper.
RecordRaises(p) == stage[p] = "returned" /\ wrapped[p] /\ Gone(p)

Retries(p) ==
  /\ stage[p] = "backoff" /\ stage' = [stage EXCEPT ![p] = "gates"]
  /\ attempt' = [attempt EXCEPT ![p] = (@ % MaxLaunchAttempts) + 1]
  /\ code' = [code EXCEPT ![p] = "none"]
  /\ UNCHANGED <<lockVars, schemaVars, wrapped, stopped, beside>>

GivesUp(p) == stage[p] = "gave_up" /\ Gone(p)

-----------------------------------------------------------------------------
(* The outside.                                                            *)

\* shutdown_signals: the handler only notes that a signal came.
Signalled(p) ==
  /\ stopped' = [stopped EXCEPT ![p] = "signalled"]
  /\ UNCHANGED <<lockVars, schemaVars, stage, wrapped, attempt, code, beside>>

\* terminate_verified_owner: SIGTERM reaches the handler of a running feed;
\* anywhere else it ends the process where it stands.
Stop ==
  /\ VerifiedOwner(pidFile)
  /\ LET p == pidFile.pid IN
       IF stage[p] = "running" THEN Signalled(p) ELSE Gone(p)

Killed(p) == Gone(p)

Step(p) ==
  \/ PreflightOk(p) \/ PreflightFails(p) \/ Gated(p)
  \/ \E loaded, stray \in BOOLEAN : LooksForLegacy(p, loaded, stray)
  \/ Backup(p) \/ MigrationLock(p) \/ MigrationTimeout(p) \/ ScriptStep(p) \/ ScriptDone(p)
  \/ MigrationUnlock(p) \/ Retain(p) \/ Authenticate(p)
  \/ TakesLock(p) \/ SpawnsAndRuns(p) \/ FreesLock(p)
  \/ stopped[p] = "signalled" /\ Leaves(p)
  \/ Finishes(p) \/ RecordsAttempt(p) \/ RecordRaises(p) \/ Retries(p) \/ GivesUp(p)

LaunchNext ==
  \/ Stop
  \/ \E p \in Pids : \/ StartWrapped(p) \/ StartDirect(p) \/ StartStranger(p)
                     \/ Step(p) \/ Leaves(p) \/ Killed(p)

\* A process that can go on does; a running group may go on for ever.
LaunchSpec == LaunchInit /\ [][LaunchNext]_launchVars /\ \A p \in Pids : WF_launchVars(Step(p))
=============================================================================
