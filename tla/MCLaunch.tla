------------------------------ MODULE MCLaunch -------------------------------
(* Launch for TLC: two PIDs, each given to two processes at most, so that a  *)
(* killed holder's PID can come back as a launcher or as a stranger; two     *)
(* attempts; a migration of two statements.                                  *)
EXTENDS Launch

Runs(p) == stage[p] \in {"starting", "running", "release"} /\ phase[p] = "held"

-----------------------------------------------------------------------------
(* The flock is held exactly between winning and releasing it, the          *)
(* migration lock exactly by who is at it, and only by the living.          *)
LaunchTypeOK ==
  /\ \A p \in Pids :
       /\ life[p] # "launcher" => phase[p] = "out" /\ stage[p] = "off"
       /\ phase[p] # "out" => stage[p] \in {"acquire", "starting", "running", "release"}
       /\ (holder = p) = (phase[p] \in {"won", "held"})
       /\ (migrating = p) => stage[p] \in {"script", "unlock"}
       /\ attempt[p] \in 0..MaxLaunchAttempts /\ next[p] \in 0..(NumStatements + 2)
  /\ schema \subseteq 1..NumStatements

(* Duplicate launches, crashes and retries notwithstanding, one supervisor  *)
(* at a time spawns workers, trades or closes down.                         *)
OneSupervisor == \A p, q \in Pids : Runs(p) /\ Runs(q) => p = q

(* A record that verifies names the process that wrote it, alive and at its *)
(* lock: an orphan whose PID was given to another process never verifies,   *)
(* so stop_runtime signals no stranger and no launcher outside the lock.    *)
RecordNamesItsWriter ==
  VerifiedOwner(pidFile) =>
    life[pidFile.pid] = "launcher" /\ phase[pidFile.pid] \in {"held", "unlocked", "remove"}

(* A launch is refused only while another living process has the flock: an  *)
(* orphaned PID file, or the lock of a killed holder, blocks nobody.        *)
RefusedOnlyByTheLiving ==
  [][\A p \in Pids : phase[p] = "contend" /\ phase'[p] = "out" /\ life'[p] # "dead" =>
       \E q \in Pids \ {p} : holder = q /\ life[q] = "launcher"]_launchVars

(* No group trades on a schema that is not whole, whichever launch was      *)
(* killed in the middle of the migration; and a recorded version is whole.  *)
SchemaIsWhole ==
  /\ recorded => schema = 1..NumStatements
  /\ \A p \in Pids : Runs(p) => recorded

(* The old system and this one never run together: an attempt that found    *)
(* the legacy system up, by an agent or by a bare process, got no further.  *)
NeverBesideLegacy == \A p \in Pids : beside[p] => stage[p] \in {"returned", "backoff", "gave_up", "gates"}

(* A stop that the run obeyed is final: the wrapper makes no other attempt. *)
StopIsFinal ==
  \A p \in Pids : stopped[p] = "signalled" => stage[p] \in {"running", "release", "returned"}

(* One group, told apart from everything else on the machine.               *)
LaunchIsSound == LaunchTypeOK /\ OneSupervisor /\ RecordNamesItsWriter /\ NeverBesideLegacy /\ StopIsFinal

(* A launch that got past its gates runs or is over: its attempts, its      *)
(* backoffs and its waits for locks all come to an end.                     *)
EveryLaunchSettles ==
  \A p \in Pids : (stage[p] = "gates") ~> (stage[p] = "running" \/ life[p] = "dead")
=============================================================================
