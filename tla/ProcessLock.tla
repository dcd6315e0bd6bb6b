----------------------------- MODULE ProcessLock -----------------------------
(***************************************************************************)
(* One identity's ProcessLock: the flock, which the operating system frees *)
(* with its holder, and the PID file beside it, which names the holder by  *)
(* PID and creation time.  A PID is a slot that processes reuse; what tells *)
(* two of them apart is "born".  Reading the PID file and removing it are  *)
(* two steps, in acquire's sweep and in release; so are winning the flock  *)
(* and writing the record.  An operator's stop verifies the record and     *)
(* signals at once.                                                        *)
(***************************************************************************)
EXTENDS Naturals

CONSTANTS Pids, MaxBorn  \* PIDs; processes each of them may be given to

VARIABLES
  life,     \* "dead", "launcher" or "stranger", an unrelated process
  born,     \* create_time of the process at each PID
  holder,   \* who has the flock, or Nobody
  pidFile,  \* LockOwner on disk, or NoFile
  phase     \* where a launcher is in acquire or release

lockVars == <<life, born, holder, pidFile, phase>>

Nobody == "nobody"
NoFile == [pid |-> Nobody, born |-> 0]

ASSUME LockAssumption == MaxBorn \in Nat \ {0} /\ Nobody \notin Pids

LockInit ==
  /\ life = [p \in Pids |-> "dead"] /\ born = [p \in Pids |-> 0]
  /\ holder = Nobody /\ pidFile = NoFile /\ phase = [p \in Pids |-> "out"]

-----------------------------------------------------------------------------
\* Seeded bug: a live process at the recorded PID is believed to be the owner.
LivePid(f) == f # NoFile /\ life[f.pid] # "dead"

LockOwner(p) == [pid |-> p, born |-> born[p]]

\* _verified_owner
VerifiedOwner(f) == f # NoFile /\ life[f.pid] # "dead" /\ born[f.pid] = f.born

\* Seeded bug: any PID file is a lock, an orphan's too.
NoPidFile(p) == pidFile = NoFile

\* FileLock.acquire succeeds.
Free(p) == holder = Nobody

At(p, from, to) == phase[p] = from /\ phase' = [phase EXCEPT ![p] = to]

-----------------------------------------------------------------------------
\* acquire: clear_stale_pid_file has read the file.
Acquire(p) ==
  /\ phase[p] = "out"
  /\ phase' = [phase EXCEPT ![p] =
       IF VerifiedOwner(pidFile) \/ pidFile = NoFile THEN "contend" ELSE "sweep"]
  /\ UNCHANGED <<life, born, holder, pidFile>>

\* ... and removes what it found stale, whatever is there by now.
Sweep(p) ==
  /\ At(p, "sweep", "contend") /\ pidFile' = NoFile
  /\ UNCHANGED <<life, born, holder>>

Win(p) ==
  /\ Free(p) /\ At(p, "contend", "won") /\ holder' = p
  /\ UNCHANGED <<life, born, pidFile>>

\* DuplicateProcessError
Refused(p) ==
  /\ ~Free(p) /\ At(p, "contend", "out")
  /\ UNCHANGED <<life, born, holder, pidFile>>

\* _write_pid_file
WritePid(p) ==
  /\ At(p, "won", "held") /\ pidFile' = LockOwner(p)
  /\ UNCHANGED <<life, born, holder>>

\* release: the flock first,
Unlock(p) ==
  /\ At(p, "held", "unlocked") /\ holder' = IF holder = p THEN Nobody ELSE holder
  /\ UNCHANGED <<life, born, pidFile>>

\* then the record, if its PID is this process's own.
CheckRecord(p) ==
  /\ At(p, "unlocked", IF pidFile.pid = p THEN "remove" ELSE "out")
  /\ UNCHANGED <<life, born, holder, pidFile>>

RemoveRecord(p) ==
  /\ At(p, "remove", "out") /\ pidFile' = NoFile
  /\ UNCHANGED <<life, born, holder>>

-----------------------------------------------------------------------------
\* A process begins at a PID that is free.
Begin(p, kind) ==
  /\ life[p] = "dead" /\ born[p] < MaxBorn
  /\ life' = [life EXCEPT ![p] = kind] /\ born' = [born EXCEPT ![p] = @ + 1]
  /\ UNCHANGED <<holder, pidFile, phase>>

\* It ends, or is killed: the flock goes with it, the PID file stays.
End(p) ==
  /\ life[p] # "dead"
  /\ life' = [life EXCEPT ![p] = "dead"] /\ phase' = [phase EXCEPT ![p] = "out"]
  /\ holder' = IF holder = p THEN Nobody ELSE holder
  /\ UNCHANGED <<born, pidFile>>
=============================================================================
