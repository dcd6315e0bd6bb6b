---------------------------- MODULE TokenBootstrap ----------------------------
(***************************************************************************)
(* AuthBootstrap over the token cache and the rejection cooldown, run by   *)
(* several processes at once: supervisors and scripts starting together,   *)
(* a refresh, crashes at any step, answers of the login server that do not *)
(* arrive, and an operator who corrects the PIN or clears the cooldown.    *)
(* No token is given in the environment (one that is used touches nothing  *)
(* here).  Tokens are numbered in the order the server mints them.         *)
(***************************************************************************)
EXTENDS Integers

CONSTANTS Procs, Nobody,
          RetryCount,          \* retry_count
          MaxTokens, MaxCrashes, MaxLost  \* bounds

ASSUME BootstrapAssumption ==
  /\ RetryCount \in Nat \ {0} /\ Nobody \notin Procs
  /\ MaxTokens \in Nat /\ MaxCrashes \in Nat /\ MaxLost \in Nat

VARIABLES
  \* --- files
  cache,      \* the cached token; 0 for none
  cooldown,   \* a rejection is recorded and in force
  lock,       \* who holds the refresh lock, which dies with its holder
  \* --- the login server
  minted,     \* the last token minted
  pinRight,   \* whether it would accept the credentials in .env
  stale,      \* tokens within the margin of their expiry
  \* --- the processes
  pc, replacing, attempt, answer, result,
  \* --- history
  rejections, \* rejected requests since the cooldown last ran out or was
              \* cleared, or the credentials changed
  unheard,    \* an answer of the server was lost, or its hearer crashed
  crashes, losses

files == <<cache, cooldown, lock>>
server == <<minted, pinRight, stale>>
process == <<pc, replacing, attempt, answer, result>>
history == <<rejections, unheard, crashes, losses>>
vars == <<files, server, process, history>>

None == 0
Unconditional == -1      \* replacing, of a refresh that names no token
Failure == -1    \* result, of a call that raised

Init ==
  /\ cache = None /\ cooldown = FALSE /\ lock = Nobody
  /\ minted = 0 /\ pinRight \in BOOLEAN /\ stale = {}
  /\ pc = [p \in Procs |-> "idle"] /\ replacing = [p \in Procs |-> None]
  /\ attempt = [p \in Procs |-> 0] /\ answer = [p \in Procs |-> None]
  /\ result = [p \in Procs |-> None]
  /\ rejections = 0 /\ unheard = FALSE /\ crashes = 0 /\ losses = 0

Usable(t) == t # None /\ t \notin stale

Go(p, to) == pc' = [pc EXCEPT ![p] = to]

\* The call returns or raises; the lock is released if it is held, and what
\* the call knew is gone.
Finish(p, r) ==
  /\ Go(p, "idle") /\ result' = [result EXCEPT ![p] = r]
  /\ lock' = IF lock = p THEN Nobody ELSE lock
  /\ replacing' = [replacing EXCEPT ![p] = None]
  /\ attempt' = [attempt EXCEPT ![p] = 0] /\ answer' = [answer EXCEPT ![p] = None]

Begin(p, r) ==
  /\ Go(p, "gate") /\ replacing' = [replacing EXCEPT ![p] = r]
  /\ result' = [result EXCEPT ![p] = None] /\ UNCHANGED <<lock, attempt, answer>>

-----------------------------------------------------------------------------
(* get_token, refresh, and _generate up to the login.                      *)

GetToken(p) ==
  /\ pc[p] = "idle"
  /\ IF Usable(cache) THEN Finish(p, cache) ELSE Begin(p, None)
  /\ UNCHANGED <<cache, cooldown, server, history>>

\* auth_bootstrap.py --refresh: the token to replace is the cached one.
Refresh(p) ==
  /\ pc[p] = "idle" /\ Begin(p, IF cache = None THEN Unconditional ELSE cache)
  /\ UNCHANGED <<cache, cooldown, server, history>>

Blocked == cooldown

Gate(p) ==
  /\ pc[p] = "gate"
  /\ IF Blocked THEN Finish(p, Failure)
                ELSE Go(p, "wait") /\ UNCHANGED <<lock, replacing, attempt, answer, result>>
  /\ UNCHANGED <<cache, cooldown, server, history>>

\* Seeded bug: a process that finds the lock held goes on without it.
Unlocked(p) == TRUE

LockFree(p) == lock = Nobody

Acquire(p) ==
  /\ pc[p] = "wait" /\ LockFree(p) /\ lock' = p /\ Go(p, "locked")
  /\ UNCHANGED <<cache, cooldown, server, replacing, attempt, answer, result, history>>

\* refresh_lock's timeout raises rather than fall through.
LockTimeout(p) ==
  /\ pc[p] = "wait" /\ lock # Nobody /\ Finish(p, Failure)
  /\ UNCHANGED <<cache, cooldown, server, history>>

\* Seeded bug: the second look at the cache forgets which token is dead.
AnyUsable(p) == Usable(cache) /\ replacing[p] # Unconditional

\* Another process minted one while this one waited.
MintedMeanwhile(p) == Usable(cache) /\ replacing[p] # Unconditional /\ cache # replacing[p]

Recheck(p) ==
  /\ pc[p] = "locked"
  /\ IF MintedMeanwhile(p) THEN Finish(p, cache)
     ELSE IF Blocked       THEN Finish(p, Failure)
     ELSE /\ Go(p, "login") /\ attempt' = [attempt EXCEPT ![p] = 1]
          /\ UNCHANGED <<lock, replacing, answer, result>>
  /\ UNCHANGED <<cache, cooldown, server, history>>

-----------------------------------------------------------------------------
(* One login attempt.                                                      *)

\* Seeded bug: the loop starts its count over and never gives up.
NeverGivesUp(p) ==
  /\ attempt' = [attempt EXCEPT ![p] = (@ % RetryCount) + 1]
  /\ UNCHANGED <<pc, lock, replacing, answer, result>>

\* No token came, and no verdict that is known of: another attempt, or the end.
Transient(p) ==
  IF attempt[p] < RetryCount
    THEN /\ attempt' = [attempt EXCEPT ![p] = @ + 1]
         /\ UNCHANGED <<pc, lock, replacing, answer, result>>
    ELSE Finish(p, Failure)

\* The server was not reached, or failed before it decided.
NoContact(p) ==
  /\ pc[p] = "login" /\ Transient(p)
  /\ UNCHANGED <<cache, cooldown, server, history>>

Heard(p, what, a) ==
  /\ Go(p, what) /\ answer' = [answer EXCEPT ![p] = a]
  /\ UNCHANGED <<lock, replacing, attempt, result, unheard, losses>>

\* The response is lost: to the caller a network error like any other.
Lost(p) ==
  /\ losses < MaxLost /\ losses' = losses + 1
  /\ unheard' = TRUE /\ Transient(p)

Accepted(p) ==
  /\ pc[p] = "login" /\ pinRight /\ minted < MaxTokens /\ minted' = minted + 1
  /\ \/ Heard(p, "minted", minted + 1)
     \/ Lost(p)
  /\ UNCHANGED <<cache, cooldown, pinRight, stale, rejections, crashes>>

Rejected(p) ==
  /\ pc[p] = "login" /\ ~pinRight /\ rejections' = rejections + 1
  /\ \/ Heard(p, "rejected", None)
     \/ Lost(p)
  /\ UNCHANGED <<cache, cooldown, server, crashes>>

\* Too soon after another: permanent for this call, and nothing is recorded.
RateLimited(p) ==
  /\ pc[p] = "login" /\ minted > 0 /\ Finish(p, Failure)
  /\ UNCHANGED <<cache, cooldown, server, history>>

-----------------------------------------------------------------------------
(* What the answer leaves behind.                                          *)

\* Seeded bug: the rejection is not recorded.
NotRecorded == cooldown

Recorded == TRUE

RecordRejection(p) ==
  /\ pc[p] = "rejected" /\ cooldown' = Recorded /\ Finish(p, Failure)
  /\ UNCHANGED <<cache, server, history>>

\* _persist: the cooldown first, then the cache.
ClearCooldown(p) ==
  /\ pc[p] = "minted" /\ cooldown' = FALSE /\ rejections' = 0 /\ Go(p, "save")
  /\ UNCHANGED <<cache, lock, server, replacing, attempt, answer, result, unheard, crashes, losses>>

Save(p) ==
  /\ pc[p] = "save" /\ cache' = answer[p] /\ Finish(p, answer[p])
  /\ UNCHANGED <<cooldown, server, history>>

-----------------------------------------------------------------------------

Crash(p) ==
  /\ pc[p] # "idle" /\ crashes < MaxCrashes /\ crashes' = crashes + 1
  /\ Finish(p, Failure)
  /\ unheard' = (unheard \/ pc[p] \in {"rejected", "minted", "save"})
  /\ UNCHANGED <<cache, cooldown, server, rejections, losses>>

\* The cached token nears its end.
Expire ==
  /\ Usable(cache) /\ stale' = stale \cup {cache}
  /\ UNCHANGED <<files, minted, pinRight, process, history>>

\* The PIN in .env is corrected, or spoilt.
ChangePin ==
  /\ \A p \in Procs : pc[p] = "idle"
  /\ pinRight' = ~pinRight /\ rejections' = 0
  /\ UNCHANGED <<files, minted, stale, process, unheard, crashes, losses>>

\* Its ten minutes are over, or --force.
CooldownEnds ==
  /\ cooldown /\ cooldown' = FALSE /\ rejections' = 0
  /\ UNCHANGED <<cache, lock, server, process, unheard, crashes, losses>>

Call(p) == GetToken(p) \/ Refresh(p)

Step(p) == Gate(p) \/ Acquire(p) \/ LockTimeout(p) \/ Recheck(p) \/ NoContact(p)
           \/ Accepted(p) \/ Rejected(p) \/ RateLimited(p)
           \/ RecordRejection(p) \/ ClearCooldown(p) \/ Save(p)

Next ==
  \/ \E p \in Procs : Call(p) \/ Step(p) \/ Crash(p)
  \/ Expire \/ ChangePin \/ CooldownEnds

Spec == Init /\ [][Next]_vars

\* A process that is in a call goes on with it.
FairSpec == Spec /\ \A p \in Procs : WF_vars(Step(p))

-----------------------------------------------------------------------------

TypeOK ==
  /\ cache \in 0 .. minted /\ minted \in 0 .. MaxTokens
  /\ lock \in Procs \cup {Nobody}
  /\ pc \in [Procs -> {"idle", "gate", "wait", "locked", "login", "minted", "rejected", "save"}]
  /\ \A p \in Procs : pc[p] \in {"locked", "login", "minted", "rejected", "save"} => lock = p
  /\ result \in [Procs -> Failure .. MaxTokens]

Requests(p) == Accepted(p) \/ Rejected(p) \/ NoContact(p) \/ RateLimited(p)

\* "N workers starting together must produce one login" (token_cache.py): no
\* request goes out while the cache holds a usable token, unless a refresh
\* is replacing that one or was told to login whatever it holds.
OneLoginForAll ==
  [][\A p \in Procs : Requests(p) =>
        ~Usable(cache) \/ replacing[p] \in {Unconditional, cache}]_vars

\* Nothing is asked of the server while a rejection is in force.
NoRequestInCooldown == [][\A p \in Procs : Requests(p) => ~cooldown]_vars

\* "A wrong PIN costs exactly one request" (bootstrap.py), when every verdict
\* is heard.
OneRejectionEach == ~unheard => rejections <= 1

\* "The known-bad token is never handed back" (bootstrap.py).
NeverTheDeadOne ==
  [][\A p \in Procs : result'[p] # result[p] /\ result'[p] > 0 => result'[p] # replacing[p]]_vars

\* The cache never goes back to an older token.
CacheOnlyAdvances == [][cache' >= cache]_vars

\* Every call comes back, with a token or without.
EveryCallReturns == \A p \in Procs : pc[p] # "idle" ~> pc[p] = "idle"

\* "A wrong PIN costs exactly one request."
WrongPinCostsOneRequest == rejections <= 1
=============================================================================
