---------------------------- MODULE ServicesProofs ----------------------------
(***************************************************************************)
(* Theorems about what every worker is served with: the login that the     *)
(* processes of a machine share, for any number of processes, tokens,      *)
(* crashes and retries, and the notifications of one of them, for any      *)
(* queue, window and number of sends.                                      *)
(***************************************************************************)
EXTENDS TokenBootstrap, MCNotifier, SumTheorems, TLAPS

-----------------------------------------------------------------------------
(* The login.  Everything rests on the refresh lock: whoever is between    *)
(* its second look at the cache and the end of the call holds it, so what  *)
(* it saw there stays true until it acts on it.                            *)

Holding == {"locked", "login", "minted", "rejected", "save"}

TypeInv ==
  /\ minted \in 0 .. MaxTokens /\ cache \in 0 .. minted
  /\ lock \in Procs \cup {Nobody}
  /\ pc \in [Procs -> {"idle", "gate", "wait", "locked", "login", "minted", "rejected", "save"}]
  /\ replacing \in [Procs -> Unconditional .. MaxTokens]
  /\ attempt \in [Procs -> Nat]
  /\ answer \in [Procs -> 0 .. MaxTokens]
  /\ result \in [Procs -> Failure .. MaxTokens]
  /\ rejections \in Nat

\* Only the holder of the lock is past it.
Exclusive == \A p \in Procs : pc[p] \in Holding => lock = p

\* A token to be replaced is one that had been minted before.
ReplacingIsOld == \A p \in Procs : replacing[p] <= minted
IdleReplacesNothing == \A p \in Procs : pc[p] = "idle" => replacing[p] = None

\* A token that was heard is the newest there is, and newer than the one it
\* replaces.
AnswerIsNew ==
  \A p \in Procs : pc[p] \in {"minted", "save"} => answer[p] = minted /\ replacing[p] < minted

\* What the second look established still holds when the request goes out.
LoginIsDue ==
  \A p \in Procs : pc[p] = "login" =>
    /\ ~cooldown
    /\ ~Usable(cache) \/ replacing[p] \in {Unconditional, cache}

\* While no verdict was missed, a counted rejection is either recorded or
\* about to be.
VerdictIsKept ==
  ~unheard =>
    /\ rejections <= 1
    /\ rejections = 1 => cooldown \/ \E p \in Procs : pc[p] = "rejected"

Inv == /\ TypeInv /\ Exclusive /\ ReplacingIsOld /\ IdleReplacesNothing
       /\ AnswerIsNew /\ LoginIsDue /\ VerdictIsKept

-----------------------------------------------------------------------------

\* It holds at the start.
LEMMA InitInv == Init => Inv
BY BootstrapAssumption
   DEF Init, Inv, TypeInv, Exclusive, ReplacingIsOld, IdleReplacesNothing,
   AnswerIsNew, LoginIsDue, VerdictIsKept, Holding, None, Unconditional, Failure

\* Types; the cache is given a token that was minted.
LEMMA TypeStep == TypeInv /\ AnswerIsNew /\ [Next]_vars => TypeInv'
<1> SUFFICES ASSUME TypeInv /\ AnswerIsNew, [Next]_vars PROVE TypeInv'
  OBVIOUS
<1> USE BootstrapAssumption DEF TypeInv, AnswerIsNew, None, Unconditional, Failure, Holding,
       server, process, history, files
<1>1. ASSUME NEW p \in Procs, Call(p) \/ Step(p) \/ Crash(p)
      PROVE  TypeInv'
  <2>1. CASE GetToken(p)
    BY <2>1 DEF GetToken, Begin, Finish, Go, Usable
  <2>2. CASE Refresh(p)
    BY <2>2 DEF Refresh, Begin, Go
  <2>3. CASE Gate(p)
    BY <2>3 DEF Gate, Finish, Go
  <2>4. CASE Acquire(p)
    BY <2>4 DEF Acquire, LockFree, Go
  <2>5. CASE LockTimeout(p)
    BY <2>5 DEF LockTimeout, Finish, Go
  <2>6. CASE Recheck(p)
    BY <2>6 DEF Recheck, Finish, Go, MintedMeanwhile, Usable
  <2>7. CASE NoContact(p)
    BY <2>7 DEF NoContact, Transient, Finish, Go
  <2>8. CASE Accepted(p)
    BY <2>8 DEF Accepted, Heard, Lost, Transient, Finish, Go
  <2>9. CASE Rejected(p)
    BY <2>9 DEF Rejected, Heard, Lost, Transient, Finish, Go
  <2>10. CASE RateLimited(p)
    BY <2>10 DEF RateLimited, Finish, Go
  <2>11. CASE RecordRejection(p)
    BY <2>11 DEF RecordRejection, Recorded, Finish, Go
  <2>12. CASE ClearCooldown(p)
    BY <2>12 DEF ClearCooldown, Go
  <2>13. CASE Save(p)
    BY <2>13 DEF Save, Finish, Go
  <2>14. CASE Crash(p)
    BY <2>14 DEF Crash, Finish, Go
  <2> QED  BY <1>1, <2>1, <2>2, <2>3, <2>4, <2>5, <2>6, <2>7, <2>8,
             <2>9, <2>10, <2>11, <2>12, <2>13, <2>14 DEF Call, Step
<1>2. CASE Expire
  BY <1>2 DEF Expire, Usable
<1>3. CASE ChangePin
  BY <1>3 DEF ChangePin, Usable
<1>4. CASE CooldownEnds
  BY <1>4 DEF CooldownEnds, Usable
<1>5. CASE UNCHANGED vars
  BY <1>5 DEF vars, Usable
<1> QED  BY <1>1, <1>2, <1>3, <1>4, <1>5 DEF Next

\* Only Acquire enters, and only when the lock is free.
LEMMA ExclusiveStep == TypeInv /\ Exclusive /\ [Next]_vars => Exclusive'
<1> SUFFICES ASSUME TypeInv /\ Exclusive, [Next]_vars PROVE Exclusive'
  OBVIOUS
<1> USE BootstrapAssumption DEF TypeInv, Exclusive, None, Unconditional, Failure, Holding,
       server, process, history, files
<1>1. ASSUME NEW p \in Procs, Call(p) \/ Step(p) \/ Crash(p)
      PROVE  Exclusive'
  <2>1. CASE GetToken(p)
    BY <2>1 DEF GetToken, Begin, Finish, Go, Usable
  <2>2. CASE Refresh(p)
    BY <2>2 DEF Refresh, Begin, Go
  <2>3. CASE Gate(p)
    BY <2>3 DEF Gate, Finish, Go
  <2>4. CASE Acquire(p)
    BY <2>4 DEF Acquire, LockFree, Go
  <2>5. CASE LockTimeout(p)
    BY <2>5 DEF LockTimeout, Finish, Go
  <2>6. CASE Recheck(p)
    BY <2>6 DEF Recheck, Finish, Go, MintedMeanwhile, Usable
  <2>7. CASE NoContact(p)
    BY <2>7 DEF NoContact, Transient, Finish, Go
  <2>8. CASE Accepted(p)
    BY <2>8 DEF Accepted, Heard, Lost, Transient, Finish, Go
  <2>9. CASE Rejected(p)
    BY <2>9 DEF Rejected, Heard, Lost, Transient, Finish, Go
  <2>10. CASE RateLimited(p)
    BY <2>10 DEF RateLimited, Finish, Go
  <2>11. CASE RecordRejection(p)
    BY <2>11 DEF RecordRejection, Recorded, Finish, Go
  <2>12. CASE ClearCooldown(p)
    BY <2>12 DEF ClearCooldown, Go
  <2>13. CASE Save(p)
    BY <2>13 DEF Save, Finish, Go
  <2>14. CASE Crash(p)
    BY <2>14 DEF Crash, Finish, Go
  <2> QED  BY <1>1, <2>1, <2>2, <2>3, <2>4, <2>5, <2>6, <2>7, <2>8,
             <2>9, <2>10, <2>11, <2>12, <2>13, <2>14 DEF Call, Step
<1>2. CASE Expire
  BY <1>2 DEF Expire, Usable
<1>3. CASE ChangePin
  BY <1>3 DEF ChangePin, Usable
<1>4. CASE CooldownEnds
  BY <1>4 DEF CooldownEnds, Usable
<1>5. CASE UNCHANGED vars
  BY <1>5 DEF vars, Usable
<1> QED  BY <1>1, <1>2, <1>3, <1>4, <1>5 DEF Next

\* A call names the token it found, and forgets it at the end.
LEMMA ReplacingStep ==
  TypeInv /\ ReplacingIsOld /\ IdleReplacesNothing /\ [Next]_vars => (ReplacingIsOld /\ IdleReplacesNothing)'
<1> SUFFICES ASSUME TypeInv /\ ReplacingIsOld /\ IdleReplacesNothing, [Next]_vars
             PROVE (ReplacingIsOld /\ IdleReplacesNothing)'
  OBVIOUS
<1> USE BootstrapAssumption
       DEF TypeInv, ReplacingIsOld, IdleReplacesNothing, None, Unconditional, Failure, Holding,
       server, process, history, files
<1>1. ASSUME NEW p \in Procs, Call(p) \/ Step(p) \/ Crash(p)
      PROVE  (ReplacingIsOld /\ IdleReplacesNothing)'
  <2>1. CASE GetToken(p)
    BY <2>1 DEF GetToken, Begin, Finish, Go, Usable
  <2>2. CASE Refresh(p)
    BY <2>2 DEF Refresh, Begin, Go
  <2>3. CASE Gate(p)
    BY <2>3 DEF Gate, Finish, Go
  <2>4. CASE Acquire(p)
    BY <2>4 DEF Acquire, LockFree, Go
  <2>5. CASE LockTimeout(p)
    BY <2>5 DEF LockTimeout, Finish, Go
  <2>6. CASE Recheck(p)
    BY <2>6 DEF Recheck, Finish, Go, MintedMeanwhile, Usable
  <2>7. CASE NoContact(p)
    BY <2>7 DEF NoContact, Transient, Finish, Go
  <2>8. CASE Accepted(p)
    BY <2>8 DEF Accepted, Heard, Lost, Transient, Finish, Go
  <2>9. CASE Rejected(p)
    BY <2>9 DEF Rejected, Heard, Lost, Transient, Finish, Go
  <2>10. CASE RateLimited(p)
    BY <2>10 DEF RateLimited, Finish, Go
  <2>11. CASE RecordRejection(p)
    BY <2>11 DEF RecordRejection, Recorded, Finish, Go
  <2>12. CASE ClearCooldown(p)
    BY <2>12 DEF ClearCooldown, Go
  <2>13. CASE Save(p)
    BY <2>13 DEF Save, Finish, Go
  <2>14. CASE Crash(p)
    BY <2>14 DEF Crash, Finish, Go
  <2> QED  BY <1>1, <2>1, <2>2, <2>3, <2>4, <2>5, <2>6, <2>7, <2>8,
             <2>9, <2>10, <2>11, <2>12, <2>13, <2>14 DEF Call, Step
<1>2. CASE Expire
  BY <1>2 DEF Expire, Usable
<1>3. CASE ChangePin
  BY <1>3 DEF ChangePin, Usable
<1>4. CASE CooldownEnds
  BY <1>4 DEF CooldownEnds, Usable
<1>5. CASE UNCHANGED vars
  BY <1>5 DEF vars, Usable
<1> QED  BY <1>1, <1>2, <1>3, <1>4, <1>5 DEF Next

\* Nobody else is at the server while an answer is in hand.
LEMMA AnswerStep ==
  TypeInv /\ Exclusive /\ ReplacingIsOld /\ AnswerIsNew /\ [Next]_vars => AnswerIsNew'
<1> SUFFICES ASSUME TypeInv /\ Exclusive /\ ReplacingIsOld /\ AnswerIsNew, [Next]_vars
             PROVE AnswerIsNew'
  OBVIOUS
<1> USE BootstrapAssumption
       DEF TypeInv, Exclusive, ReplacingIsOld, AnswerIsNew, None, Unconditional, Failure, Holding,
       server, process, history, files
<1>1. ASSUME NEW p \in Procs, Call(p) \/ Step(p) \/ Crash(p)
      PROVE  AnswerIsNew'
  <2>1. CASE GetToken(p)
    BY <2>1 DEF GetToken, Begin, Finish, Go, Usable
  <2>2. CASE Refresh(p)
    BY <2>2 DEF Refresh, Begin, Go
  <2>3. CASE Gate(p)
    BY <2>3 DEF Gate, Finish, Go
  <2>4. CASE Acquire(p)
    BY <2>4 DEF Acquire, LockFree, Go
  <2>5. CASE LockTimeout(p)
    BY <2>5 DEF LockTimeout, Finish, Go
  <2>6. CASE Recheck(p)
    BY <2>6 DEF Recheck, Finish, Go, MintedMeanwhile, Usable
  <2>7. CASE NoContact(p)
    BY <2>7 DEF NoContact, Transient, Finish, Go
  <2>8. CASE Accepted(p)
    BY <2>8 DEF Accepted, Heard, Lost, Transient, Finish, Go
  <2>9. CASE Rejected(p)
    BY <2>9 DEF Rejected, Heard, Lost, Transient, Finish, Go
  <2>10. CASE RateLimited(p)
    BY <2>10 DEF RateLimited, Finish, Go
  <2>11. CASE RecordRejection(p)
    BY <2>11 DEF RecordRejection, Recorded, Finish, Go
  <2>12. CASE ClearCooldown(p)
    BY <2>12 DEF ClearCooldown, Go
  <2>13. CASE Save(p)
    BY <2>13 DEF Save, Finish, Go
  <2>14. CASE Crash(p)
    BY <2>14 DEF Crash, Finish, Go
  <2> QED  BY <1>1, <2>1, <2>2, <2>3, <2>4, <2>5, <2>6, <2>7, <2>8,
             <2>9, <2>10, <2>11, <2>12, <2>13, <2>14 DEF Call, Step
<1>2. CASE Expire
  BY <1>2 DEF Expire, Usable
<1>3. CASE ChangePin
  BY <1>3 DEF ChangePin, Usable
<1>4. CASE CooldownEnds
  BY <1>4 DEF CooldownEnds, Usable
<1>5. CASE UNCHANGED vars
  BY <1>5 DEF vars, Usable
<1> QED  BY <1>1, <1>2, <1>3, <1>4, <1>5 DEF Next

\* Nobody else writes the cache or the cooldown while a request is due.
LEMMA LoginStep == TypeInv /\ Exclusive /\ LoginIsDue /\ [Next]_vars => LoginIsDue'
<1> SUFFICES ASSUME TypeInv /\ Exclusive /\ LoginIsDue, [Next]_vars PROVE LoginIsDue'
  OBVIOUS
<1> USE BootstrapAssumption
       DEF TypeInv, Exclusive, LoginIsDue, Blocked, Usable, None, Unconditional, Failure, Holding,
       server, process, history, files
<1>1. ASSUME NEW p \in Procs, Call(p) \/ Step(p) \/ Crash(p)
      PROVE  LoginIsDue'
  <2>1. CASE GetToken(p)
    BY <2>1 DEF GetToken, Begin, Finish, Go, Usable
  <2>2. CASE Refresh(p)
    BY <2>2 DEF Refresh, Begin, Go
  <2>3. CASE Gate(p)
    BY <2>3 DEF Gate, Finish, Go
  <2>4. CASE Acquire(p)
    BY <2>4 DEF Acquire, LockFree, Go
  <2>5. CASE LockTimeout(p)
    BY <2>5 DEF LockTimeout, Finish, Go
  <2>6. CASE Recheck(p)
    BY <2>6 DEF Recheck, Finish, Go, MintedMeanwhile, Usable
  <2>7. CASE NoContact(p)
    BY <2>7 DEF NoContact, Transient, Finish, Go
  <2>8. CASE Accepted(p)
    BY <2>8 DEF Accepted, Heard, Lost, Transient, Finish, Go
  <2>9. CASE Rejected(p)
    BY <2>9 DEF Rejected, Heard, Lost, Transient, Finish, Go
  <2>10. CASE RateLimited(p)
    BY <2>10 DEF RateLimited, Finish, Go
  <2>11. CASE RecordRejection(p)
    BY <2>11 DEF RecordRejection, Recorded, Finish, Go
  <2>12. CASE ClearCooldown(p)
    BY <2>12 DEF ClearCooldown, Go
  <2>13. CASE Save(p)
    BY <2>13 DEF Save, Finish, Go
  <2>14. CASE Crash(p)
    BY <2>14 DEF Crash, Finish, Go
  <2> QED  BY <1>1, <2>1, <2>2, <2>3, <2>4, <2>5, <2>6, <2>7, <2>8,
             <2>9, <2>10, <2>11, <2>12, <2>13, <2>14 DEF Call, Step
<1>2. CASE Expire
  BY <1>2 DEF Expire, Usable
<1>3. CASE ChangePin
  BY <1>3 DEF ChangePin, Usable
<1>4. CASE CooldownEnds
  BY <1>4 DEF CooldownEnds, Usable
<1>5. CASE UNCHANGED vars
  BY <1>5 DEF vars, Usable
<1> QED  BY <1>1, <1>2, <1>3, <1>4, <1>5 DEF Next

\* A rejection goes from the server to the record without another between.
LEMMA VerdictStep ==
  TypeInv /\ Exclusive /\ LoginIsDue /\ VerdictIsKept /\ [Next]_vars => VerdictIsKept'
<1> SUFFICES ASSUME TypeInv /\ Exclusive /\ LoginIsDue /\ VerdictIsKept, [Next]_vars
             PROVE VerdictIsKept'
  OBVIOUS
<1> USE BootstrapAssumption
       DEF TypeInv, Exclusive, LoginIsDue, VerdictIsKept, None, Unconditional, Failure, Holding,
       server, process, history, files
<1>1. ASSUME NEW p \in Procs, Call(p) \/ Step(p) \/ Crash(p)
      PROVE  VerdictIsKept'
  <2>1. CASE GetToken(p)
    BY <2>1 DEF GetToken, Begin, Finish, Go, Usable
  <2>2. CASE Refresh(p)
    BY <2>2 DEF Refresh, Begin, Go
  <2>3. CASE Gate(p)
    BY <2>3 DEF Gate, Finish, Go
  <2>4. CASE Acquire(p)
    BY <2>4 DEF Acquire, LockFree, Go
  <2>5. CASE LockTimeout(p)
    BY <2>5 DEF LockTimeout, Finish, Go
  <2>6. CASE Recheck(p)
    BY <2>6 DEF Recheck, Finish, Go, MintedMeanwhile, Usable
  <2>7. CASE NoContact(p)
    BY <2>7 DEF NoContact, Transient, Finish, Go
  <2>8. CASE Accepted(p)
    BY <2>8 DEF Accepted, Heard, Lost, Transient, Finish, Go
  <2>9. CASE Rejected(p)
    BY <2>9 DEF Rejected, Heard, Lost, Transient, Finish, Go
  <2>10. CASE RateLimited(p)
    BY <2>10 DEF RateLimited, Finish, Go
  <2>11. CASE RecordRejection(p)
    BY <2>11 DEF RecordRejection, Recorded, Finish, Go
  <2>12. CASE ClearCooldown(p)
    BY <2>12 DEF ClearCooldown, Go
  <2>13. CASE Save(p)
    BY <2>13 DEF Save, Finish, Go
  <2>14. CASE Crash(p)
    BY <2>14 DEF Crash, Finish, Go
  <2> QED  BY <1>1, <2>1, <2>2, <2>3, <2>4, <2>5, <2>6, <2>7, <2>8,
             <2>9, <2>10, <2>11, <2>12, <2>13, <2>14 DEF Call, Step
<1>2. CASE Expire
  BY <1>2 DEF Expire, Usable
<1>3. CASE ChangePin
  BY <1>3 DEF ChangePin, Usable
<1>4. CASE CooldownEnds
  BY <1>4 DEF CooldownEnds, Usable
<1>5. CASE UNCHANGED vars
  BY <1>5 DEF vars, Usable
<1> QED  BY <1>1, <1>2, <1>3, <1>4, <1>5 DEF Next

-----------------------------------------------------------------------------

\* Spec => []Inv.
THEOREM Invariance == Spec => []Inv
<1>1. Init => Inv  BY InitInv
<1>2. Inv /\ [Next]_vars => Inv'
  BY TypeStep, ExclusiveStep, ReplacingStep, AnswerStep, LoginStep, VerdictStep DEF Inv
<1> QED  BY <1>1, <1>2, PTL DEF Spec

\* The types, and the exclusion by the refresh lock (TokenCache.refresh_lock).
THEOREM TypeCorrect == Spec => []TypeOK
<1>1. Inv => TypeOK  BY DEF Inv, TypeInv, Exclusive, Holding, TypeOK
<1> QED  BY <1>1, Invariance, PTL

\* A rejection that is heard is the only one until its cooldown is over
\* (RejectionCooldown), however many processes ask.
THEOREM OneRejection == Spec => []OneRejectionEach
<1>1. Inv => OneRejectionEach  BY DEF Inv, VerdictIsKept, OneRejectionEach
<1> QED  BY <1>1, Invariance, PTL

\* A request comes from a process at the login.
LEMMA RequestFromLogin == \A p \in Procs : Requests(p) => pc[p] = "login"
BY DEF Requests, Accepted, Rejected, NoContact, RateLimited

\* No request is made while a rejection is in force (_generate, its two looks
\* at the cooldown).
THEOREM Cooldown == Spec => NoRequestInCooldown
<1>1. Inv /\ [Next]_vars => [\A p \in Procs : Requests(p) => ~cooldown]_vars
  BY RequestFromLogin DEF Inv, LoginIsDue
<1> QED  BY <1>1, Invariance, PTL DEF NoRequestInCooldown, Spec

\* No request is made while a usable token is cached that this call does not
\* replace (_generate, its second look at the cache): N processes, one login.
THEOREM OneLogin == Spec => OneLoginForAll
<1>1. Inv /\ [Next]_vars
        => [\A p \in Procs : Requests(p) =>
              ~Usable(cache) \/ replacing[p] \in {Unconditional, cache}]_vars
  BY RequestFromLogin DEF Inv, LoginIsDue
<1> QED  BY <1>1, Invariance, PTL DEF OneLoginForAll, Spec

-----------------------------------------------------------------------------
(* What a call returns and what it writes.                                 *)

DeadOneStays(p) == result'[p] # result[p] /\ result'[p] > 0 => result'[p] # replacing[p]

\* A step of another process leaves this one's result alone; its own returns
\* the cached token after a look, or the token it minted.
LEMMA ResultStep ==
  Inv /\ [Next]_vars => \A p \in Procs : DeadOneStays(p)
<1> SUFFICES ASSUME Inv, [Next]_vars, NEW p \in Procs PROVE DeadOneStays(p)
  OBVIOUS
<1> USE DEF Inv, TypeInv, IdleReplacesNothing, AnswerIsNew, DeadOneStays, None, Unconditional, Failure,
       Usable, Finish, Begin, Go, process
<1>1. ASSUME NEW q \in Procs, Call(q) PROVE DeadOneStays(p)
  BY <1>1 DEF Call, GetToken, Refresh
<1>2. ASSUME NEW q \in Procs, Gate(q) \/ Acquire(q) \/ LockTimeout(q) \/ Recheck(q) \/ Crash(q)
      PROVE DeadOneStays(p)
  BY <1>2 DEF Gate, Acquire, LockTimeout, Recheck, MintedMeanwhile, Crash
<1>3. ASSUME NEW q \in Procs, Requests(q) PROVE DeadOneStays(p)
  BY <1>3 DEF Requests, NoContact, Accepted, Rejected, RateLimited, Heard, Lost, Transient
<1>4. ASSUME NEW q \in Procs, RecordRejection(q) \/ ClearCooldown(q) \/ Save(q)
      PROVE DeadOneStays(p)
  BY <1>4 DEF RecordRejection, ClearCooldown, Save
<1>5. CASE Expire \/ ChangePin \/ CooldownEnds \/ UNCHANGED vars
  BY <1>5 DEF Expire, ChangePin, CooldownEnds, vars
<1> QED  BY <1>1, <1>2, <1>3, <1>4, <1>5 DEF Next, Step, Call, Requests

\* The token a call was told is dead is never what it returns (refresh).
THEOREM DeadOneIsGone == Spec => NeverTheDeadOne
<1>1. Inv /\ [Next]_vars
        => [\A p \in Procs : result'[p] # result[p] /\ result'[p] > 0 => result'[p] # replacing[p]]_vars
  BY ResultStep DEF DeadOneStays
<1> QED  BY <1>1, Invariance, PTL DEF NeverTheDeadOne, Spec

\* Only a save writes the cache, and it writes the newest token.
LEMMA CacheStep == Inv /\ [Next]_vars => cache' >= cache
<1> SUFFICES ASSUME Inv, [Next]_vars PROVE cache' >= cache
  OBVIOUS
<1> USE DEF Inv, TypeInv, files
<1>1. ASSUME NEW q \in Procs, Save(q) PROVE cache' >= cache
  BY <1>1 DEF Save, AnswerIsNew
<1>2. ASSUME NEW q \in Procs, Call(q) \/ Crash(q) \/ (Step(q) /\ ~Save(q))
      PROVE cache' = cache
  BY <1>2 DEF Call, GetToken, Refresh, Crash, Step, Gate, Acquire, LockTimeout, Recheck,
         NoContact,
              Accepted, Rejected, RateLimited, RecordRejection, ClearCooldown
<1>3. CASE Expire \/ ChangePin \/ CooldownEnds \/ UNCHANGED vars
  BY <1>3 DEF Expire, ChangePin, CooldownEnds, vars
<1> QED  BY <1>1, <1>2, <1>3 DEF Next

\* Processes that save one after another never put an older token over a newer
\* one (TokenCache.save, under the lock).
THEOREM CacheAdvances == Spec => CacheOnlyAdvances
<1>1. Inv /\ [Next]_vars => [cache' >= cache]_vars
  BY CacheStep
<1> QED  BY <1>1, Invariance, PTL DEF CacheOnlyAdvances, Spec

-----------------------------------------------------------------------------
(* The notifier: the parts of its inductive invariant.                      *)

Events == [key : Keys, repeats : Nat]
Windows == [start : 0..MaxTime, count : Nat]

SwitchType == deferred \in BOOLEAN /\ stop \in BOOLEAN /\ unseen \in BOOLEAN
WindowType == recent \in [Keys -> Windows \cup {Never}] /\ owed \in [Keys -> Nat]
QueueType ==
  queue \in Seq(Events) /\ Len(queue) <= MaxQueue /\ pending \in Seq(Events)
CountType ==
  /\ now \in 0..MaxTime /\ sends \in 0..MaxSends /\ success \in Nat /\ failure \in Nat
  /\ suppressed \in Nat /\ dropped \in Nat /\ handed \in Nat
  /\ Len(queue) \in Nat /\ Len(pending) \in Nat
NotifierType == SwitchType /\ WindowType /\ QueueType /\ CountType

\* A thread holds an event exactly where its next step is to pass it on.
CallerHolds ==
  /\ caller \in {"idle", "deliver", "put", "evict", "put_again", "pump", "joining", "closed", "abandoned"}
  /\ IF caller \in {"put", "evict", "put_again", "deliver"} THEN carried \in Events ELSE carried = NoEvent
DrainHolds ==
  /\ drain \in {"waiting", "looked", "sending", "failing", "ended"}
  /\ IF drain \in {"sending", "failing"} THEN inHand \in Events ELSE inHand = NoEvent

\* Without a drain thread nothing is ever queued.
Synchronous ==
  ~deferred => /\ queue = <<>> /\ pending = <<>> /\ drain = "ended"
               /\ caller \notin {"put", "evict", "put_again", "pump"}
Deferred == deferred => caller # "deliver"

\* The drain thread ends when nobody can send any more; a look it took after
\* the stop was the last, and found the queue as it stays.
Stopping ==
  /\ stop <=> caller \in {"joining", "closed", "abandoned"}
  /\ deferred /\ drain = "ended" => stop
  /\ stop /\ ~unseen /\ drain \in {"looked", "ended"} => queue = <<>>
  /\ caller = "closed" => drain = "ended" /\ pending = <<>>

\* The window of a key counts what its next notice will have to tell.
WindowsCount == \A k \in Keys : recent[k] # Never => owed[k] = recent[k].count

OwedIsSuppressed == OwedInAll <= suppressed

NotifierInv ==
  /\ NotifierType /\ CallerHolds /\ DrainHolds /\ Synchronous /\ Deferred /\ Stopping
  /\ WindowsCount /\ OwedIsSuppressed /\ EveryEventIsCounted /\ FailuresAreHandedOnce

-----------------------------------------------------------------------------
\* No event is the empty hand.
LEMMA EventsAreReal == NoEvent \notin Events
BY NotifierAssumption DEF NoEvent, Events

\* Eviction of stale windows leaves the others as they are.
LEMMA FreshWindows ==
  ASSUME NotifierType, WindowsCount
  PROVE  /\ Fresh \in [Keys -> Windows \cup {Never}]
         /\ \A k \in Keys : Fresh[k] # Never => Fresh[k] = recent[k] /\ owed[k] = Fresh[k].count
BY DEF Fresh, NotifierType, WindowType, CountType, SwitchType, QueueType, WindowsCount

\* A suppressed repeat is owed and counted once.
LEMMA SuppressWindows ==
  ASSUME NotifierInv, NEW k \in Keys, Suppress(k)
  PROVE  recent' \in [Keys -> Windows \cup {Never}] /\ owed' \in [Keys -> Nat]
         /\ WindowsCount' /\ OwedIsSuppressed'
<1>1. /\ Fresh \in [Keys -> Windows \cup {Never}]
      /\ \A j \in Keys : Fresh[j] # Never => Fresh[j] = recent[j] /\ owed[j] = Fresh[j].count
  BY FreshWindows DEF NotifierInv
<1>2. Fresh[k] \in Windows /\ Fresh[k].count \in Nat
  BY <1>1 DEF Suppress, Windows
<1>3. recent' = [Fresh EXCEPT ![k] = [Fresh[k] EXCEPT !.count = Fresh[k].count + 1]]
  BY DEF Suppress
<1>4. [Fresh[k] EXCEPT !.count = Fresh[k].count + 1] \in Windows
      /\ [Fresh[k] EXCEPT !.count = Fresh[k].count + 1].count = Fresh[k].count + 1
  BY <1>2 DEF Windows
<1>5. recent' \in [Keys -> Windows \cup {Never}]
  BY <1>1, <1>3, <1>4
<1>6. owed' = [owed EXCEPT ![k] = owed[k] + 1] /\ owed \in [Keys -> Nat] /\ owed' \in [Keys -> Nat]
  BY DEF Suppress, NotifierInv, NotifierType, WindowType, CountType, SwitchType, QueueType
<1>7. WindowsCount'
  <2> SUFFICES ASSUME NEW j \in Keys, recent'[j] # Never PROVE owed'[j] = recent'[j].count
    BY DEF WindowsCount
  <2>1. CASE j = k
    BY <1>1, <1>2, <1>3, <1>4, <1>6, <2>1 DEF Suppress
  <2>2. CASE j # k
    BY <1>1, <1>3, <1>6, <2>2
  <2> QED BY <2>1, <2>2
<1>8. SumFunctionOnSet(owed', Keys) = SumFunctionOnSet(owed, Keys) + (owed'[k] - owed[k])
  <2>1. \A x \in Keys : owed[x] \in Int /\ owed'[x] \in Int
    BY <1>6
  <2>2. \A x \in Keys \ {k} : owed[x] = owed'[x]
    BY <1>6
  <2> QED BY <2>1, <2>2, SumChanges, NotifierAssumption
<1>9. SumFunctionOnSet(owed, Keys) \in Nat
  BY <1>6, SumIsNat, NotifierAssumption
<1>10. OwedIsSuppressed'
  <2>1. owed'[k] - owed[k] = 1
    BY <1>6
  <2>2. suppressed' = suppressed + 1 /\ suppressed \in Nat /\ SumFunctionOnSet(owed, Keys) <= suppressed
    BY DEF Suppress, NotifierInv, NotifierType, WindowType, CountType, SwitchType,
           QueueType, OwedIsSuppressed, OwedInAll
  <2> QED BY <1>8, <1>9, <2>1, <2>2 DEF OwedIsSuppressed, OwedInAll
<1> QED BY <1>5, <1>6, <1>7, <1>10

\* A notice that goes out owes nothing more.
LEMMA AcceptWindows ==
  ASSUME NotifierInv, NEW k \in Keys, Accept(k)
  PROVE  /\ recent' \in [Keys -> Windows \cup {Never}] /\ owed' \in [Keys -> Nat]
         /\ WindowsCount' /\ OwedIsSuppressed' /\ carried' \in Events
<1>1. /\ Fresh \in [Keys -> Windows \cup {Never}]
      /\ \A j \in Keys : Fresh[j] # Never => Fresh[j] = recent[j] /\ owed[j] = Fresh[j].count
  BY FreshWindows DEF NotifierInv
<1>2. recent' = [Fresh EXCEPT ![k] = [start |-> now, count |-> 0]]
      /\ [start |-> now, count |-> 0] \in Windows
  BY DEF Accept, NotifierInv, NotifierType, WindowType, CountType, SwitchType, QueueType,
         Windows
<1>3. recent' \in [Keys -> Windows \cup {Never}]
  BY <1>1, <1>2
<1>4. owed' = [owed EXCEPT ![k] = 0] /\ owed \in [Keys -> Nat] /\ owed' \in [Keys -> Nat]
  BY DEF Accept, NotifierInv, NotifierType, WindowType, CountType, SwitchType, QueueType
<1>5. WindowsCount'
  <2> SUFFICES ASSUME NEW j \in Keys, recent'[j] # Never PROVE owed'[j] = recent'[j].count
    BY DEF WindowsCount
  <2>1. CASE j = k
    BY <1>1, <1>2, <1>4, <2>1
  <2>2. CASE j # k
    BY <1>1, <1>2, <1>4, <2>2
  <2> QED BY <2>1, <2>2
<1>6. SumFunctionOnSet(owed', Keys) = SumFunctionOnSet(owed, Keys) + (owed'[k] - owed[k])
  <2>1. \A x \in Keys : owed[x] \in Int /\ owed'[x] \in Int
    BY <1>4
  <2>2. \A x \in Keys \ {k} : owed[x] = owed'[x]
    BY <1>4
  <2> QED BY <2>1, <2>2, SumChanges, NotifierAssumption
<1>7. SumFunctionOnSet(owed, Keys) \in Nat
  BY <1>4, SumIsNat, NotifierAssumption
<1>8. OwedIsSuppressed'
  <2>1. owed'[k] = 0 /\ owed[k] \in Nat
    BY <1>4
  <2>2. suppressed' = suppressed /\ suppressed \in Nat /\ SumFunctionOnSet(owed, Keys) <= suppressed
    BY DEF Accept, NotifierInv, NotifierType, WindowType, CountType, SwitchType, QueueType,
           OwedIsSuppressed, OwedInAll
  <2> QED BY <1>6, <1>7, <2>1, <2>2 DEF OwedIsSuppressed, OwedInAll
<1>9. carried' \in Events
  <2>1. Fresh[k].count \in Nat
    BY <1>1 DEF Windows, Never
  <2> QED BY <2>1 DEF Accept, Events
<1> QED BY <1>3, <1>4, <1>5, <1>8, <1>9

\* What the sending thread holds, by where it is.
CallerCount == IF caller \in {"put", "evict", "put_again", "deliver"} THEN 1 ELSE 0

\* Only a thread between two queue calls holds an event.
LEMMA HeldIsCounted == CallerHolds => Held(carried) = CallerCount
BY EventsAreReal DEF CallerHolds, Held, CallerCount

\* Queues at their ends.
LEMMA EventAdded ==
  ASSUME NEW s \in Seq(Events), NEW e \in Events
  PROVE  Append(s, e) \in Seq(Events) /\ Len(Append(s, e)) = Len(s) + 1 /\ Append(s, e) # <<>>
<1>1. Append(s, e) \in Seq(Events) /\ Len(Append(s, e)) = Len(s) + 1 /\ Len(s) \in Nat
  OBVIOUS
<1>2. Len(<<>>) = 0
  OBVIOUS
<1> QED BY <1>1, <1>2

\* The oldest event, and what is left.
LEMMA EventTaken ==
  ASSUME NEW s \in Seq(Events), s # <<>>
  PROVE  Head(s) \in Events /\ Tail(s) \in Seq(Events) /\ Len(Tail(s)) = Len(s) - 1 /\ Len(s) > 0
OBVIOUS

\* The invariant holds at the start.
LEMMA NotifierInitInv == NotifierInit => NotifierInv
<1> SUFFICES ASSUME NotifierInit PROVE NotifierInv
  OBVIOUS
<1> USE NotifierAssumption DEF NotifierInit
<1>1. NotifierType
  <2>1. WindowType
    BY DEF WindowType
  <2>2. SwitchType
    BY DEF SwitchType
  <2>3. QueueType /\ CountType
    BY DEF QueueType, CountType
  <2> QED BY <2>1, <2>2, <2>3 DEF NotifierType
<1>2. CallerHolds /\ DrainHolds /\ Synchronous /\ Deferred /\ Stopping
  <2>1. CallerHolds
    BY DEF CallerHolds
  <2>2. DrainHolds
    BY DEF DrainHolds
  <2>3. Synchronous /\ Deferred
    BY DEF Synchronous, Deferred
  <2>4. deferred => drain # "ended"
    OBVIOUS
  <2>5. stop <=> caller \in {"joining", "closed", "abandoned"}
    OBVIOUS
  <2>6. caller # "closed"
    OBVIOUS
  <2>7. Stopping
    BY <2>4, <2>5, <2>6, Zenon DEF Stopping
  <2> QED BY <2>1, <2>2, <2>3, <2>7
<1>3. WindowsCount
  BY DEF WindowsCount
<1>4. OwedIsSuppressed
  <2>1. \A k \in Keys : owed[k] = 0
    OBVIOUS
  <2>2. SumFunctionOnSet(owed, Keys) = 0
    BY <2>1, SumIsZero
  <2> QED BY <2>2 DEF OwedIsSuppressed, OwedInAll
<1>5. EveryEventIsCounted /\ FailuresAreHandedOnce
  BY DEF EveryEventIsCounted, FailuresAreHandedOnce, Held
<1> QED BY <1>1, <1>2, <1>3, <1>4, <1>5 DEF NotifierInv

\* Every queue call of either thread keeps it.
LEMMA NotifierStep == NotifierInv /\ [NotifierNext]_notifierVars => NotifierInv'
<1> SUFFICES ASSUME NotifierInv, [NotifierNext]_notifierVars PROVE NotifierInv'
  OBVIOUS
<1>t. SwitchType /\ WindowType /\ QueueType /\ CountType /\ CallerHolds /\ DrainHolds /\ Synchronous /\ Deferred /\ Stopping
      /\ WindowsCount /\ OwedIsSuppressed /\ EveryEventIsCounted /\ FailuresAreHandedOnce
  BY DEF NotifierInv, NotifierType
<1>w. UNCHANGED aggregation => WindowsCount' /\ OwedIsSuppressed'
  BY <1>t DEF aggregation, WindowsCount, OwedIsSuppressed, OwedInAll
<1> USE NotifierAssumption, EventsAreReal
<1>1. CASE Advance
  <2> USE <1>1 DEF Advance, aggregation, thread, stopping, counts
  <2>1. SwitchType' /\ WindowType'
    BY <1>t DEF SwitchType, WindowType
  <2>6. QueueType'
    BY <1>t DEF QueueType, CallerHolds, DrainHolds, CountType
  <2>7. CountType'
    BY <1>t, <2>6 DEF CountType, QueueType
  <2>2. (CallerHolds /\ DrainHolds)'
    BY <1>t DEF CallerHolds, DrainHolds, QueueType
  <2>3. (Synchronous /\ Deferred)'
    BY <1>t DEF Synchronous, Deferred, CallerHolds
  <2>8. Stopping'
    BY <1>t DEF Stopping, Synchronous, CallerHolds
  <2>h. Held(carried) = CallerCount /\ (Held(carried) = CallerCount)'
    BY <1>t, <2>2, HeldIsCounted, PTL
  <2>4. EveryEventIsCounted'
    BY <1>t, <2>h DEF EveryEventIsCounted, CallerCount, CountType
  <2>5. FailuresAreHandedOnce'
    BY <1>t DEF FailuresAreHandedOnce, DrainHolds, CountType
  <2> QED BY <1>w, <2>1, <2>2, <2>3, <2>4, <2>5, <2>6, <2>7, <2>8
       DEF NotifierInv, NotifierType
<1>2. CASE Close
  <2> USE <1>2 DEF Close, aggregation, thread, stopping, counts
  <2>1. SwitchType' /\ WindowType'
    BY <1>t DEF SwitchType, WindowType
  <2>6. QueueType'
    BY <1>t DEF QueueType, CallerHolds, DrainHolds, CountType
  <2>7. CountType'
    BY <1>t, <2>6 DEF CountType, QueueType
  <2>2. (CallerHolds /\ DrainHolds)'
    BY <1>t DEF CallerHolds, DrainHolds, QueueType
  <2>3. (Synchronous /\ Deferred)'
    BY <1>t DEF Synchronous, Deferred, CallerHolds
  <2>8. Stopping'
    BY <1>t DEF Stopping, Synchronous, CallerHolds
  <2>h. Held(carried) = CallerCount /\ (Held(carried) = CallerCount)'
    BY <1>t, <2>2, HeldIsCounted, PTL
  <2>4. EveryEventIsCounted'
    BY <1>t, <2>h DEF EveryEventIsCounted, CallerCount, CountType
  <2>5. FailuresAreHandedOnce'
    BY <1>t DEF FailuresAreHandedOnce, DrainHolds, CountType
  <2> QED BY <1>w, <2>1, <2>2, <2>3, <2>4, <2>5, <2>6, <2>7, <2>8
       DEF NotifierInv, NotifierType
<1>3. CASE Take
  <2> USE <1>3 DEF Take, aggregation, thread, stopping, counts
  <2>a. queue # <<>> => /\ Head(queue) \in Events /\ Tail(queue) \in Seq(Events)
                        /\ Len(Tail(queue)) = Len(queue) - 1 /\ Len(queue) > 0
    BY <1>t, EventTaken DEF QueueType
  <2>1. SwitchType' /\ WindowType'
    BY <1>t, <2>a DEF SwitchType, WindowType
  <2>6. QueueType'
    BY <1>t, <2>a DEF QueueType, CallerHolds, DrainHolds, CountType
  <2>7. CountType'
    BY <1>t, <2>a, <2>6 DEF CountType, QueueType
  <2>2. (CallerHolds /\ DrainHolds)'
    BY <1>t, <2>a DEF CallerHolds, DrainHolds, QueueType
  <2>3. (Synchronous /\ Deferred)'
    BY <1>t, <2>a DEF Synchronous, Deferred, CallerHolds
  <2>8. Stopping'
    BY <1>t, <2>a DEF Stopping, Synchronous, CallerHolds
  <2>h. Held(carried) = CallerCount /\ (Held(carried) = CallerCount)'
    BY <1>t, <2>a, <2>2, HeldIsCounted, PTL
  <2>4. EveryEventIsCounted'
    BY <1>t, <2>a, <2>h DEF EveryEventIsCounted, CallerCount, CountType
  <2>5. FailuresAreHandedOnce'
    BY <1>t DEF FailuresAreHandedOnce, DrainHolds, CountType
  <2> QED BY <1>w, <2>1, <2>2, <2>3, <2>4, <2>5, <2>6, <2>7, <2>8
       DEF NotifierInv, NotifierType
<1>4. CASE Delivered
  <2> USE <1>4 DEF Delivered, aggregation, thread, stopping, counts
  <2>1. SwitchType' /\ WindowType'
    BY <1>t DEF SwitchType, WindowType
  <2>6. QueueType'
    BY <1>t DEF QueueType, CallerHolds, DrainHolds, CountType
  <2>7. CountType'
    BY <1>t, <2>6 DEF CountType, QueueType
  <2>2. (CallerHolds /\ DrainHolds)'
    BY <1>t DEF CallerHolds, DrainHolds, QueueType
  <2>3. (Synchronous /\ Deferred)'
    BY <1>t DEF Synchronous, Deferred, CallerHolds
  <2>8. Stopping'
    BY <1>t DEF Stopping, Synchronous, CallerHolds
  <2>h. Held(carried) = CallerCount /\ (Held(carried) = CallerCount)'
    BY <1>t, <2>2, HeldIsCounted, PTL
  <2>4. EveryEventIsCounted'
    BY <1>t, <2>h DEF EveryEventIsCounted, CallerCount, CountType
  <2>5. FailuresAreHandedOnce'
    BY <1>t DEF FailuresAreHandedOnce, DrainHolds, CountType
  <2> QED BY <1>w, <2>1, <2>2, <2>3, <2>4, <2>5, <2>6, <2>7, <2>8
       DEF NotifierInv, NotifierType
<1>5. CASE AnsweredFalse
  <2> USE <1>5 DEF AnsweredFalse, aggregation, thread, stopping, counts
  <2>1. SwitchType' /\ WindowType'
    BY <1>t DEF SwitchType, WindowType
  <2>6. QueueType'
    BY <1>t DEF QueueType, CallerHolds, DrainHolds, CountType
  <2>7. CountType'
    BY <1>t, <2>6 DEF CountType, QueueType
  <2>2. (CallerHolds /\ DrainHolds)'
    BY <1>t DEF CallerHolds, DrainHolds, QueueType
  <2>3. (Synchronous /\ Deferred)'
    BY <1>t DEF Synchronous, Deferred, CallerHolds
  <2>8. Stopping'
    BY <1>t DEF Stopping, Synchronous, CallerHolds
  <2>h. Held(carried) = CallerCount /\ (Held(carried) = CallerCount)'
    BY <1>t, <2>2, HeldIsCounted, PTL
  <2>4. EveryEventIsCounted'
    BY <1>t, <2>h DEF EveryEventIsCounted, CallerCount, CountType
  <2>5. FailuresAreHandedOnce'
    BY <1>t DEF FailuresAreHandedOnce, DrainHolds, CountType
  <2> QED BY <1>w, <2>1, <2>2, <2>3, <2>4, <2>5, <2>6, <2>7, <2>8
       DEF NotifierInv, NotifierType
<1>6. CASE RecordFailure
  <2> USE <1>6 DEF RecordFailure, aggregation, thread, stopping, counts
  <2>a. Append(pending, inHand) \in Seq(Events) /\ Len(Append(pending, inHand)) = Len(pending) + 1
    BY <1>t, EventAdded DEF DrainHolds, QueueType
  <2>1. SwitchType' /\ WindowType'
    BY <1>t, <2>a DEF SwitchType, WindowType
  <2>6. QueueType'
    BY <1>t, <2>a DEF QueueType, CallerHolds, DrainHolds, CountType
  <2>7. CountType'
    BY <1>t, <2>a, <2>6 DEF CountType, QueueType
  <2>2. (CallerHolds /\ DrainHolds)'
    BY <1>t, <2>a DEF CallerHolds, DrainHolds, QueueType
  <2>3. (Synchronous /\ Deferred)'
    BY <1>t, <2>a DEF Synchronous, Deferred, CallerHolds
  <2>8. Stopping'
    BY <1>t, <2>a DEF Stopping, Synchronous, CallerHolds
  <2>h. Held(carried) = CallerCount /\ (Held(carried) = CallerCount)'
    BY <1>t, <2>a, <2>2, HeldIsCounted, PTL
  <2>4. EveryEventIsCounted'
    <3>1. CASE drain = "failing"
      BY <1>t, <2>a, <2>h, <3>1 DEF EveryEventIsCounted, CallerCount, CountType
    <3>2. CASE drain = "sending"
      BY <1>t, <2>a, <2>h, <3>2 DEF EveryEventIsCounted, CallerCount, CountType
    <3> QED BY <3>1, <3>2
  <2>5. FailuresAreHandedOnce'
    BY <1>t, <2>a DEF FailuresAreHandedOnce, DrainHolds, CountType
  <2> QED BY <1>w, <2>1, <2>2, <2>3, <2>4, <2>5, <2>6, <2>7, <2>8
       DEF NotifierInv, NotifierType
<1>7. CASE FindNothing
  <2> USE <1>7 DEF FindNothing, TimesOut, aggregation, thread, stopping, counts
  <2>1. SwitchType' /\ WindowType'
    BY <1>t DEF SwitchType, WindowType
  <2>6. QueueType'
    BY <1>t DEF QueueType, CallerHolds, DrainHolds, CountType
  <2>7. CountType'
    BY <1>t, <2>6 DEF CountType, QueueType
  <2>2. (CallerHolds /\ DrainHolds)'
    BY <1>t DEF CallerHolds, DrainHolds, QueueType
  <2>3. (Synchronous /\ Deferred)'
    BY <1>t DEF Synchronous, Deferred, CallerHolds
  <2>8. Stopping'
    BY <1>t DEF Stopping, Synchronous, CallerHolds
  <2>h. Held(carried) = CallerCount /\ (Held(carried) = CallerCount)'
    BY <1>t, <2>2, HeldIsCounted, PTL
  <2>4. EveryEventIsCounted'
    BY <1>t, <2>h DEF EveryEventIsCounted, CallerCount, CountType
  <2>5. FailuresAreHandedOnce'
    BY <1>t DEF FailuresAreHandedOnce, DrainHolds, CountType
  <2> QED BY <1>w, <2>1, <2>2, <2>3, <2>4, <2>5, <2>6, <2>7, <2>8
       DEF NotifierInv, NotifierType
<1>8. CASE DeliverNow
  <2> USE <1>8 DEF DeliverNow, OnSendFailure, aggregation, thread, stopping, counts
  <2>1. SwitchType' /\ WindowType'
    BY <1>t DEF SwitchType, WindowType
  <2>6. QueueType'
    BY <1>t DEF QueueType, CallerHolds, DrainHolds, CountType
  <2>7. CountType'
    BY <1>t, <2>6 DEF CountType, QueueType
  <2>2. (CallerHolds /\ DrainHolds)'
    BY <1>t DEF CallerHolds, DrainHolds, QueueType
  <2>3. (Synchronous /\ Deferred)'
    BY <1>t DEF Synchronous, Deferred, CallerHolds
  <2>8. Stopping'
    BY <1>t DEF Stopping, Synchronous, CallerHolds
  <2>h. Held(carried) = CallerCount /\ (Held(carried) = CallerCount)'
    BY <1>t, <2>2, HeldIsCounted, PTL
  <2>4. EveryEventIsCounted'
    <3>1. CASE success' = success + 1 /\ UNCHANGED failure
      BY <1>t, <2>h, <3>1 DEF EveryEventIsCounted, CallerCount, CountType
    <3>2. CASE failure' = failure + 1 /\ UNCHANGED success
      BY <1>t, <2>h, <3>2 DEF EveryEventIsCounted, CallerCount, CountType
    <3> QED BY <3>1, <3>2
  <2>5. FailuresAreHandedOnce'
    BY <1>t DEF FailuresAreHandedOnce, DrainHolds, CountType
  <2> QED BY <1>w, <2>1, <2>2, <2>3, <2>4, <2>5, <2>6, <2>7, <2>8
       DEF NotifierInv, NotifierType
<1>9. CASE Put
  <2> USE <1>9 DEF Put, Full, aggregation, thread, stopping, counts
  <2>a. /\ Append(queue, carried) \in Seq(Events) /\ Len(Append(queue, carried)) = Len(queue) + 1
        /\ Append(queue, carried) # <<>>
    BY <1>t, EventAdded DEF CallerHolds, QueueType
  <2>1. SwitchType' /\ WindowType'
    BY <1>t, <2>a DEF SwitchType, WindowType
  <2>6. QueueType'
    BY <1>t, <2>a DEF QueueType, CallerHolds, DrainHolds, CountType
  <2>7. CountType'
    BY <1>t, <2>a, <2>6 DEF CountType, QueueType
  <2>2. (CallerHolds /\ DrainHolds)'
    BY <1>t, <2>a DEF CallerHolds, DrainHolds, QueueType
  <2>3. (Synchronous /\ Deferred)'
    BY <1>t, <2>a DEF Synchronous, Deferred, CallerHolds
  <2>8. Stopping'
    BY <1>t, <2>a DEF Stopping, Synchronous, CallerHolds
  <2>h. Held(carried) = CallerCount /\ (Held(carried) = CallerCount)'
    BY <1>t, <2>a, <2>2, HeldIsCounted, PTL
  <2>4. EveryEventIsCounted'
    <3>1. CASE Full
      BY <1>t, <2>a, <2>h, <3>1 DEF EveryEventIsCounted, CallerCount, CountType
    <3>2. CASE ~Full
      <4>1. /\ Len(queue') = Len(queue) + 1 /\ CallerCount = 1 /\ CallerCount' = 0
            /\ UNCHANGED <<sends, suppressed, success, failure, dropped, drain>>
        BY <2>a, <3>2 DEF CallerCount
      <4> QED BY <1>t, <2>h, <4>1 DEF EveryEventIsCounted, CountType
    <3> QED BY <3>1, <3>2
  <2>5. FailuresAreHandedOnce'
    BY <1>t DEF FailuresAreHandedOnce, DrainHolds, CountType
  <2> QED BY <1>w, <2>1, <2>2, <2>3, <2>4, <2>5, <2>6, <2>7, <2>8
       DEF NotifierInv, NotifierType
<1>10. CASE Evict
  <2> USE <1>10 DEF Evict, Counted, aggregation, thread, stopping, counts
  <2>a. queue # <<>> => /\ Head(queue) \in Events /\ Tail(queue) \in Seq(Events)
                        /\ Len(Tail(queue)) = Len(queue) - 1 /\ Len(queue) > 0
    BY <1>t, EventTaken DEF QueueType
  <2>1. SwitchType' /\ WindowType'
    BY <1>t, <2>a DEF SwitchType, WindowType
  <2>6. QueueType'
    <3>1. queue' \in Seq(Events) /\ Len(queue') <= Len(queue) /\ Len(queue') \in Nat
      BY <1>t, <2>a DEF QueueType, CountType
    <3>2. UNCHANGED pending
      OBVIOUS
    <3> QED BY <1>t, <3>1, <3>2 DEF QueueType, CountType
  <2>7. CountType'
    BY <1>t, <2>a, <2>6 DEF CountType, QueueType
  <2>2. (CallerHolds /\ DrainHolds)'
    BY <1>t, <2>a DEF CallerHolds, DrainHolds, QueueType
  <2>3. (Synchronous /\ Deferred)'
    BY <1>t, <2>a DEF Synchronous, Deferred, CallerHolds
  <2>8. Stopping'
    BY <1>t, <2>a DEF Stopping, Synchronous, CallerHolds
  <2>h. Held(carried) = CallerCount /\ (Held(carried) = CallerCount)'
    BY <1>t, <2>a, <2>2, HeldIsCounted, PTL
  <2>4. EveryEventIsCounted'
    <3>1. CASE queue = <<>>
      BY <1>t, <2>h, <3>1 DEF EveryEventIsCounted, CallerCount, CountType
    <3>2. CASE queue # <<>>
      <4>1. dropped' = dropped + 1 /\ Len(queue') = Len(queue) - 1
        BY <2>a, <3>2
      <4>2. /\ UNCHANGED <<sends, suppressed, success, failure, drain>>
            /\ caller = "evict" /\ caller' = "put_again"
        OBVIOUS
      <4>3. /\ sends = suppressed + success + failure + dropped + Len(queue) + CallerCount
                        + (IF drain = "sending" THEN 1 ELSE 0)
            /\ sends \in Int /\ suppressed \in Int /\ success \in Int /\ failure \in Int /\ dropped \in Int
            /\ Len(queue) \in Int
        BY <1>t, <2>h DEF EveryEventIsCounted, CountType
      <4> HIDE <1>10 DEF Evict
      <4>4. sends' = suppressed' + success' + failure' + dropped' + Len(queue') + CallerCount'
                       + (IF drain' = "sending" THEN 1 ELSE 0)
        BY <4>1, <4>2, <4>3 DEF CallerCount
      <4> QED BY <4>4, <2>h DEF EveryEventIsCounted
    <3> QED BY <3>1, <3>2
  <2>5. FailuresAreHandedOnce'
    BY <1>t DEF FailuresAreHandedOnce, DrainHolds, CountType
  <2> QED BY <1>w, <2>1, <2>2, <2>3, <2>4, <2>5, <2>6, <2>7, <2>8
       DEF NotifierInv, NotifierType
<1>11. CASE PutAgain
  <2> USE <1>11 DEF PutAgain, Full, Counted, aggregation, thread, stopping, counts
  <2>a. /\ Append(queue, carried) \in Seq(Events) /\ Len(Append(queue, carried)) = Len(queue) + 1
        /\ Append(queue, carried) # <<>>
    BY <1>t, EventAdded DEF CallerHolds, QueueType
  <2>1. SwitchType' /\ WindowType'
    BY <1>t, <2>a DEF SwitchType, WindowType
  <2>6. QueueType'
    BY <1>t, <2>a DEF QueueType, CallerHolds, DrainHolds, CountType
  <2>7. CountType'
    BY <1>t, <2>a, <2>6 DEF CountType, QueueType
  <2>2. (CallerHolds /\ DrainHolds)'
    BY <1>t, <2>a DEF CallerHolds, DrainHolds, QueueType
  <2>3. (Synchronous /\ Deferred)'
    BY <1>t, <2>a DEF Synchronous, Deferred, CallerHolds
  <2>8. Stopping'
    BY <1>t, <2>a DEF Stopping, Synchronous, CallerHolds
  <2>h. Held(carried) = CallerCount /\ (Held(carried) = CallerCount)'
    BY <1>t, <2>a, <2>2, HeldIsCounted, PTL
  <2>4. EveryEventIsCounted'
    <3>1. CASE Full
      BY <1>t, <2>a, <2>h, <3>1 DEF EveryEventIsCounted, CallerCount, CountType
    <3>2. CASE ~Full
      BY <1>t, <2>a, <2>h, <3>2 DEF EveryEventIsCounted, CallerCount, CountType
    <3> QED BY <3>1, <3>2
  <2>5. FailuresAreHandedOnce'
    BY <1>t DEF FailuresAreHandedOnce, DrainHolds, CountType
  <2> QED BY <1>w, <2>1, <2>2, <2>3, <2>4, <2>5, <2>6, <2>7, <2>8
       DEF NotifierInv, NotifierType
<1>12. CASE Pump
  <2> USE <1>12 DEF Pump, Pumped, aggregation, thread, stopping, counts
  <2>1. SwitchType' /\ WindowType'
    BY <1>t DEF SwitchType, WindowType
  <2>6. QueueType'
    BY <1>t DEF QueueType, CallerHolds, DrainHolds, CountType
  <2>7. CountType'
    BY <1>t, <2>6 DEF CountType, QueueType
  <2>2. (CallerHolds /\ DrainHolds)'
    BY <1>t DEF CallerHolds, DrainHolds, QueueType
  <2>3. (Synchronous /\ Deferred)'
    BY <1>t DEF Synchronous, Deferred, CallerHolds
  <2>8. Stopping'
    BY <1>t DEF Stopping, Synchronous, CallerHolds
  <2>h. Held(carried) = CallerCount /\ (Held(carried) = CallerCount)'
    BY <1>t, <2>2, HeldIsCounted, PTL
  <2>4. EveryEventIsCounted'
    BY <1>t, <2>h DEF EveryEventIsCounted, CallerCount, CountType
  <2>5. FailuresAreHandedOnce'
    BY <1>t DEF FailuresAreHandedOnce, DrainHolds, CountType
  <2> QED BY <1>w, <2>1, <2>2, <2>3, <2>4, <2>5, <2>6, <2>7, <2>8
       DEF NotifierInv, NotifierType
<1>13. CASE Joined
  <2> USE <1>13 DEF Joined, Pumped, ThreadEnded, aggregation, thread, stopping, counts
  <2>1. SwitchType' /\ WindowType'
    BY <1>t DEF SwitchType, WindowType
  <2>6. QueueType'
    BY <1>t DEF QueueType, CallerHolds, DrainHolds, CountType
  <2>7. CountType'
    BY <1>t, <2>6 DEF CountType, QueueType
  <2>2. (CallerHolds /\ DrainHolds)'
    BY <1>t DEF CallerHolds, DrainHolds, QueueType
  <2>3. (Synchronous /\ Deferred)'
    BY <1>t DEF Synchronous, Deferred, CallerHolds
  <2>8. Stopping'
    BY <1>t DEF Stopping, Synchronous, CallerHolds
  <2>h. Held(carried) = CallerCount /\ (Held(carried) = CallerCount)'
    BY <1>t, <2>2, HeldIsCounted, PTL
  <2>4. EveryEventIsCounted'
    BY <1>t, <2>h DEF EveryEventIsCounted, CallerCount, CountType
  <2>5. FailuresAreHandedOnce'
    BY <1>t DEF FailuresAreHandedOnce, DrainHolds, CountType
  <2> QED BY <1>w, <2>1, <2>2, <2>3, <2>4, <2>5, <2>6, <2>7, <2>8
       DEF NotifierInv, NotifierType
<1>14. CASE JoinTimesOut
  <2> USE <1>14 DEF JoinTimesOut, Pumped, ThreadEnded, aggregation, thread, stopping, counts
  <2>1. SwitchType' /\ WindowType'
    BY <1>t DEF SwitchType, WindowType
  <2>6. QueueType'
    BY <1>t DEF QueueType, CallerHolds, DrainHolds, CountType
  <2>7. CountType'
    BY <1>t, <2>6 DEF CountType, QueueType
  <2>2. (CallerHolds /\ DrainHolds)'
    BY <1>t DEF CallerHolds, DrainHolds, QueueType
  <2>3. (Synchronous /\ Deferred)'
    BY <1>t DEF Synchronous, Deferred, CallerHolds
  <2>8. Stopping'
    BY <1>t DEF Stopping, Synchronous, CallerHolds
  <2>h. Held(carried) = CallerCount /\ (Held(carried) = CallerCount)'
    BY <1>t, <2>2, HeldIsCounted, PTL
  <2>4. EveryEventIsCounted'
    BY <1>t, <2>h DEF EveryEventIsCounted, CallerCount, CountType
  <2>5. FailuresAreHandedOnce'
    BY <1>t DEF FailuresAreHandedOnce, DrainHolds, CountType
  <2> QED BY <1>w, <2>1, <2>2, <2>3, <2>4, <2>5, <2>6, <2>7, <2>8
       DEF NotifierInv, NotifierType
<1>15. ASSUME NEW k \in Keys, Suppress(k) PROVE NotifierInv'
  <2>x. /\ UNCHANGED <<deferred, now, caller, carried, queue, drain, inHand, stop, unseen, success, failure, dropped,
                       pending, handed>>
        /\ sends < MaxSends /\ sends' = sends + 1 /\ suppressed' = suppressed + 1
    BY <1>15 DEF Suppress, thread, stopping, counts
  <2>w. recent' \in [Keys -> Windows \cup {Never}] /\ owed' \in [Keys -> Nat]
        /\ WindowsCount' /\ OwedIsSuppressed'
    BY <1>15, SuppressWindows
  <2>1. SwitchType' /\ WindowType'
    BY <1>t, <2>x, <2>w DEF SwitchType, WindowType
  <2>6. QueueType'
    BY <1>t, <2>x, <2>w DEF QueueType, CallerHolds, DrainHolds, CountType
  <2>7. CountType'
    BY <1>t, <2>x, <2>w, <2>6 DEF CountType, QueueType
  <2>2. (CallerHolds /\ DrainHolds)'
    BY <1>t, <2>x DEF CallerHolds, DrainHolds, QueueType
  <2>3. (Synchronous /\ Deferred)'
    BY <1>t, <2>x DEF Synchronous, Deferred, CallerHolds
  <2>8. Stopping'
    BY <1>t, <2>x DEF Stopping, Synchronous, CallerHolds
  <2>h. Held(carried) = CallerCount /\ (Held(carried) = CallerCount)'
    BY <1>t, <2>x, <2>2, HeldIsCounted, PTL
  <2>4. EveryEventIsCounted'
    BY <1>t, <2>x, <2>h DEF EveryEventIsCounted, CallerCount, CountType
  <2>5. FailuresAreHandedOnce'
    BY <1>t, <2>x DEF FailuresAreHandedOnce, DrainHolds, CountType
  <2> QED BY <2>w, <2>1, <2>2, <2>3, <2>4, <2>5, <2>6, <2>7, <2>8
       DEF NotifierInv, NotifierType
<1>16. ASSUME NEW k \in Keys, Accept(k) PROVE NotifierInv'
  <2> USE <1>16 DEF Accept, thread, stopping, counts
  <2>w. recent' \in [Keys -> Windows \cup {Never}] /\ owed' \in [Keys -> Nat]
        /\ WindowsCount' /\ OwedIsSuppressed'
    BY AcceptWindows
  <2>1. SwitchType' /\ WindowType'
    BY <1>t, <2>w DEF SwitchType, WindowType
  <2>6. QueueType'
    BY <1>t, <2>w DEF QueueType, CallerHolds, DrainHolds, CountType
  <2>7. CountType'
    BY <1>t, <2>w, <2>6 DEF CountType, QueueType
  <2>2. (CallerHolds /\ DrainHolds)'
    BY <1>t, AcceptWindows DEF CallerHolds, DrainHolds, QueueType
  <2>3. (Synchronous /\ Deferred)'
    BY <1>t DEF Synchronous, Deferred, CallerHolds
  <2>8. Stopping'
    BY <1>t DEF Stopping, Synchronous, CallerHolds
  <2>h. Held(carried) = CallerCount /\ (Held(carried) = CallerCount)'
    BY <1>t, <2>2, HeldIsCounted, PTL
  <2>4. EveryEventIsCounted'
    BY <1>t, <2>h DEF EveryEventIsCounted, CallerCount, CountType
  <2>5. FailuresAreHandedOnce'
    BY <1>t DEF FailuresAreHandedOnce, DrainHolds, CountType
  <2> QED BY <2>w, <2>1, <2>2, <2>3, <2>4, <2>5, <2>6, <2>7, <2>8
       DEF NotifierInv, NotifierType
<1>18. CASE EndOrWait
  <2> USE <1>18 DEF EndOrWait, aggregation, thread, stopping, counts
  <2>1. SwitchType' /\ WindowType'
    BY <1>t DEF SwitchType, WindowType
  <2>6. QueueType'
    BY <1>t DEF QueueType, CallerHolds, DrainHolds, CountType
  <2>7. CountType'
    BY <1>t, <2>6 DEF CountType, QueueType
  <2>2. (CallerHolds /\ DrainHolds)'
    BY <1>t DEF CallerHolds, DrainHolds, QueueType
  <2>3. (Synchronous /\ Deferred)'
    BY <1>t DEF Synchronous, Deferred, CallerHolds
  <2>8. Stopping'
    BY <1>t DEF Stopping, Synchronous, CallerHolds
  <2>h. Held(carried) = CallerCount /\ (Held(carried) = CallerCount)'
    BY <1>t, <2>2, HeldIsCounted, PTL
  <2>4. EveryEventIsCounted'
    BY <1>t, <2>h DEF EveryEventIsCounted, CallerCount, CountType
  <2>5. FailuresAreHandedOnce'
    BY <1>t DEF FailuresAreHandedOnce, DrainHolds, CountType
  <2> QED BY <1>w, <2>1, <2>2, <2>3, <2>4, <2>5, <2>6, <2>7, <2>8
       DEF NotifierInv, NotifierType
<1>17. CASE UNCHANGED notifierVars
  <2> USE <1>17 DEF notifierVars, aggregation, thread, stopping, counts
  <2>1. SwitchType' /\ WindowType'
    BY <1>t DEF SwitchType, WindowType
  <2>6. QueueType'
    BY <1>t DEF QueueType, CallerHolds, DrainHolds, CountType
  <2>7. CountType'
    BY <1>t, <2>6 DEF CountType, QueueType
  <2>2. (CallerHolds /\ DrainHolds /\ Synchronous /\ Deferred /\ Stopping)'
    BY <1>t DEF CallerHolds, DrainHolds, Synchronous, Deferred, Stopping
  <2>3. (EveryEventIsCounted /\ FailuresAreHandedOnce)'
    BY <1>t DEF EveryEventIsCounted, FailuresAreHandedOnce, Held
  <2> QED BY <1>w, <2>1, <2>2, <2>3, <2>6, <2>7 DEF NotifierInv, NotifierType
<1> QED
  BY <1>1, <1>2, <1>3, <1>4, <1>5, <1>6, <1>7, <1>8, <1>9, <1>10, <1>11, <1>12, <1>13,
       <1>14, <1>15, <1>16, <1>17, <1>18 DEF NotifierNext, DrainStep, CallerStep

\* The inductive invariant of the notifier, whatever its queue and window.
THEOREM NotifierInvHolds == NotifierSpec => []NotifierInv
<1> QED BY NotifierInitInv, NotifierStep, PTL DEF NotifierSpec

\* It implies what the run checks.
LEMMA NotifierInvIsSound == NotifierInv => NotifierIsSound
<1> SUFFICES ASSUME NotifierInv PROVE NotifierIsSound
  OBVIOUS
<1> USE EventsAreReal DEF NotifierInv
<1>1. Len(pending) <= MaxSends
  <2>1. Held(carried) \in Nat /\ Len(queue) \in Nat /\ Len(pending) \in Nat
    BY DEF Held, NotifierType, WindowType, CountType, SwitchType, QueueType
  <2> QED BY <2>1, NotifierAssumption
       DEF EveryEventIsCounted, FailuresAreHandedOnce, NotifierType, WindowType, CountType,
           SwitchType, QueueType
<1>2. (inHand # NoEvent) = (drain \in {"sending", "failing"})
  BY DEF DrainHolds
<1>3. (carried # NoEvent) = (caller \in {"put", "evict", "put_again", "deliver"})
  BY DEF CallerHolds
<1>4. NotifierTypeOK
  BY <1>1, <1>2, <1>3
     DEF NotifierTypeOK, NotifierType, WindowType, CountType, SwitchType, QueueType,
         Synchronous, OwedIsSuppressed
<1>5. NothingIsForgotten
  <2> SUFFICES ASSUME caller = "closed"
               PROVE  pending = <<>> /\ failure = handed /\ (unseen \/ queue = <<>>)
    BY DEF NothingIsForgotten
  <2>1. drain = "ended" /\ stop /\ pending = <<>>
    BY DEF Stopping
  <2>2. unseen \/ queue = <<>>
    BY <2>1 DEF Stopping
  <2> QED BY <2>1, <2>2
       DEF FailuresAreHandedOnce, NotifierType, WindowType, CountType, SwitchType, QueueType
<1> QED BY <1>4, <1>5 DEF NotifierIsSound

\* Every event sent is suppressed, delivered, failed, dropped, queued or in a
\* thread's hands, once; failures are handed on once; and a close that joined
\* the drain thread leaves an event behind only if it came between that thread's
\* look at the queue and its test of _stop (_enqueue, _drain_loop, close).
THEOREM NotifierIsSoundHolds == NotifierSpec => []NotifierIsSound
<1> QED BY NotifierInvHolds, NotifierInvIsSound, PTL

\* The step property, for one key.
Repeats(k) ==
  carried = NoEvent /\ carried'.key = k /\ recent[k] # Never /\ now - recent[k].start <= 2 * Window
    => carried'.repeats = owed[k]

\* Only an accepted event begins to be carried, with its window's count.
LEMMA RepeatsStep == NotifierInv /\ [NotifierNext]_notifierVars => \A k \in Keys : Repeats(k)
<1> SUFFICES ASSUME NotifierInv, [NotifierNext]_notifierVars, NEW k \in Keys, carried = NoEvent,
                    carried'.key = k, recent[k] # Never, now - recent[k].start <= 2 * Window
             PROVE  carried'.repeats = owed[k]
  BY DEF Repeats
<1>1. carried' # NoEvent
  BY NotifierAssumption DEF NoEvent
<1>2. PICK j \in Keys : Accept(j)
  BY <1>1 DEF NotifierNext, DrainStep, CallerStep, Advance, Close, Take, Delivered,
         AnsweredFalse,
     RecordFailure, FindNothing, EndOrWait, DeliverNow, Put, Evict, PutAgain, Pump, Joined, JoinTimesOut, Suppress,
     notifierVars
<1>3. j = k /\ carried'.repeats = Fresh[k].count
  BY <1>2 DEF Accept
<1>4. recent[k].start \in Int /\ now \in Int
  BY DEF NotifierInv, NotifierType, WindowType, CountType, Windows, Never
<1>5. ~Stale(recent[k])
  BY <1>4, NotifierAssumption DEF Stale
<1>6. Fresh[k] = recent[k]
  BY <1>5 DEF Fresh
<1> QED BY <1>3, <1>6 DEF NotifierInv, WindowsCount

\* The next notice of an event tells of every repeat suppressed since the last
\* one, unless two windows have gone by (SafeNotifier._aggregate).
THEOREM RepeatsAreToldHolds == NotifierSpec => RepeatsAreTold
<1>1. NotifierInv /\ [NotifierNext]_notifierVars => [\A k \in Keys : Repeats(k)]_notifierVars
  BY RepeatsStep
<1> QED BY <1>1, NotifierInvHolds, PTL DEF NotifierSpec, RepeatsAreTold, Repeats
=============================================================================
