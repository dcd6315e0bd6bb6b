----------------------------- MODULE OptionChain -----------------------------
(***************************************************************************)
(* OptionChainService: the snapshots of a group's option chains, cached and *)
(* throttled per request key.  One lock is held from the look into the      *)
(* cache, over the wait for the broker's interval, to the end of the call.  *)
(* Time is the monotonic clock; payloads and statistics are left out.      *)
(***************************************************************************)
EXTENDS Integers

CONSTANTS Threads, Keys,
          Throttle,   \* _throttle
          Ttl,        \* _ttl
          Nobody

VARIABLES now,
          doing,      \* what each caller is doing
          asked,      \* the key it asks for
          owner,      \* _lock
          wakeAt,     \* when the owner's sleep is over
          cache,      \* _cache: received_monotonic of the snapshot, or Never
          lastCall,   \* _last_call_at
          answer,     \* what the last call of each caller returned, if it has
          started,    \* history: the last request of each key that was sent
          answeredAt  \* history: when each key was really answered

chainVars == <<now, doing, asked, owner, wakeAt, cache, lastCall, answer, started, answeredAt>>

Never == -1
Raised == -2

ChainInit ==
  /\ now = 0
  /\ doing = [t \in Threads |-> "idle"] /\ asked \in [Threads -> Keys]
  /\ owner = Nobody /\ wakeAt = 0
  /\ cache = [k \in Keys |-> Never] /\ lastCall = [k \in Keys |-> Never]
  /\ answer = [t \in Threads |-> Never]
  /\ started = [k \in Keys |-> Never] /\ answeredAt = [k \in Keys |-> {}]

-----------------------------------------------------------------------------
Fresh(k) == cache[k] # Never /\ now - cache[k] < Ttl

\* _wait_for
WaitFor(k) ==
  IF lastCall[k] = Never \/ now - lastCall[k] >= Throttle THEN 0
  ELSE Throttle - (now - lastCall[k])

Return(t, a) == doing' = [doing EXCEPT ![t] = "idle"] /\ answer' = [answer EXCEPT ![t] = a]

Request(t, k) ==
  /\ doing[t] = "idle" /\ doing' = [doing EXCEPT ![t] = "asking"]
  /\ asked' = [asked EXCEPT ![t] = k]
  /\ answer' = [answer EXCEPT ![t] = Never]
  /\ UNCHANGED <<now, owner, wakeAt, cache, lastCall, started, answeredAt>>

\* The lock is free, and the cache is good enough.
Hit(t) ==
  /\ doing[t] = "asking" /\ owner = Nobody /\ Fresh(asked[t])
  /\ Return(t, cache[asked[t]])
  /\ UNCHANGED <<now, asked, owner, wakeAt, cache, lastCall, started, answeredAt>>

\* It is not: _await_throttle, with the lock held.
Miss(t) ==
  /\ doing[t] = "asking" /\ owner = Nobody /\ ~Fresh(asked[t])
  /\ owner' = t /\ doing' = [doing EXCEPT ![t] = "waiting"] /\ wakeAt' = now + WaitFor(asked[t])
  /\ UNCHANGED <<now, asked, cache, lastCall, answer, started, answeredAt>>

\* The sleep is over, and the request goes out.
Fetch(t) ==
  /\ doing[t] = "waiting" /\ now >= wakeAt
  /\ doing' = [doing EXCEPT ![t] = "fetching"]
  /\ started' = [started EXCEPT ![asked[t]] = now]
  /\ UNCHANGED <<now, asked, owner, wakeAt, cache, lastCall, answer, answeredAt>>

\* Answered or not, the attempt is counted, and the lock is given up.
Ends(t) ==
  /\ doing[t] = "fetching" /\ owner' = Nobody
  /\ lastCall' = [lastCall EXCEPT ![asked[t]] = now]
  /\ UNCHANGED <<now, asked, wakeAt, started>>

Answered(t) ==
  LET k == asked[t] IN
  /\ Ends(t) /\ cache' = [cache EXCEPT ![k] = now]
  /\ answeredAt' = [answeredAt EXCEPT ![k] = @ \cup {now}]
  /\ Return(t, now)

\* The old snapshot is served with its true age, when there is one and the
\* caller will have it.
Failed(t) ==
  LET k == asked[t] IN
  /\ Ends(t) /\ UNCHANGED <<cache, answeredAt>>
  /\ \E allowStale \in BOOLEAN :
       Return(t, IF cache[k] # Never /\ allowStale THEN cache[k] ELSE Raised)

\* invalidate: the snapshots go, the throttle's memory stays.
Invalidate ==
  /\ owner = Nobody /\ cache' = [k \in Keys |-> Never]
  /\ UNCHANGED <<now, doing, asked, owner, wakeAt, lastCall, answer, started, answeredAt>>

Advance ==
  /\ \E t \in Nat : t > now /\ now' = t
  /\ UNCHANGED <<doing, asked, owner, wakeAt, cache, lastCall, answer, started, answeredAt>>

ChainNext ==
  \/ \E t \in Threads :
       \/ \E k \in Keys : Request(t, k)
       \/ Hit(t) \/ Miss(t) \/ Fetch(t) \/ Answered(t) \/ Failed(t)
  \/ Invalidate \/ Advance

ChainSpec == ChainInit /\ [][ChainNext]_chainVars

-----------------------------------------------------------------------------
SpacedStep ==
  \A k \in Keys : started'[k] # started[k] /\ started[k] # Never
                    => started'[k] - started[k] >= Throttle

(* Two requests for one key leave at least the broker's interval apart,     *)
(* whichever threads send them, however they end, and although the cache is *)
(* emptied in between (_await_throttle, invalidate).                       *)
RequestsAreSpaced == [][SpacedStep]_chainVars

(* There is one request under way at most, and its sender holds the lock.   *)
OneRequestAtATime ==
  \A s, t \in Threads : doing[s] = "fetching" /\ doing[t] = "fetching" => s = t

NeededStep ==
  \A k \in Keys : started'[k] # started[k] => cache[k] = Never \/ now - cache[k] >= Ttl

(* A request goes out only when no snapshot is fresh at that moment, and    *)
(* not merely when the caller looked: a burst of callers is one request     *)
(* (get).                                                                  *)
OnlyNeededRequests == [][NeededStep]_chainVars

(* Whatever is answered was really received from the broker, for that key   *)
(* and at the time it says: a failure never makes an old snapshot look new, *)
(* and no snapshot is served for another chain (get).                      *)
AnswersAreReal ==
  \A t \in Threads : answer[t] \in {Never, Raised} \cup answeredAt[asked[t]]
===============================================================================
