------------------------------ MODULE Admission ------------------------------
(***************************************************************************)
(* Which of the configured strategies a start of the group lets trade, and *)
(* under whose name their orders are filed: build_supervisor admits them   *)
(* in the order of their files, each worker is a process that takes its    *)
(* own lock and chooses the engine or the fixture path, and an order is    *)
(* filed under a correlation id made of mode, strategy token, date and     *)
(* number.  A supervisor that is killed leaves its workers behind.         *)
(***************************************************************************)
EXTENDS Integers

CONSTANTS Strategies,   \* the enabled strategy files
          Rank,         \* their order
          Token,        \* the four characters a correlation id has of each
          Live,         \* those configured for live execution
          WithEngine,   \* those that name an engine strategy (strategy_ref)
          Selections,   \* what may be started: everything, or one (--strategy-id)
          Days          \* 0 to the last day looked at

VARIABLES today,
          group,     \* the supervisor: "down" or "up"
          spawned,   \* worker processes that have not asked for their lock yet
          mine,      \* the workers the supervisor will join
          state,     \* of the process that has, or had, a strategy's lock
          date,      \* the trading date it was given
          placed     \* rows of order_intents, by strategy and date

admissionVars == <<today, group, spawned, mine, state, date, placed>>

Alive(s) == state[s] \in {"fixture", "engine"}

\* add_worker, in turn: a live strategy is refused by itself, and one whose token
\* an earlier one of this run has.
Admitted(S) ==
  {s \in S \ Live : \A t \in S \ Live : Token[t] = Token[s] => Rank[s] <= Rank[t]}

\* build_supervisor asks for no tick channel.
TickChannel(s) == FALSE

AdmissionInit ==
  /\ today = 0 /\ group = "down" /\ spawned = {} /\ mine = {}
  /\ state = [s \in Strategies |-> "none"] /\ date = [s \in Strategies |-> 0]
  /\ placed = [s \in Strategies |-> [d \in Days |-> 0]]

\* run: a process for each, with the date of its configuration.
StartGroup(S) ==
  /\ group = "down" /\ group' = "up" /\ mine' = {}
  /\ spawned' = spawned \cup {[who |-> s, date |-> today] : s \in Admitted(S)}
  /\ UNCHANGED <<today, state, date, placed>>

\* run_worker: refused while another process of the strategy lives; the engine
\* path wants its tick queue.
StartWorker(w) ==
  LET s == w.who IN
  /\ w \in spawned /\ spawned' = spawned \ {w}
  /\ IF Alive(s) THEN UNCHANGED <<mine, state, date>>
     ELSE /\ state' = [state EXCEPT ![s] = IF s \notin WithEngine THEN "fixture"
                                           ELSE IF TickChannel(s) THEN "engine" ELSE "refused"]
          /\ date' = [date EXCEPT ![s] = w.date]
          /\ mine' = IF group = "up" THEN mine \cup {s} ELSE mine
  /\ UNCHANGED <<today, group, placed>>

LoseWorker(w) ==
  /\ w \in spawned /\ spawned' = spawned \ {w}
  /\ UNCHANGED <<today, group, mine, state, date, placed>>

\* MAX(sequence_number) + 1, from an empty table: a strategy's rows are 1, 2, ...
NextSequenceNumber(s) == placed[s][date[s]] + 1

Taken(s, n) ==
  \E t \in Strategies : Token[t] = Token[s] /\ n <= placed[t][date[s]]

\* handle_signal: the row of the intent is unique by its correlation id, and an
\* insert that is not ends the worker.
PlaceOrder(s) ==
  /\ Alive(s)
  /\ IF Taken(s, NextSequenceNumber(s))
       THEN state' = [state EXCEPT ![s] = "crashed"] /\ UNCHANGED placed
       ELSE /\ placed' = [placed EXCEPT ![s][date[s]] = NextSequenceNumber(s)]
            /\ UNCHANGED state
  /\ UNCHANGED <<today, group, spawned, mine, date>>

\* Of itself, by the supervisor that stops, or by a kill.
EndWorker(s) ==
  /\ Alive(s) /\ state' = [state EXCEPT ![s] = "ended"]
  /\ UNCHANGED <<today, group, spawned, mine, date, placed>>

\* run() joins or terminates the workers it spawned.
EndGroup ==
  /\ group = "up" /\ spawned = {} /\ \A s \in mine : ~Alive(s)
  /\ group' = "down" /\ UNCHANGED <<today, spawned, mine, state, date, placed>>

KillGroup ==
  /\ group = "up" /\ group' = "down" /\ UNCHANGED <<today, spawned, mine, state, date, placed>>

Midnight ==
  /\ today + 1 \in Days /\ today' = today + 1
  /\ UNCHANGED <<group, spawned, mine, state, date, placed>>

AdmissionNext ==
  \/ \E S \in Selections : StartGroup(S)
  \/ \E w \in spawned : StartWorker(w) \/ LoseWorker(w)
  \/ \E s \in Strategies : PlaceOrder(s) \/ EndWorker(s)
  \/ EndGroup \/ KillGroup \/ Midnight

AdmissionSpec == AdmissionInit /\ [][AdmissionNext]_admissionVars

-----------------------------------------------------------------------------
(* Of two strategies that would write the same correlation ids, one at most *)
(* has a row on any day: the paper trail of an order is its own             *)
(* (order_intents.correlation_id).                                         *)
TrailsAreSeparate ==
  \A s, t \in Strategies : s # t /\ Token[s] = Token[t] =>
    \A d \in Days : placed[s][d] = 0 \/ placed[t][d] = 0

(* A strategy that is configured for live execution never trades, not even  *)
(* on paper (_live_admission_refusal, build_broker).                       *)
LiveNeverTrades == \A s \in Live : state[s] = "none" /\ \A d \in Days : placed[s][d] = 0

(* No admitted worker is ended by another strategy's correlation id: the    *)
(* collision was to be refused at admission, and not to surface as the      *)
(* crash of a worker (strategy_token).  Kept as long as the group is always *)
(* started whole; starts of single strategies break it.                    *)
NoCollisionCrash == \A s \in Strategies : state[s] # "crashed"

(* A strategy that is configured for the engine is driven by it             *)
(* (EngineWorkerConfig).  build_supervisor breaks it.                      *)
EngineStrategiesRun == \A s \in Strategies : state[s] # "refused"
=============================================================================
