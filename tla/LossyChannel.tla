----------------------------- MODULE LossyChannel -----------------------------
(***************************************************************************)
(* What the hub and a worker promise each other about ticks, numbered from *)
(* one in the order they are offered: a tick in transit may be lost, but   *)
(* what is delivered is delivered in order and once, a tick is offered     *)
(* only when at most Capacity are in transit, and a channel that was       *)
(* closed ends only when nothing is left in it.  The queue, its feeder     *)
(* thread, its locks, the evictions and the notices are not mentioned:     *)
(* TickChannel implements this specification.                              *)
(***************************************************************************)
EXTENDS Integers, FiniteSets

CONSTANTS Capacity, MaxSent

VARIABLES sent,        \* ticks offered
          transit,     \* offered, not yet lost or delivered
          delivered,   \* the last tick delivered
          phase

vars == <<sent, transit, delivered, phase>>

Init == sent = 0 /\ transit = {} /\ delivered = 0 /\ phase = "open"

Send ==
  /\ phase = "open" /\ sent < MaxSent /\ Cardinality(transit) <= Capacity
  /\ sent' = sent + 1 /\ transit' = transit \cup {sent + 1}
  /\ UNCHANGED <<delivered, phase>>

Lose ==
  /\ \E n \in transit : transit' = transit \ {n}
  /\ UNCHANGED <<sent, delivered, phase>>

Deliver ==
  /\ phase # "ended"
  /\ \E n \in transit : /\ delivered < n /\ \A m \in transit : n <= m
                        /\ delivered' = n /\ transit' = transit \ {n}
  /\ UNCHANGED <<sent, phase>>

Close == phase = "open" /\ phase' = "closed" /\ UNCHANGED <<sent, transit, delivered>>

\* The receiving side has seen the close.
End ==
  /\ phase = "closed" /\ transit = {} /\ phase' = "ended"
  /\ UNCHANGED <<sent, transit, delivered>>

Next == Send \/ Lose \/ Deliver \/ Close \/ End

Spec == Init /\ [][Next]_vars
=============================================================================
