------------------------------ MODULE TimerSet ------------------------------
(***************************************************************************)
(* What the poller's timer heap promises: a set of armed timers with       *)
(* deadlines, from which the earliest can be taken and any can be removed. *)
(***************************************************************************)
EXTENDS Naturals

CONSTANTS Timers, Deadlines

VARIABLES
  armed,   \* the timers in the heap
  dl       \* deadline_ms of every timer

Earliest == {t \in armed : \A u \in armed : dl[t] <= dl[u]}

Init == armed = {} /\ dl = [t \in Timers |-> 0]

Arm(t, d) ==
  /\ armed' = armed \cup {t}
  /\ dl' = [dl EXCEPT ![t] = d]

\* A timer that cannot be armed has its deadline set all the same.
Refuse(t, d) ==
  /\ t \notin armed /\ UNCHANGED armed
  /\ dl' = [dl EXCEPT ![t] = d]

TakeMin(t) ==
  /\ t \in Earliest
  /\ armed' = armed \ {t}
  /\ UNCHANGED dl

Disarm(t) ==
  /\ armed' = armed \ {t}
  /\ UNCHANGED dl

Next ==
  \E t \in Timers :
    TakeMin(t) \/ Disarm(t) \/ \E d \in Deadlines : Arm(t, d) \/ Refuse(t, d)

Spec == Init /\ [][Next]_<<armed, dl>>
=============================================================================
