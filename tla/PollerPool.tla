----------------------------- MODULE PollerPool -----------------------------
(***************************************************************************)
(* How ztk_poller_pool_get chooses a poller: by the share of recent time   *)
(* each loop has been running, kept by ztk_poller_load, starting behind    *)
(* the last choice.  The choice holds the pool's mutex and takes less than *)
(* a tick of the millisecond clock.                                        *)
(***************************************************************************)
EXTENDS Integers

CONSTANTS
  NPool,    \* count
  Window,   \* ZTK_POLLER_LOAD_WINDOW_MS
  MaxTime   \* bound: the clock

ASSUME PoolAssumption == NPool \in Nat \ {0} /\ Window \in Nat \ {0} /\ MaxTime \in Nat

Slots0 == 0 .. NPool - 1

VARIABLES
  now,         \* ztk_monotonic_ms
  load,        \* run_ms, sleep_ms, last_ms, sleeping of each poller
  threadPos,   \* thread_pos
  prefer,      \* prefer_current
  picked       \* history: the poller chosen last and the loads at that time

poolVars == <<now, load, threadPos, prefer, picked>>

PoolTypeOK ==
  /\ now \in 0 .. MaxTime /\ threadPos \in Slots0 /\ prefer \in BOOLEAN
  /\ load \in [Slots0 -> [run : Nat, sleep : Nat, last : 0 .. MaxTime, sleeping : BOOLEAN]]

\* ztk_poller_load_init.
NewLoad == [run |-> 0, sleep |-> 0, last |-> 0, sleeping |-> FALSE]

\* ztk_poller_pool_create.
PoolInit ==
  /\ now = 0 /\ threadPos = 0 /\ prefer \in BOOLEAN
  /\ load = [p \in Slots0 |-> NewLoad]
  /\ picked = [best |-> 0, loads |-> [p \in Slots0 |-> 0]]

\* The time since last_ms goes to the state the loop is in.
Charged(l) ==
  IF l.sleeping THEN [l EXCEPT !.sleep = @ + (now - l.last), !.last = now]
  ELSE [l EXCEPT !.run = @ + (now - l.last), !.last = now]

\* mark_time.
MarkTime(l, sleeping) ==
  LET c == [Charged(l) EXCEPT !.sleeping = sleeping] IN
    IF c.run + c.sleep > Window
    THEN [c EXCEPT !.run = @ \div 2, !.sleep = @ \div 2]
    ELSE c

\* ztk_poller_load_percent.
Percent(l) ==
  LET c == Charged(l) IN
    IF c.run + c.sleep > 0 THEN (c.run * 100) \div (c.run + c.sleep) ELSE 0

Tick == now < MaxTime /\ now' = now + 1 /\ UNCHANGED <<load, threadPos, prefer, picked>>

\* ztk_poller_load_on_sleep and _on_wake, around the wait of ztk_poller_poll.
OnSleep(p) ==
  /\ ~load[p].sleeping /\ load' = [load EXCEPT ![p] = MarkTime(@, TRUE)]
  /\ UNCHANGED <<now, threadPos, prefer, picked>>
OnWake(p) ==
  /\ load[p].sleeping /\ load' = [load EXCEPT ![p] = MarkTime(@, FALSE)]
  /\ UNCHANGED <<now, threadPos, prefer, picked>>

\* Bug: a lighter poller moves the position but is not taken.
ScanPosOnly(s, i) ==
  LET idx == (s.pos + i) % NPool
      l == Percent(load[idx])
      t == IF l < s.min THEN [s EXCEPT !.min = l, !.pos = idx] ELSE s
  IN  IF s.done THEN s ELSE [t EXCEPT !.done = (t.min = 0), !.seen = @ \cup {idx}]

\* One turn of ztk_poller_pool_get's loop: a lighter poller moves pos, from which the next
\* index is counted.
Scan(s, i) ==
  LET idx == (s.pos + i) % NPool
      l == Percent(load[idx])
      t == IF l < s.min THEN [s EXCEPT !.min = l, !.best = idx, !.pos = idx] ELSE s
  IN  IF s.done THEN s ELSE [t EXCEPT !.done = (t.min = 0), !.seen = @ \cup {idx}]

\* The state of the scan before its first turn.
ScanInit ==
  [pos |-> threadPos, best |-> threadPos, min |-> Percent(load[threadPos]),
   done |-> FALSE, seen |-> {threadPos}]

Choice ==
  LET run[k \in 0 .. NPool] == IF k = 0 THEN ScanInit ELSE Scan(run[k - 1], k - 1)
  IN  run[NPool]

\* ztk_poller_pool_get, by load.  Reading a load brings its account up to date.
Get ==
  /\ threadPos' = (Choice.pos + 1) % NPool
  /\ load' = [p \in Slots0 |-> IF p \in Choice.seen THEN Charged(load[p]) ELSE load[p]]
  /\ picked' = [best |-> Choice.best, loads |-> [p \in Slots0 |-> Percent(load[p])]]
  /\ UNCHANGED <<now, prefer>>

\* ztk_poller_pool_get_loads into an array with room for n.
GetLoads(n) ==
  /\ load' = [p \in Slots0 |-> IF p < n THEN Charged(load[p]) ELSE load[p]]
  /\ UNCHANGED <<now, threadPos, prefer, picked>>

\* ztk_poller_pool_set_prefer_current_thread.  With it, a call on the thread of a poller
\* that asks for it gets that poller and nothing else changes.
SetPrefer == prefer' = ~prefer /\ UNCHANGED <<now, load, threadPos, picked>>

PoolNext ==
  \/ Tick \/ Get \/ SetPrefer
  \/ \E p \in Slots0 : OnSleep(p) \/ OnWake(p) \/ GetLoads(p + 1)

PoolSpec == PoolInit /\ [][PoolNext]_poolVars

\* A choice by load looks at the poller at thread_pos and at the one behind it, takes one
\* no heavier than those and than any other it has looked at, though every move shifts the
\* places it looks at next, and leaves thread_pos behind the one taken, so that pollers
\* of equal load take turns (ztk_poller_pool_get).
TakesLightestSeen ==
  [][Get => /\ threadPos' = (picked'.best + 1) % NPool
            /\ \A p \in Choice.seen \cup {threadPos, (threadPos + 1) % NPool} :
                 picked'.loads[picked'.best] <= picked'.loads[p]]_poolVars

\* The poller chosen is a least loaded one of the pool (ztk_poller_pool_get,
\* ztk_tcp_pick_poller_from_pool).
PickLightest == \A p \in Slots0 : picked.loads[picked.best] <= picked.loads[p]

=============================================================================
