---------------------------- MODULE PollerTimer ----------------------------
(***************************************************************************)
(* The timers of one ztk_poller: ztk_poller_do_delay and                   *)
(* ztk_poller_timer_cancel, called on the loop thread and on others, the   *)
(* flush of expired timers before every wait, and what ztk_poller_destroy  *)
(* does with both the heap and the tasks that name timers.                 *)
(*                                                                         *)
(* The heap is the set TimerSet says it is (TimerHeap implements it), the  *)
(* task list and the wake pipe are those of PollerLoop: here a post and    *)
(* its wake are one step.  Callbacks of timers run with timer_mtx held, so *)
(* they make no timer calls on the loop thread: one that does never        *)
(* returns from the lock.                                                  *)
(***************************************************************************)
EXTENDS Integers, Sequences

CONSTANTS
  Timers,     \* the timers ever allocated
  Delays,     \* what do_delay is asked for and what callbacks return, 0 included
  MaxNow,     \* bound on deadlines and on the clock
  FlushMax,   \* ZTK_TIMER_FLUSH_MAX
  PollMs,     \* ZTK_POLLER_PENDING_POLL_MS
  NoTimer

ASSUME PollerTimerAssumption ==
  /\ Delays \subseteq Nat /\ MaxNow \in Nat
  /\ FlushMax \in Nat \ {0} /\ PollMs \in Nat \ {0}
  /\ NoTimer \notin Timers

VARIABLES
  armed, dl,   \* the heap and the timers' deadline_ms
  mem,         \* per timer: not allocated yet, live, freed
  cancelled,   \* per timer: its flag
  marking,     \* timers a thread has marked and not yet posted the cancel of
  tasks,       \* the poller's task list: insert and cancel tasks
  batch,       \* the list drain_tasks walks
  wake,        \* a byte is in the wake pipe
  now,         \* ztk_monotonic_ms
  pc,          \* where the loop thread is
  req,         \* the timeout asked of resolve_timeout_ms, Forever for -1
  last,        \* this resolve is ztk_poller_poll's own, not ztk_poller_run's
  stamp, left, \* now_ms of the flush, timers it may still process
  cur,         \* the timer whose callback runs
  until,       \* when the wait times out, Forever for never
  asleep,      \* when the wait began
  dropped,     \* history: timers whose insertion found no memory
  quiet        \* history: timers whose cancellation has taken effect

heapVars == <<armed, dl>>
timerVars == <<mem, cancelled, marking>>
taskVars == <<tasks, batch, wake>>
flushVars == <<req, last, stamp, left, cur>>
waitVars == <<until, asleep>>
histVars == <<dropped, quiet>>
vars == <<heapVars, timerVars, taskVars, now, pc, flushVars, waitVars, histVars>>

Forever == -1
Task == [op : {"insert", "cancel"}, timer : Timers, at : 0 .. MaxNow]
Heap == INSTANCE TimerSet WITH Deadlines <- 0 .. MaxNow

TypeOK ==
  /\ armed \in SUBSET Timers /\ dl \in [Timers -> 0 .. MaxNow]
  /\ mem \in [Timers -> {"none", "live", "freed"}]
  /\ cancelled \in [Timers -> BOOLEAN] /\ marking \in SUBSET Timers
  /\ tasks \in Seq(Task) /\ batch \in Seq(Task) /\ wake \in BOOLEAN
  /\ now \in 0 .. MaxNow /\ stamp \in 0 .. MaxNow /\ asleep \in 0 .. MaxNow
  /\ pc \in {"off", "top", "flush", "callback", "wait", "events", "tasks",
             "fini", "dead", "undefined"}
  /\ req \in Nat \cup {Forever} /\ until \in Nat \cup {Forever}
  /\ last \in BOOLEAN /\ left \in 0 .. FlushMax
  /\ cur \in Timers \cup {NoTimer}
  /\ dropped \in SUBSET Timers /\ quiet \in SUBSET Timers

Init ==
  /\ Heap!Init
  /\ mem = [t \in Timers |-> "none"]
  /\ cancelled = [t \in Timers |-> FALSE] /\ marking = {}
  /\ tasks = <<>> /\ batch = <<>> /\ wake = FALSE
  /\ now = 0 /\ pc = "off"
  /\ req = 0 /\ last = TRUE /\ stamp = 0 /\ left = 0 /\ cur = NoTimer
  /\ until = 0 /\ asleep = 0
  /\ dropped = {} /\ quiet = {}

Destroyed == pc \in {"fini", "dead", "undefined"}

-----------------------------------------------------------------------------
(* Calls of threads that are not the owner of the poller                   *)

\* ztk_poller_do_delay: the insertion goes to the front of the task list.
RemoteDelay(t, d) ==
  /\ ~Destroyed /\ mem[t] = "none" /\ now + d <= MaxNow
  /\ mem' = [mem EXCEPT ![t] = "live"]
  /\ tasks' = <<[op |-> "insert", timer |-> t, at |-> now + d]>> \o tasks
  /\ wake' = TRUE
  /\ UNCHANGED <<heapVars, cancelled, marking, batch, now, pc, flushVars, waitVars, histVars>>

\* ztk_poller_timer_cancel sets the flag of a timer the caller knows live ...
RemoteMark(t) ==
  /\ ~Destroyed /\ mem[t] = "live" /\ t \notin marking /\ ~cancelled[t]
  /\ cancelled' = [cancelled EXCEPT ![t] = TRUE]
  /\ marking' = marking \cup {t}
  /\ UNCHANGED <<heapVars, mem, taskVars, now, pc, flushVars, waitVars, histVars>>

\* ... then reads timer->poller and posts the removal at the back of the list.
RemotePost(t) ==
  /\ t \in marking /\ ~Destroyed
  /\ marking' = marking \ {t}
  /\ IF mem[t] = "freed"
     THEN pc' = "undefined" /\ UNCHANGED <<tasks, wake>>
     ELSE /\ tasks' = Append(tasks, [op |-> "cancel", timer |-> t, at |-> 0])
          /\ wake' = TRUE /\ UNCHANGED pc
  /\ UNCHANGED <<heapVars, mem, cancelled, batch, now, flushVars, waitVars, histVars>>

\* No memory for the cancel task: only the flag is set.
RemoteNoMem(t) ==
  /\ t \in marking /\ ~Destroyed /\ mem[t] = "live"
  /\ marking' = marking \ {t}
  /\ UNCHANGED <<heapVars, mem, cancelled, taskVars, now, pc, flushVars, waitVars, histVars>>

-----------------------------------------------------------------------------
(* Calls on the loop thread, from fd callbacks and tasks                   *)

\* insert_locked; a heap that cannot grow drops the timer silently.
ArmOrDrop(t, d) ==
  \/ Heap!Arm(t, d) /\ UNCHANGED dropped
  \/ /\ dl' = [dl EXCEPT ![t] = d] /\ dropped' = dropped \cup {t}
     /\ UNCHANGED armed

LocalDelay(t, d) ==
  /\ pc = "events" /\ mem[t] = "none" /\ now + d <= MaxNow
  /\ mem' = [mem EXCEPT ![t] = "live"]
  /\ ArmOrDrop(t, now + d)
  /\ wake' = TRUE
  /\ UNCHANGED <<cancelled, marking, tasks, batch, now, pc, flushVars, waitVars, quiet>>

LocalCancel(t) ==
  /\ pc = "events" /\ mem[t] = "live" /\ ~cancelled[t]
  /\ cancelled' = [cancelled EXCEPT ![t] = TRUE]
  /\ Heap!Disarm(t)
  /\ quiet' = quiet \cup {t}
  /\ UNCHANGED <<mem, marking, taskVars, now, pc, flushVars, waitVars, dropped>>

-----------------------------------------------------------------------------
(* The loop thread: resolve_timeout_ms                                     *)

\* ztk_poller_resolve_timeout_ms(p, r) is entered and reads the clock.
Resolve(r, final) ==
  /\ pc' = "flush" /\ req' = r /\ last' = final
  /\ stamp' = now /\ left' = FlushMax

\* A turn of ztk_poller_run, which resolves its timeout and has poll resolve it
\* again, or of a loop around ztk_poller_poll(p, -1).
TurnBegins(r) ==
  /\ pc = "top" /\ r \in {PollMs, Forever}
  /\ Resolve(r, r = Forever)
  /\ UNCHANGED <<heapVars, timerVars, taskVars, now, cur, waitVars, histVars>>

Due == {t \in Heap!Earliest : dl[t] <= stamp}

\* Bug: the flag is not looked at before the callback.
FlushPopUnchecked(t) ==
  /\ pc = "flush" /\ left > 0 /\ t \in Due
  /\ Heap!TakeMin(t)
  /\ left' = left - 1
  /\ pc' = "callback" /\ cur' = t
  /\ UNCHANGED <<mem, cancelled, marking, taskVars, now, req, last, stamp, waitVars, histVars>>

\* The earliest timer is popped: freed if it is cancelled, called if not.
FlushPop(t) ==
  /\ pc = "flush" /\ left > 0 /\ t \in Due
  /\ Heap!TakeMin(t)
  /\ left' = left - 1
  /\ IF cancelled[t]
     THEN mem' = [mem EXCEPT ![t] = "freed"] /\ UNCHANGED <<pc, cur>>
     ELSE pc' = "callback" /\ cur' = t /\ UNCHANGED mem
  /\ UNCHANGED <<cancelled, marking, taskVars, now, req, last, stamp, waitVars, histVars>>

\* Bug: a timer that is not called again is forgotten and never freed.
CallbackEndNoFree(next) ==
  /\ pc = "callback" /\ stamp + next <= MaxNow
  /\ pc' = "flush" /\ cur' = NoTimer
  /\ IF next > 0 /\ ~cancelled[cur]
     THEN ArmOrDrop(cur, stamp + next)
     ELSE UNCHANGED <<heapVars, dropped>>
  /\ UNCHANGED <<timerVars, taskVars, now, req, last, stamp, left, waitVars, quiet>>

\* The callback returns: 0, or a flag set meanwhile, frees the timer, anything
\* else arms it that much after the time the flush began.
CallbackEnd(next) ==
  /\ pc = "callback" /\ stamp + next <= MaxNow
  /\ pc' = "flush" /\ cur' = NoTimer
  /\ IF next > 0 /\ ~cancelled[cur]
     THEN ArmOrDrop(cur, stamp + next) /\ UNCHANGED mem
     ELSE mem' = [mem EXCEPT ![cur] = "freed"] /\ UNCHANGED <<heapVars, dropped>>
  /\ UNCHANGED <<cancelled, marking, taskVars, now, req, last, stamp, left, waitVars, quiet>>

\* flush_expired_timers's result: Forever without timers, 0 with timers due.
Delay ==
  IF armed = {} THEN Forever
  ELSE LET d == dl[CHOOSE t \in Heap!Earliest : TRUE]
       IN  IF d > stamp THEN d - stamp ELSE 0

\* Bug: the caller's timeout always wins.
TimeoutAsked == req

\* resolve_timeout_ms's result, the smaller of the two.
Timeout ==
  CASE Delay = Forever -> req
    [] Delay # Forever /\ req = Forever -> Delay
    [] OTHER -> IF Delay < req THEN Delay ELSE req

\* The flush ends; poll resolves again for run, and then waits.
FlushEnd ==
  /\ pc = "flush" /\ (left = 0 \/ Due = {})
  /\ IF last
     THEN /\ pc' = "wait"
          /\ until' = IF Timeout = Forever THEN Forever ELSE now + Timeout
          /\ asleep' = now
          /\ UNCHANGED <<req, last, stamp, left>>
     ELSE Resolve(Timeout, TRUE) /\ UNCHANGED waitVars
  /\ UNCHANGED <<heapVars, timerVars, taskVars, now, cur, histVars>>

-----------------------------------------------------------------------------
(* The wait, the events and the tasks                                      *)

\* The locals of the flush and of the wait are dead from here on.
EventsBegin ==
  /\ pc' = "events"
  /\ req' = 0 /\ last' = TRUE /\ stamp' = 0 /\ left' = 0
  /\ until' = 0 /\ asleep' = 0

\* epoll_wait returns by itself: the pipe is readable or the time is up (the
\* end of modelled time counts as such).
WaitOver ==
  /\ pc = "wait"
  /\ wake \/ (until # Forever /\ (now >= until \/ now = MaxNow))
  /\ EventsBegin
  /\ UNCHANGED <<heapVars, timerVars, taskVars, now, cur, histVars>>

\* ... or because of some other fd.
WaitFd ==
  /\ pc = "wait"
  /\ EventsBegin
  /\ UNCHANGED <<heapVars, timerVars, taskVars, now, cur, histVars>>

\* The pipe is emptied, the task list detached.
Drain ==
  /\ pc = "events"
  /\ pc' = "tasks" /\ wake' = FALSE
  /\ batch' = tasks /\ tasks' = <<>>
  /\ UNCHANGED <<heapVars, timerVars, now, flushVars, waitVars, histVars>>

\* delay_insert_async and timer_cancel_async; the latter reads timer->poller.
\* They also run in destroy's drain, when the heap is gone and starts anew.
RunTask ==
  /\ pc \in {"tasks", "fini"} /\ batch # <<>>
  /\ batch' = Tail(batch)
  /\ LET t == Head(batch).timer
     IN  \/ /\ Head(batch).op = "insert"
            /\ ArmOrDrop(t, Head(batch).at)
            /\ UNCHANGED <<pc, quiet>>
         \/ /\ Head(batch).op = "cancel" /\ mem[t] = "live"
            /\ Heap!Disarm(t)
            /\ quiet' = quiet \cup {t}
            /\ UNCHANGED <<pc, dropped>>
         \/ /\ Head(batch).op = "cancel" /\ mem[t] = "freed"
            /\ pc' = "undefined"
            /\ UNCHANGED <<heapVars, histVars>>
  /\ UNCHANGED <<timerVars, tasks, wake, now, flushVars, waitVars>>

TasksDone ==
  /\ pc \in {"tasks", "fini"} /\ batch = <<>>
  /\ pc' = IF pc = "tasks" THEN "top" ELSE "dead"
  /\ UNCHANGED <<heapVars, timerVars, taskVars, now, flushVars, waitVars, histVars>>

-----------------------------------------------------------------------------
(* The world around                                                        *)

StartLoop ==
  /\ pc = "off"
  /\ pc' = "top"
  /\ UNCHANGED <<heapVars, timerVars, taskVars, now, flushVars, waitVars, histVars>>

StopLoop ==
  /\ pc = "top"
  /\ pc' = "off"
  /\ UNCHANGED <<heapVars, timerVars, taskVars, now, flushVars, waitVars, histVars>>

\* ztk_poller_destroy: timer_fini frees the timers in the heap, then the task
\* list is drained.
Destroy ==
  /\ pc = "off" /\ marking = {}
  /\ mem' = [t \in Timers |-> IF t \in armed THEN "freed" ELSE mem[t]]
  /\ armed' = {}
  /\ batch' = tasks /\ tasks' = <<>>
  /\ pc' = "fini"
  /\ UNCHANGED <<dl, cancelled, marking, wake, now, flushVars, waitVars, histVars>>

Tick ==
  /\ now < MaxNow /\ ~Destroyed
  /\ now' = now + 1
  /\ UNCHANGED <<heapVars, timerVars, taskVars, pc, flushVars, waitVars, histVars>>

\* The end: destroyed, or undefined after a use of a freed timer.
Over == pc \in {"dead", "undefined"} /\ UNCHANGED vars

-----------------------------------------------------------------------------
Remote(t) ==
  \/ RemoteMark(t) \/ RemotePost(t) \/ RemoteNoMem(t)
  \/ \E d \in Delays : RemoteDelay(t, d)

Local(t) == LocalCancel(t) \/ \E d \in Delays : LocalDelay(t, d)

\* What the loop thread does by itself.
LoopStep ==
  \/ \E r \in {PollMs, Forever} : TurnBegins(r)
  \/ \E t \in Timers : FlushPop(t)
  \/ \E next \in Delays : CallbackEnd(next)
  \/ FlushEnd \/ WaitOver \/ Drain \/ RunTask \/ TasksDone

Next ==
  \/ \E t \in Timers : Remote(t) \/ Local(t)
  \/ LoopStep \/ WaitFd \/ StartLoop \/ StopLoop \/ Destroy \/ Tick \/ Over

Spec == Init /\ [][Next]_vars

\* The loop thread is scheduled and time passes.
FairSpec == Spec /\ WF_vars(LoopStep) /\ WF_vars(Tick)

-----------------------------------------------------------------------------
(* Properties                                                              *)

Named(op) ==
  {tasks[i].timer : i \in {j \in 1 .. Len(tasks) : tasks[j].op = op}}
    \cup {batch[i].timer : i \in {j \in 1 .. Len(batch) : batch[j].op = op}}
Calling == {cur} \ {NoTimer}

\* Every timer has one owner: one in the heap, in its callback or named by a
\* task that will arm it is live and in only one of these places; and one that
\* is live is in one of them, unless it was cancelled or found no memory.  So
\* none is freed twice, called after it was freed, or silently lost.
SingleOwner ==
  /\ armed \cap Calling = {} /\ armed \cap Named("insert") = {}
  /\ Calling \cap Named("insert") = {}
  /\ \A t \in armed \cup Calling \cup Named("insert") : mem[t] = "live"
  /\ \A t \in Timers :
       mem[t] = "live" /\ ~cancelled[t] /\ t \notin dropped =>
         t \in armed \cup Calling \cup Named("insert")

\* Once ztk_poller_timer_cancel has returned on the loop thread, or its task
\* has run there, the timer's callback is not called, although its insertion
\* may still be on its way (poller_timer.c:185, 272-305).
QuietAfterCancel == Calling \cap quiet = {}

\* A sleeping loop oversleeps an armed timer by no more than the time its last
\* flush took: the timeout is computed from the clock as it was when the flush
\* began, and what is armed while the loop sleeps is armed by a task, for
\* which it is woken (poller_timer.c:210-227).
SleepBounded ==
  pc = "wait" =>
    \A t \in armed : until # Forever /\ (until <= dl[t] + asleep - stamp \/ until = asleep)

\* An armed timer is called, while the loop runs, however many timers are due
\* at once and whatever the timeout asked for.
TimerFires ==
  \A t \in Timers :
    t \in armed ~> (t \in Calling \/ cancelled[t] \/ pc = "off" \/ Destroyed)

\* What a posted task works on is valid until the task has run, as poller.h:54
\* demands of every caller of ztk_poller_async.  The library's own cancel task
\* does not keep to it: a cancelled timer that falls due before the task runs
\* is freed by the flush, and destroy frees the heap before it drains.
TaskDataValid == \A t \in Named("insert") \cup Named("cancel") : mem[t] = "live"
=============================================================================
