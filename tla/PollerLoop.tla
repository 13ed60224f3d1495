----------------------------- MODULE PollerLoop -----------------------------
(***************************************************************************)
(* One ztk_poller: its mutex-protected task list, its wake pipe and the    *)
(* thread that runs ztk_poller_run / ztk_poller_poll on it (the epoll      *)
(* build), with threads that post tasks through ztk_poller_async and       *)
(* ztk_poller_async_first.                                                 *)
(*                                                                         *)
(* Every step of the loop thread is the code between two points where      *)
(* another thread can observe or change shared state: the task list (under *)
(* task_mtx), the pipe, the stop flag.  A posting thread takes two steps,  *)
(* the locked insertion and the write to the pipe.                         *)
(***************************************************************************)
EXTENDS Naturals, Sequences

CONSTANTS
  Producers,   \* threads that post tasks, none of them the loop thread
  PipeCap,     \* bytes the wake pipe holds before write fails with EAGAIN
  MaxTasks,    \* bound on the tasks created
  MaxRuns,     \* bound on the calls of ztk_poller_run
  MaxIntr      \* bound on the signals that interrupt epoll_wait

ASSUME PollerLoopAssumption ==
  /\ PipeCap \in Nat \ {0}
  /\ MaxTasks \in Nat /\ MaxRuns \in Nat /\ MaxIntr \in Nat

VARIABLES
  queue,    \* task_head .. task_tail
  batch,    \* the list drain_tasks has detached and is walking
  ran,      \* history: the tasks whose fn was called, in that order
  next,     \* identity of the next task
  pipe,     \* bytes in the wake pipe
  waking,   \* producers that have inserted a task and not yet written
  pc,       \* where the loop thread is
  ret,      \* where drain_tasks returns to
  woke,     \* the wake fd is among the events still to be handled
  bound,    \* owner_thread is the loop thread
  timed,    \* the loop's waits have a timeout, as those of ztk_poller_run do
  stop,     \* *stop_flag
  runs, intr  \* environment: calls of ztk_poller_run, signals delivered

loopVars == <<pc, ret, woke, bound, timed>>
taskVars == <<queue, batch, ran, next>>
envVars == <<stop, runs, intr>>
vars == <<taskVars, pipe, waking, loopVars, envVars>>

Calls == {"none", "back", "front", "sync"}  \* what a callback or a task does

\* A task: late when a task of ztk_poller_destroy's own drain posted it.
Task == [id : 1 .. MaxTasks, kind : Calls \ {"none"}, late : BOOLEAN]

PCs == {"off", "top", "wait", "events", "detach", "running",
        "check1", "check2", "dead"}

\* ztk_poller_destroy has been called: ret stays "dead" from then on.
Destroying == ret = "dead"

TypeOK ==
  /\ queue \in Seq(Task) /\ batch \in Seq(Task) /\ ran \in Seq(Task)
  /\ next \in 1 .. MaxTasks + 1
  /\ pipe \in 0 .. PipeCap
  /\ waking \in SUBSET Producers
  /\ pc \in PCs
  /\ ret \in {"events", "check2", "top", "off", "dead"}
  /\ woke \in BOOLEAN /\ bound \in BOOLEAN /\ timed \in BOOLEAN
  /\ stop \in BOOLEAN
  /\ runs \in 0 .. MaxRuns /\ intr \in 0 .. MaxIntr

Init ==
  /\ queue = <<>> /\ batch = <<>> /\ ran = <<>> /\ next = 1
  /\ pipe = 0 /\ waking = {}
  /\ pc = "off" /\ ret = "top" /\ woke = FALSE /\ bound = FALSE /\ timed = TRUE
  /\ stop = FALSE /\ runs = 0 /\ intr = 0

-----------------------------------------------------------------------------
(* Posting                                                                 *)

NewTask(kind) == [id |-> next, kind |-> kind, late |-> Destroying]

\* Bug: the insertion forgets task_tail and always links at the head.
InsertAtHead(kind) ==
  /\ next <= MaxTasks
  /\ next' = next + 1
  /\ queue' = <<NewTask(kind)>> \o queue

\* The locked part of async_impl.
Insert(kind) ==
  /\ next <= MaxTasks
  /\ next' = next + 1
  /\ queue' = IF kind = "front" THEN <<NewTask(kind)>> \o queue
                                ELSE Append(queue, NewTask(kind))

\* ztk_poller_wake: one byte, and a full pipe (EAGAIN) counts as success.
AfterWake == IF pipe < PipeCap THEN pipe + 1 ELSE pipe

\* A producer is not the owner thread, so may_sync never applies to it.
AsyncInsert(p, kind) ==
  /\ p \notin waking /\ ~Destroying
  /\ Insert(kind)
  /\ waking' = waking \cup {p}
  /\ UNCHANGED <<batch, ran, pipe, loopVars, envVars>>

AsyncWake(p) ==
  /\ p \in waking
  /\ pipe' = AfterWake
  /\ waking' = waking \ {p}
  /\ UNCHANGED <<taskVars, loopVars, envVars>>

\* ztk_poller_wake called on its own, with no task behind it.
BareWake ==
  /\ ~Destroying
  /\ pipe' = AfterWake
  /\ UNCHANGED <<taskVars, waking, loopVars, envVars>>

\* async_impl called on the loop thread, from an fd callback or a task, after
\* r has run: inline when the thread is the owner and may_sync is given,
\* otherwise insertion and wake, which nobody but the loop thread waits for.
Call(call, r) ==
  \/ /\ call = "none"
     /\ ran' = r
     /\ UNCHANGED <<queue, next, pipe>>
  \/ /\ call = "sync" /\ bound
     /\ next <= MaxTasks
     /\ next' = next + 1
     /\ ran' = Append(r, NewTask(call))
     /\ UNCHANGED <<queue, pipe>>
  \/ /\ call # "none" /\ ~(call = "sync" /\ bound)
     /\ Insert(IF call = "front" THEN "front" ELSE "back")
     /\ pipe' = AfterWake
     /\ ran' = r

-----------------------------------------------------------------------------
(* The loop thread                                                         *)

\* ztk_poller_run is entered: bind_thread.  The caller has reset its flag.  An
\* application may write the loop itself, with ztk_poller_poll(p, -1): not timed.
StartRun(t) ==
  /\ pc = "off" /\ ~Destroying /\ runs < MaxRuns
  /\ pc' = "top" /\ bound' = TRUE /\ timed' = t
  /\ stop' = FALSE /\ runs' = runs + 1
  /\ UNCHANGED <<taskVars, pipe, waking, ret, woke, intr>>

\* The loop condition, then unbind_thread or the wait of the next poll.  The
\* run loop does not drain the list when it leaves.
LoopTop ==
  /\ pc = "top"
  /\ pc' = IF stop THEN "off" ELSE "wait"
  /\ bound' = ~stop
  /\ UNCHANGED <<taskVars, pipe, waking, ret, woke, timed, envVars>>

\* epoll_wait returns events with the wake fd among them ...
WaitWake ==
  /\ pc = "wait" /\ pipe > 0
  /\ pc' = "events" /\ woke' = TRUE
  /\ UNCHANGED <<taskVars, pipe, waking, ret, bound, timed, envVars>>

\* ... or a full array of ZTK_EPOLL_MAX_EVENTS other fds, or just other fds.
WaitFds ==
  /\ pc = "wait"
  /\ pc' = "events" /\ woke' = FALSE
  /\ UNCHANGED <<taskVars, pipe, waking, ret, bound, timed, envVars>>

\* Bug: the wait has no timeout whatever the caller asked for.
WaitForever ==
  /\ pc = "wait" /\ FALSE
  /\ UNCHANGED vars

\* n == 0: nothing became ready in time.
WaitTimeout ==
  /\ pc = "wait" /\ timed /\ pipe = 0
  /\ pc' = "check1"
  /\ UNCHANGED <<taskVars, pipe, waking, ret, woke, bound, timed, envVars>>

\* EINTR: poll returns 0 without looking at the list.
WaitIntr ==
  /\ pc = "wait" /\ intr < MaxIntr
  /\ pc' = "top" /\ intr' = intr + 1
  /\ UNCHANGED <<taskVars, pipe, waking, ret, woke, bound, timed, stop, runs>>

\* Another error: poll returns -1 and ztk_poller_run breaks and unbinds.
WaitError ==
  /\ pc = "wait"
  /\ pc' = "off" /\ bound' = FALSE
  /\ UNCHANGED <<taskVars, pipe, waking, ret, woke, timed, envVars>>

\* The callback of an fd that is ready.
FdCallback(call) ==
  /\ pc = "events" /\ call # "none"
  /\ Call(call, ran)
  /\ UNCHANGED <<batch, waking, loopVars, envVars>>

\* The wake fd's turn: drain_wake_pipe, then drain_tasks is entered.
WakeEvent ==
  /\ pc = "events" /\ woke
  /\ pipe' = 0
  /\ pc' = "detach" /\ ret' = "events" /\ woke' = FALSE
  /\ UNCHANGED <<taskVars, waking, bound, timed, envVars>>

EventsDone ==
  /\ pc = "events" /\ ~woke
  /\ pc' = "check2"
  /\ UNCHANGED <<taskVars, pipe, waking, ret, woke, bound, timed, envVars>>

\* The look at task_head at one of poll's two places (n == 0, end of turn).
Pending(here, after) ==
  /\ pc = here
  /\ IF queue = <<>> THEN pc' = after /\ UNCHANGED ret
                     ELSE pc' = "detach" /\ ret' = after
  /\ UNCHANGED <<taskVars, pipe, waking, woke, bound, timed, envVars>>

\* Bug: no look at the list at the end of the turn, only on a wake or timeout.
NoPendingAtEnd ==
  /\ pc = "check2"
  /\ pc' = "top"
  /\ UNCHANGED <<taskVars, pipe, waking, ret, woke, bound, timed, envVars>>

PendingOnTimeout == Pending("check1", "check2")
PendingAtEnd == Pending("check2", "top")

\* Bug: the list is taken without being emptied.
DetachKeeps ==
  /\ pc = "detach"
  /\ batch' = queue
  /\ pc' = "running"
  /\ UNCHANGED <<queue, ran, next, pipe, waking, ret, woke, bound, timed, envVars>>

\* drain_tasks: the whole list is detached under the lock ...
Detach ==
  /\ pc = "detach"
  /\ batch' = queue /\ queue' = <<>>
  /\ pc' = "running"
  /\ UNCHANGED <<ran, next, pipe, waking, ret, woke, bound, timed, envVars>>

\* ... and its tasks run without it; each may post a task of its own.
RunTask(call) ==
  /\ pc = "running" /\ batch # <<>>
  /\ batch' = Tail(batch)
  /\ Call(call, Append(ran, Head(batch)))
  /\ UNCHANGED <<waking, loopVars, envVars>>

\* Bug: the pipe is emptied after the list, not before it.
DrainDoneThenPipe ==
  /\ pc = "running" /\ batch = <<>>
  /\ pc' = ret /\ pipe' = 0
  /\ ret' = IF Destroying THEN "dead" ELSE "top"
  /\ UNCHANGED <<taskVars, waking, woke, bound, timed, envVars>>

DrainDone ==
  /\ pc = "running" /\ batch = <<>>
  /\ pc' = ret
  /\ ret' = IF Destroying THEN "dead" ELSE "top"
  /\ UNCHANGED <<taskVars, pipe, waking, woke, bound, timed, envVars>>

-----------------------------------------------------------------------------
(* The application around the loop                                         *)

RequestStop ==
  /\ ~stop /\ ~Destroying
  /\ stop' = TRUE
  /\ UNCHANGED <<taskVars, pipe, waking, loopVars, runs, intr>>

\* ztk_poller_process_pending, for a thread that does not poll.
ProcessPending ==
  /\ pc = "off" /\ ~Destroying
  /\ pc' = "detach" /\ ret' = "off"
  /\ UNCHANGED <<taskVars, pipe, waking, woke, bound, timed, envVars>>

\* Bug: destroy does not drain.
DestroyNoDrain ==
  /\ pc = "off" /\ ~Destroying /\ waking = {}
  /\ pc' = "dead" /\ ret' = "dead"
  /\ UNCHANGED <<taskVars, pipe, waking, woke, bound, timed, envVars>>

\* ztk_poller_destroy, once the loop has ended and no producer is inside a
\* call: task_fini drains the list on the thread that destroys.
Destroy ==
  /\ pc = "off" /\ ~Destroying /\ waking = {}
  /\ pc' = "detach" /\ ret' = "dead"
  /\ UNCHANGED <<taskVars, pipe, waking, woke, bound, timed, envVars>>

Destroyed ==
  /\ pc = "dead"
  /\ UNCHANGED vars

-----------------------------------------------------------------------------
ProducerStep ==
  \E p \in Producers :
    AsyncWake(p) \/ \E kind \in {"back", "front"} : AsyncInsert(p, kind)

\* The steps the loop thread takes by itself once it is scheduled.
LoopStep ==
  \/ LoopTop \/ WaitWake \/ WaitTimeout \/ WakeEvent \/ EventsDone
  \/ PendingOnTimeout \/ PendingAtEnd \/ Detach \/ DrainDone
  \/ \E call \in Calls : RunTask(call)

Environment ==
  \/ \E t \in BOOLEAN : StartRun(t)
  \/ RequestStop \/ ProcessPending \/ Destroy \/ BareWake
  \/ WaitFds \/ WaitIntr \/ WaitError
  \/ \E call \in Calls : FdCallback(call)

Next == ProducerStep \/ LoopStep \/ Environment \/ Destroyed

Spec == Init /\ [][Next]_vars

\* The loop thread and the producers are threads the kernel schedules: a
\* thread that can go on does.  Nothing is assumed of fds, signals, stops.
FairSpec ==
  /\ Spec
  /\ WF_vars(LoopStep)
  /\ \A p \in Producers : WF_vars(AsyncWake(p))

-----------------------------------------------------------------------------
(* Properties                                                              *)

\* A loop that sleeps in epoll_wait while tasks are queued is about to be
\* woken: there is a byte in the pipe or a producer is about to write one.
\* This is what the order "drain the pipe, then detach the list" buys, and
\* what lets ztk_poller_poll(p, -1) be called at all (poller_epoll.c:231).
NoLostWakeup ==
  pc = "wait" /\ queue # <<>> => pipe > 0 \/ waking # {}

\* All tasks ever accepted: those that have run, then the rest in running order.
Trail == ran \o batch \o queue

\* A task posted with ztk_poller_async never overtakes a task, of either kind,
\* that was posted before it (async_impl's tail insertion, drain_tasks's
\* batches).  The timer code needs it: the insertion of a timer is posted at
\* the front, its cancellation at the back, and must run in that order.
NoOvertake ==
  \A i, j \in 1 .. Len(Trail) :
    i < j /\ Trail[i].kind = "back" => Trail[i].id < Trail[j].id

\* Every task accepted is queued, detached or has run, and only once: none is
\* lost or run twice between drain_tasks, its re-entry points and destroy.
ExactlyOnce ==
  /\ Len(Trail) = next - 1
  /\ \A id \in 1 .. next - 1 : \E i \in 1 .. Len(Trail) : Trail[i].id = id

\* A poller that is gone has run every task posted to it, except those that
\* tasks of its own final drain posted (poller_task.c:19-30).
DestroyRunsPosted ==
  pc = "dead" => batch = <<>> /\ \A i \in 1 .. Len(queue) : queue[i].late

\* While the loop runs, a posted task runs, however busy other fds keep
\* epoll_wait and whether or not the wait has a timeout (the second look at
\* the list at the end of ztk_poller_poll, poller_epoll.c:250-260).
Queued(id) == \E i \in 1 .. Len(queue) : queue[i].id = id
Ran(id) == \E i \in 1 .. Len(ran) : ran[i].id = id
PostedRuns ==
  \A id \in 1 .. MaxTasks : Queued(id) ~> (Ran(id) \/ pc \in {"off", "dead"})

\* A stop request ends ztk_poller_run although nobody wakes the poller for it:
\* the timeout of its waits does (poller_task.c:125-136).
StopEndsRun == stop /\ timed ~> (pc \in {"off", "dead"} \/ ~stop)
=============================================================================
