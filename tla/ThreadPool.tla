----------------------------- MODULE ThreadPool -----------------------------
(***************************************************************************)
(* ztk_thread_pool: a mutex-protected task list, a semaphore with one      *)
(* token per task, and workers that take a token and then the head of the  *)
(* list.  Shutdown posts one token per worker with no task behind it: a    *)
(* worker that finds the list empty exits.  One controlling thread starts, *)
(* finishes and destroys the pool while clients, and the tasks themselves, *)
(* submit.                                                                 *)
(***************************************************************************)
EXTENDS Naturals, Sequences, FiniteSets

CONSTANTS
  N,          \* worker_count
  Clients,    \* threads outside the pool that submit tasks
  MaxTasks,   \* bound on the different tasks submitted, each any number of times
  MaxStarts   \* bound on the calls of ztk_thread_pool_start

ASSUME ThreadPoolAssumption ==
  /\ N \in Nat \ {0}
  /\ MaxTasks \in Nat /\ MaxStarts \in Nat
  /\ IsFiniteSet(Clients)

VARIABLES
  queue,    \* head .. tail
  sem,      \* value of the semaphore
  wpc,      \* per worker thread: where it is
  cpc,      \* per client: where it is in async / async_first
  ctl,      \* where the controlling thread is
  created,  \* workers created by the start in progress
  next,     \* identity of the next task
  taken,    \* tasks whose fn has been called since they were last submitted
  late,     \* tasks submitted since the last fini began to post
  starts

poolVars == <<queue, sem, next, taken, late>>
ctlVars == <<ctl, created, starts>>
vars == <<poolVars, wpc, cpc, ctlVars>>

Workers == 1 .. N
Tasks == 1 .. MaxTasks

TypeOK ==
  /\ queue \in Seq(Tasks)
  /\ sem \in Nat
  /\ wpc \in [Workers -> {"none", "wait", "pop", "run", "post", "exited"}]
  /\ cpc \in [Clients -> {"idle", "push", "post"}]
  /\ ctl \in {"down", "starting", "rollback", "up", "joining", "gone"}
  /\ created \in 0 .. N
  /\ next \in 1 .. MaxTasks + 1
  /\ taken \in SUBSET Tasks /\ late \in SUBSET Tasks
  /\ starts \in 0 .. MaxStarts

\* ztk_thread_pool_create
Init ==
  /\ queue = <<>> /\ sem = 0
  /\ wpc = [w \in Workers |-> "none"]
  /\ cpc = [c \in Clients |-> "idle"]
  /\ ctl = "down" /\ created = 0
  /\ next = 1 /\ taken = {} /\ late = {} /\ starts = 0

Started == ctl \in {"up", "joining"}   \* pool->started

-----------------------------------------------------------------------------
(* Submitting: push_task is the insertion under the lock, then the post    *)

\* A new task, or one whose fn has been called: a task may submit itself again.
Submittable == taken \cup (IF next <= MaxTasks THEN {next} ELSE {})

Insert(t, first) ==
  /\ t \in Submittable
  /\ next' = (IF t = next THEN next + 1 ELSE next)
  /\ queue' = (IF first THEN <<t>> \o queue ELSE Append(queue, t))
  /\ taken' = taken \ {t}
  /\ late' = (IF ctl = "up" THEN late ELSE late \cup {t})

\* pool->started is read without the lock: fini may end before the insertion.
ClientCheck(c) ==
  /\ cpc[c] = "idle" /\ Started
  /\ cpc' = [cpc EXCEPT ![c] = "push"]
  /\ UNCHANGED <<poolVars, wpc, ctlVars>>

ClientInsert(c, t, first) ==
  /\ cpc[c] = "push"
  /\ Insert(t, first)
  /\ cpc' = [cpc EXCEPT ![c] = "post"]
  /\ UNCHANGED <<sem, wpc, ctlVars>>

\* Bug: the insertion is not followed by a post.
ClientNoPost(c) ==
  /\ cpc[c] = "post"
  /\ cpc' = [cpc EXCEPT ![c] = "idle"]
  /\ UNCHANGED <<poolVars, wpc, ctlVars>>

ClientPost(c) ==
  /\ cpc[c] = "post"
  /\ sem' = sem + 1
  /\ cpc' = [cpc EXCEPT ![c] = "idle"]
  /\ UNCHANGED <<queue, next, taken, late, wpc, ctlVars>>

\* A client that found the pool started gives up (no memory for the task).
ClientNoMem(c) ==
  /\ cpc[c] = "push"
  /\ cpc' = [cpc EXCEPT ![c] = "idle"]
  /\ UNCHANGED <<poolVars, wpc, ctlVars>>

-----------------------------------------------------------------------------
(* A worker                                                                *)

\* Bug: a wait interrupted by a signal is not retried and ends the worker.
TakeTokenOnce(w) ==
  /\ wpc[w] = "wait"
  /\ \/ sem > 0 /\ sem' = sem - 1 /\ wpc' = [wpc EXCEPT ![w] = "pop"]
     \/ sem = 0 /\ wpc' = [wpc EXCEPT ![w] = "exited"] /\ UNCHANGED sem
  /\ UNCHANGED <<queue, next, taken, late, cpc, ctlVars>>

\* Bug: the semaphore is decremented without waiting for a token.
TakeNoToken(w) ==
  /\ wpc[w] = "wait"
  /\ sem' = sem - 1
  /\ wpc' = [wpc EXCEPT ![w] = "pop"]
  /\ UNCHANGED <<queue, next, taken, late, cpc, ctlVars>>

\* ztk_sem_wait
TakeToken(w) ==
  /\ wpc[w] = "wait" /\ sem > 0
  /\ sem' = sem - 1
  /\ wpc' = [wpc EXCEPT ![w] = "pop"]
  /\ UNCHANGED <<queue, next, taken, late, cpc, ctlVars>>

\* Bug: a worker that sees the shutdown flag leaves the list alone and exits.
PopUnlessShutdown(w) ==
  /\ wpc[w] = "pop"
  /\ IF queue = <<>> \/ ctl = "joining"
     THEN wpc' = [wpc EXCEPT ![w] = "exited"] /\ UNCHANGED <<queue, taken>>
     ELSE /\ queue' = Tail(queue)
          /\ taken' = taken \cup {Head(queue)}
          /\ wpc' = [wpc EXCEPT ![w] = "run"]
  /\ UNCHANGED <<sem, next, late, cpc, ctlVars>>

\* pop_task under the lock: no task ends the worker.
Pop(w) ==
  /\ wpc[w] = "pop"
  /\ IF queue = <<>>
     THEN wpc' = [wpc EXCEPT ![w] = "exited"] /\ UNCHANGED <<queue, taken>>
     ELSE /\ queue' = Tail(queue)
          /\ taken' = taken \cup {Head(queue)}
          /\ wpc' = [wpc EXCEPT ![w] = "run"]
  /\ UNCHANGED <<sem, next, late, cpc, ctlVars>>

\* The task submits another one: inline with may_sync ...
TaskSync(w) ==
  /\ wpc[w] = "run" /\ Started /\ next <= MaxTasks
  /\ taken' = taken \cup {next} /\ next' = next + 1
  /\ UNCHANGED <<queue, sem, late, wpc, cpc, ctlVars>>

\* ... or through the list, and then the post.
TaskInsert(w, t, first) ==
  /\ wpc[w] = "run" /\ Started
  /\ Insert(t, first)
  /\ wpc' = [wpc EXCEPT ![w] = "post"]
  /\ UNCHANGED <<sem, cpc, ctlVars>>

TaskPost(w) ==
  /\ wpc[w] = "post"
  /\ sem' = sem + 1
  /\ wpc' = [wpc EXCEPT ![w] = "run"]
  /\ UNCHANGED <<queue, next, taken, late, cpc, ctlVars>>

TaskEnd(w) ==
  /\ wpc[w] = "run"
  /\ wpc' = [wpc EXCEPT ![w] = "wait"]
  /\ UNCHANGED <<poolVars, cpc, ctlVars>>

-----------------------------------------------------------------------------
(* The controlling thread                                                  *)

StartBegin ==
  /\ ctl = "down" /\ starts < MaxStarts
  /\ ctl' = "starting" /\ created' = 0 /\ starts' = starts + 1
  /\ UNCHANGED <<poolVars, wpc, cpc>>

CreateWorker ==
  /\ ctl = "starting" /\ created < N
  /\ created' = created + 1
  /\ wpc' = [wpc EXCEPT ![created + 1] = "wait"]
  /\ UNCHANGED <<poolVars, cpc, ctl, starts>>

\* No memory or no thread: start joins the workers it has created.
CreateFails ==
  /\ ctl = "starting" /\ created < N
  /\ ctl' = "rollback"
  /\ UNCHANGED <<poolVars, wpc, cpc, created, starts>>

\* The join of a failed start returns: only if no worker was created, as no
\* token is posted for those that were.
Rollback ==
  /\ ctl = "rollback"
  /\ \A w \in Workers : w <= created => wpc[w] = "exited"
  /\ ctl' = "down"
  /\ wpc' = [w \in Workers |-> "none"]
  /\ UNCHANGED <<poolVars, cpc, created, starts>>

StartDone ==
  /\ ctl = "starting" /\ created = N
  /\ ctl' = "up"
  /\ UNCHANGED <<poolVars, wpc, cpc, created, starts>>

\* Bug: one token too few.
FiniPostShort ==
  /\ ctl = "up"
  /\ ctl' = "joining" /\ sem' = sem + N - 1 /\ late' = {}
  /\ UNCHANGED <<queue, next, taken, wpc, cpc, created, starts>>

\* ztk_thread_pool_fini: shutdown = 1 and a token for every worker.
FiniPost ==
  /\ ctl = "up"
  /\ ctl' = "joining" /\ sem' = sem + N /\ late' = {}
  /\ UNCHANGED <<queue, next, taken, wpc, cpc, created, starts>>

\* join_workers returns and started is cleared.
FiniJoin ==
  /\ ctl = "joining" /\ \A w \in Workers : wpc[w] = "exited"
  /\ ctl' = "down"
  /\ wpc' = [w \in Workers |-> "none"]
  /\ UNCHANGED <<poolVars, cpc, created, starts>>

\* ztk_thread_pool_destroy of a pool that is not started, with no client
\* inside a call: what is left in the list is freed and never runs, and the
\* semaphore goes with it.
Destroy ==
  /\ ctl = "down" /\ \A c \in Clients : cpc[c] = "idle"
  /\ ctl' = "gone" /\ queue' = <<>> /\ sem' = 0
  /\ UNCHANGED <<next, taken, late, wpc, cpc, created, starts>>

-----------------------------------------------------------------------------
ClientStep(c) ==
  \/ ClientCheck(c) \/ ClientPost(c) \/ ClientNoMem(c)
  \/ \E t \in Tasks, first \in BOOLEAN : ClientInsert(c, t, first)

\* What a worker does without choosing to submit.
WorkerStep(w) == TakeToken(w) \/ Pop(w) \/ TaskPost(w) \/ TaskEnd(w)

TaskStep(w) == TaskSync(w) \/ \E t \in Tasks, first \in BOOLEAN : TaskInsert(w, t, first)

Controller ==
  \/ StartBegin \/ CreateWorker \/ CreateFails \/ Rollback \/ StartDone
  \/ FiniPost \/ FiniJoin \/ Destroy

Next ==
  \/ \E c \in Clients : ClientStep(c)
  \/ \E w \in Workers : WorkerStep(w) \/ TaskStep(w)
  \/ Controller

Spec == Init /\ [][Next]_vars

\* Threads are scheduled; a client that has inserted posts; join returns when
\* it can.  Nobody is obliged to submit, to start or to finish the pool.
FairSpec ==
  /\ Spec
  /\ \A w \in Workers : WF_vars(WorkerStep(w))
  /\ \A c \in Clients : WF_vars(ClientPost(c))
  /\ WF_vars(FiniJoin)

-----------------------------------------------------------------------------
(* Properties                                                              *)

Popping == {w \in Workers : wpc[w] = "pop"}
PostingW == {w \in Workers : wpc[w] = "post"}
PostingC == {c \in Clients : cpc[c] = "post"}
Leaving == IF ctl = "joining" THEN {w \in Workers : wpc[w] # "exited"} ELSE {}

Tokens ==
  sem + Cardinality(Popping) + Cardinality(PostingW) + Cardinality(PostingC)
Demand == Len(queue) + Cardinality(Leaving)

\* Tokens and tasks balance: a token in the semaphore, one a worker has taken
\* and one a submitter is about to post each stand for one task in the list or
\* for one worker that shutdown still has to end (thread_pool.c:59-101, 183).
TokenBalance == Tokens = Demand

\* No worker finds the list empty, and dies, before shutdown has begun; nor in
\* a start that follows a shutdown which left tasks and tokens behind.
NoEarlyExit == \A w \in Workers : wpc[w] = "exited" => ctl = "joining"

\* When fini has returned, every task inserted before it began has run, those
\* that an earlier fini left in the list included; only tasks inserted
\* meanwhile can be left (thread_pool.c:178-188).
FiniRunsAll ==
  ctl \in {"down", "gone"} => \A t \in 1 .. next - 1 : t \in taken \/ t \in late

\* fini returns when, sooner or later, nobody submits any more.  Until it has
\* returned, async accepts tasks (started is still 1): a task that submits
\* itself again each time it runs keeps a worker, and so fini, for ever.
FiniReturns ==
  \/ ctl = "joining" ~> ctl = "down"
  \/ []<><<Len(queue') > Len(queue)>>_vars

\* A task in the list of a running pool runs, unless the pool is finished; or
\* tasks are put in front of the list by async_first for ever, each worker
\* finding one whenever it comes back.
InList(t) == \E i \in 1 .. Len(queue) : queue[i] = t
PutInFront == Len(queue) > 0 /\ Len(queue') > Len(queue) /\ Tail(queue') = queue
SubmittedRuns ==
  \/ \A t \in Tasks : InList(t) /\ ctl = "up" ~> t \in taken \/ ctl # "up"
  \/ []<><<PutInFront>>_vars
=============================================================================
