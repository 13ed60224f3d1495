------------------------------- MODULE BufPool -------------------------------
(***************************************************************************)
(* Reference-counted ztk_buf blocks, the ztk_buf_pool they come from and   *)
(* go back to, and the poller that owns a lockless pool: a last unref on   *)
(* another thread posts the release to the owner.  Then the shutdown of    *)
(* ztk_poller_pool_destroy: stop, detach and destroy the buffer pool,      *)
(* destroy the poller.                                                     *)
(*                                                                         *)
(* One bucket stands for the nine.  The free list is linked and unlinked   *)
(* in two steps, reading the head and storing it, under the mutex of a     *)
(* thread_safe pool and under nothing in a lockless one.                   *)
(***************************************************************************)
EXTENDS Naturals, Sequences, FiniteSets

CONSTANTS
  Blocks,    \* the memory blocks there are
  Loop,      \* the thread that runs the owner poller
  Main,      \* the thread that starts, stops and destroys
  Foreign,   \* other threads
  MaxFree,   \* max_per_bucket
  None

Threads == Foreign \cup {Loop, Main}

ASSUME BufPoolAssumption ==
  /\ MaxFree \in Nat \ {0} /\ IsFiniteSet(Foreign)
  /\ Loop # Main /\ Loop \notin Foreign /\ Main \notin Foreign
  /\ None \notin Blocks \cup Threads

VARIABLES
  safe,          \* pool->thread_safe, set for good at creation
  mem, big,      \* per block: whose it is; larger than every bucket
  refcnt, hold,  \* per block the counter, per thread the references it owns
  free, count,   \* free_heads[b] as a list, counts[b]
  mu,            \* who holds the mutex of a thread_safe pool
  at, blk, head, \* per thread: where it is, its block, the head it has read
  ptr,           \* per thread: a block's address, loaded without a reference
  tasks,         \* pool_release_deferred tasks of the owner poller
  loop,          \* the loop thread is bound and running
  stage          \* of the shutdown: up, detached, gone; undefined: memory that is not
                 \* what the code takes it for has been written to

poolVars == <<free, count, mu>>
blockVars == <<mem, big, refcnt, hold>>
threadVars == <<at, blk, head, ptr>>
vars == <<safe, blockVars, poolVars, threadVars, tasks, loop, stage>>

TypeOK ==
  /\ safe \in BOOLEAN
  /\ mem \in [Blocks -> {"libc", "used", "cached"}] /\ big \in [Blocks -> BOOLEAN]
  /\ refcnt \in [Blocks -> Nat] /\ hold \in [Threads -> SUBSET Blocks]
  /\ free \in Seq(Blocks) /\ count \in 0 .. MaxFree
  /\ mu \in Threads \cup {None}
  /\ at \in [Threads -> {"idle", "pop", "release", "defer", "now", "push"}]
  /\ blk \in [Threads -> Blocks \cup {None}] /\ head \in [Threads -> Seq(Blocks)]
  /\ ptr \in [Threads -> Blocks \cup {None}] /\ tasks \in Seq(Blocks)
  /\ loop \in BOOLEAN
  /\ stage \in {"up", "detached", "gone", "undefined"}

\* ztk_buf_pool_create.
PoolInit == safe \in BOOLEAN /\ free = <<>> /\ count = 0 /\ mu = None

\* ztk_poller_pool_attach_buf_pools: the pool is the poller's, whose loop is not started.
Init ==
  /\ PoolInit
  /\ mem = [b \in Blocks |-> "libc"] /\ big = [b \in Blocks |-> FALSE]
  /\ refcnt = [b \in Blocks |-> 0] /\ hold = [t \in Threads |-> {}]
  /\ at = [t \in Threads |-> "idle"] /\ blk = [t \in Threads |-> None]
  /\ head = [t \in Threads |-> <<>>] /\ ptr = [t \in Threads |-> None]
  /\ tasks = <<>> /\ loop = FALSE /\ stage = "up"

\* The loop thread exists only between start and the return of run.
Active(t) == stage = "up" /\ (t = Loop => loop)

\* Thread t is between two calls; it does nothing from a load to its try_ref.
Idle(t) == at[t] = "idle" /\ ptr[t] = None

Go(t, where, b) == at' = [at EXCEPT ![t] = where] /\ blk' = [blk EXCEPT ![t] = b]
Lock(t) == mu = None /\ mu' = (IF safe THEN t ELSE None)
Unlock(t) == mu' = None

-----------------------------------------------------------------------------
(* ztk_buf_alloc, ztk_buf_alloc_local                                      *)

\* A lockless pool serves the loop thread only.
MayAcquire(t) == Active(t) /\ Idle(t) /\ (safe \/ t = Loop)

\* The block becomes a ztk_buf with one reference.
NewBuf(t, b) ==
  /\ mem' = [mem EXCEPT ![b] = "used"]
  /\ refcnt' = [refcnt EXCEPT ![b] = 1]
  /\ hold' = [hold EXCEPT ![t] = @ \cup {b}]

\* Nothing cached, or a size beyond the buckets: the block comes from malloc.
AcquireMalloc(t, b, oversize) ==
  /\ MayAcquire(t) /\ mem[b] = "libc"
  /\ oversize \/ (free = <<>> /\ mu = None)
  /\ NewBuf(t, b)
  /\ big' = [big EXCEPT ![b] = oversize]
  /\ UNCHANGED <<safe, poolVars, threadVars, tasks, loop, stage>>

AcquireHit(t) ==
  /\ MayAcquire(t) /\ free # <<>>
  /\ Lock(t)
  /\ Go(t, "pop", Head(free))
  /\ head' = [head EXCEPT ![t] = Tail(free)]
  /\ UNCHANGED <<safe, blockVars, free, count, ptr, tasks, loop, stage>>

AcquirePop(t) ==
  /\ at[t] = "pop"
  /\ free' = head[t] /\ count' = count - 1
  /\ NewBuf(t, blk[t])
  /\ Go(t, "idle", None) /\ Unlock(t)
  /\ head' = [head EXCEPT ![t] = <<>>]
  /\ UNCHANGED <<safe, big, ptr, tasks, loop, stage>>

-----------------------------------------------------------------------------
(* References                                                              *)

\* ztk_buf_ref, and the reference is handed to another thread.
Share(t, u, b) ==
  /\ Active(t) /\ Idle(t) /\ b \in hold[t]
  /\ Active(u) /\ b \notin hold[u]
  /\ refcnt' = [refcnt EXCEPT ![b] = @ + 1]
  /\ hold' = [hold EXCEPT ![u] = @ \cup {b}]
  /\ UNCHANGED <<safe, mem, big, poolVars, threadVars, tasks, loop, stage>>

\* The lock-free read path: a thread without a reference loads the address of a buffer ...
Load(t, b) ==
  /\ Active(t) /\ Idle(t)
  /\ mem[b] = "used" /\ b \notin hold[t]
  /\ ptr' = [ptr EXCEPT ![t] = b]
  /\ UNCHANGED <<safe, blockVars, poolVars, at, blk, head, tasks, loop, stage>>

\* ... and calls ztk_buf_try_ref, whatever has become of the block meanwhile.  A buffer, this
\* one or a later one in the same block, gets a reference unless its last one is gone.  (A
\* second reference of one thread, handed to it meanwhile, is not counted.)
TryRef(t) ==
  /\ Active(t) /\ ptr[t] # None
  /\ mem[ptr[t]] = "used"
  /\ ptr' = [ptr EXCEPT ![t] = None]
  /\ IF refcnt[ptr[t]] > 0 /\ ptr[t] \notin hold[t]
     THEN /\ refcnt' = [refcnt EXCEPT ![ptr[t]] = @ + 1]
          /\ hold' = [hold EXCEPT ![t] = @ \cup {ptr[t]}]
     ELSE UNCHANGED <<refcnt, hold>>
  /\ UNCHANGED <<safe, mem, big, poolVars, at, blk, head, tasks, loop, stage>>

\* A block that is no buffer any more has no counter: in the list the link to the next block
\* lies there, in freed memory anything.  What is not positive is taken for a dead buffer;
\* what is positive is incremented, and the list or the heap is damaged.
TryRefStale(t, positive) ==
  /\ Active(t) /\ ptr[t] # None /\ mem[ptr[t]] # "used"
  /\ ptr' = [ptr EXCEPT ![t] = None]
  /\ stage' = IF positive THEN "undefined" ELSE stage
  /\ UNCHANGED <<safe, blockVars, poolVars, at, blk, head, tasks, loop>>

\* What a stopped loop still owns is released by whoever cleans up after it.
TakeOver(b) ==
  /\ stage = "up" /\ ~loop /\ b \in hold[Loop] \ hold[Main]
  /\ hold' = [hold EXCEPT ![Loop] = @ \ {b}, ![Main] = @ \cup {b}]
  /\ UNCHANGED <<safe, mem, big, refcnt, poolVars, threadVars, tasks, loop, stage>>

\* ztk_buf_unref: the thread that takes the counter from 1 to 0 releases.
Unref(t, b) ==
  /\ Active(t) /\ Idle(t) /\ b \in hold[t]
  /\ refcnt' = [refcnt EXCEPT ![b] = @ - 1]
  /\ hold' = [hold EXCEPT ![t] = @ \ {b}]
  /\ IF refcnt[b] = 1 THEN Go(t, "release", b) ELSE UNCHANGED <<at, blk>>
  /\ UNCHANGED <<safe, mem, big, poolVars, head, ptr, tasks, loop, stage>>

-----------------------------------------------------------------------------
(* ztk_buf_pool_release                                                    *)

\* ztk_poller_is_current_thread(owner)
OnOwner(t) == t = Loop /\ loop

\* Bug: the thread is not asked for.
ReleaseHere(t) ==
  /\ at[t] = "release"
  /\ Go(t, "now", blk[t])
  /\ UNCHANGED <<safe, blockVars, poolVars, head, ptr, tasks, loop, stage>>

\* A lockless pool is only touched on its owner's thread.
Release(t) ==
  /\ at[t] = "release"
  /\ Go(t, IF safe \/ OnOwner(t) THEN "now" ELSE "defer", blk[t])
  /\ UNCHANGED <<safe, blockVars, poolVars, head, ptr, tasks, loop, stage>>

\* Bug: a block for which no task can be posted is forgotten.
DeferForgets(t, posted) ==
  /\ at[t] = "defer"
  /\ Go(t, "idle", None)
  /\ tasks' = IF posted THEN Append(tasks, blk[t]) ELSE tasks
  /\ UNCHANGED <<safe, blockVars, poolVars, head, ptr, loop, stage>>

\* The release is posted to the owner; without memory for it the block is
\* freed.
Defer(t, posted) ==
  /\ at[t] = "defer"
  /\ Go(t, "idle", None)
  /\ IF posted
     THEN tasks' = Append(tasks, blk[t]) /\ UNCHANGED mem
     ELSE mem' = [mem EXCEPT ![blk[t]] = "libc"] /\ UNCHANGED tasks
  /\ UNCHANGED <<safe, big, refcnt, hold, poolVars, head, ptr, loop, stage>>

\* bucket_index_exact_cap finds a bucket of the block's size.
HasBucket(b) == ~big[b]

\* pool_release_now: a block of no bucket, or a full list, is freed.
ReleaseDrop(t) ==
  /\ at[t] = "now" /\ mu = None
  /\ ~HasBucket(blk[t]) \/ count >= MaxFree
  /\ mem' = [mem EXCEPT ![blk[t]] = "libc"]
  /\ Go(t, "idle", None)
  /\ UNCHANGED <<safe, big, refcnt, hold, poolVars, head, ptr, tasks, loop, stage>>

\* ... any other is linked in front of the list: node->next = head,
ReleaseCache(t) ==
  /\ at[t] = "now" /\ HasBucket(blk[t]) /\ count < MaxFree
  /\ Lock(t)
  /\ Go(t, "push", blk[t])
  /\ head' = [head EXCEPT ![t] = free]
  /\ UNCHANGED <<safe, blockVars, free, count, ptr, tasks, loop, stage>>

\* head = node.
ReleasePush(t) ==
  /\ at[t] = "push"
  /\ free' = <<blk[t]>> \o head[t] /\ count' = count + 1
  /\ mem' = [mem EXCEPT ![blk[t]] = "cached"]
  /\ Go(t, "idle", None) /\ Unlock(t)
  /\ head' = [head EXCEPT ![t] = <<>>]
  /\ UNCHANGED <<safe, big, refcnt, hold, ptr, tasks, loop, stage>>

-----------------------------------------------------------------------------
(* The owner poller and the shutdown                                       *)

\* Bug: the task goes through the posting branch again.
RunDeferredAgain ==
  /\ stage = "up" /\ loop /\ Idle(Loop) /\ tasks # <<>>
  /\ Go(Loop, "defer", Head(tasks))
  /\ tasks' = Tail(tasks)
  /\ UNCHANGED <<safe, blockVars, poolVars, head, ptr, loop, stage>>

\* pool_release_deferred, run by the loop.
RunDeferred ==
  /\ stage = "up" /\ loop /\ Idle(Loop) /\ tasks # <<>>
  /\ Go(Loop, "now", Head(tasks))
  /\ tasks' = Tail(tasks)
  /\ UNCHANGED <<safe, blockVars, poolVars, head, ptr, loop, stage>>

\* ztk_poller_pool_start
Start ==
  /\ stage = "up" /\ ~loop
  /\ loop' = TRUE
  /\ UNCHANGED <<safe, blockVars, poolVars, threadVars, tasks, stage>>

\* ztk_poller_pool_stop: the loop leaves after some turn, tasks posted since
\* its last drain stay where they are, and the thread is joined.
Stop ==
  /\ stage = "up" /\ loop /\ Idle(Loop)
  /\ loop' = FALSE
  /\ UNCHANGED <<safe, blockVars, poolVars, threadVars, tasks, stage>>

\* ztk_buf_pool_destroy: the blocks of the list are freed.
PoolDestroyed ==
  /\ mem' = [b \in Blocks |-> IF mem[b] = "cached" THEN "libc" ELSE mem[b]]
  /\ free' = <<>> /\ count' = 0

\* ztk_poller_pool_detach_buf_pools, when the application has let go of every
\* buffer.
Detach ==
  /\ stage = "up" /\ ~loop
  /\ \A t \in Threads : Idle(t) /\ hold[t] = {}
  /\ PoolDestroyed
  /\ stage' = "detached"
  /\ UNCHANGED <<safe, big, refcnt, hold, mu, threadVars, tasks, loop>>

\* ztk_poller_destroy drains the task list on this thread; a deferred release
\* then works on a pool that is gone.
DestroyPoller ==
  /\ stage = "detached"
  /\ stage' = IF tasks = <<>> THEN "gone" ELSE "undefined"
  /\ UNCHANGED <<safe, blockVars, poolVars, threadVars, tasks, loop>>

Over == stage \in {"gone", "undefined"} /\ UNCHANGED vars

-----------------------------------------------------------------------------
\* What a thread does on its way through a release, and the loop's drain.
Releasing(t) ==
  /\ stage = "up"
  /\ \/ Release(t) \/ ReleaseDrop(t) \/ ReleaseCache(t) \/ ReleasePush(t)
     \/ \E posted \in BOOLEAN : Defer(t, posted)
     \/ AcquirePop(t)

\* The call that follows a load.
Reads(t) == TryRef(t) \/ \E positive \in BOOLEAN : TryRefStale(t, positive)

Next ==
  \/ \E t \in Threads :
       \/ Releasing(t) \/ AcquireHit(t) \/ Reads(t)
       \/ \E b \in Blocks :
            \/ Unref(t, b) \/ Load(t, b)
            \/ \E oversize \in BOOLEAN : AcquireMalloc(t, b, oversize)
            \/ \E u \in Threads \ {t} : Share(t, u, b)
  \/ \E b \in Blocks : TakeOver(b)
  \/ RunDeferred \/ Start \/ Stop \/ Detach \/ DestroyPoller \/ Over

Spec == Init /\ [][Next]_vars

\* Threads are scheduled and a mutex is granted in turn; the loop drains.
FairSpec ==
  /\ Spec
  /\ \A t \in Threads : SF_vars(Releasing(t)) /\ WF_vars(Reads(t))
  /\ SF_vars(RunDeferred)

-----------------------------------------------------------------------------
(* Properties                                                              *)

InFree == {free[i] : i \in 1 .. Len(free)}
InTasks == {tasks[i] : i \in 1 .. Len(tasks)}
Inside == {t \in Threads : at[t] \in {"pop", "push"}}
Dying == {blk[t] : t \in {u \in Threads : at[u] \notin {"idle", "pop"}}} \cup InTasks

\* The free list is never worked on by two threads at once, although a lockless
\* pool has no mutex and its blocks are let go of on any thread (buf.c:274-301,
\* 366-410, 420-435).
NoFreelistRace == Cardinality(Inside) <= 1

\* Every block is in one place: what is cached is in the list once and nobody
\* refers to it; what is in use is referred to as often as its counter says,
\* or is on its way back exactly once.  A try_ref that comes after the last
\* unref revives nothing, as long as the block is still a ztk_buf or is one
\* again (buf.c:117-146); of the state after TryRefStale has written into the
\* list or the heap, where the run stops, nothing is said.
SingleHome ==
  /\ \A b \in InFree : mem[b] = "cached"
  /\ \A i, j \in 1 .. Len(free) : free[i] = free[j] => i = j
  /\ \A b \in Blocks :
       mem[b] # "used" => b \notin Dying /\ \A t \in Threads : b \notin hold[t]
  /\ \A b \in Blocks :
       mem[b] = "used" => /\ refcnt[b] = Cardinality({t \in Threads : b \in hold[t]})
                          /\ (refcnt[b] = 0) <=> (b \in Dying)
  /\ \A i, j \in 1 .. Len(tasks) : tasks[i] = tasks[j] => i = j
  /\ Inside = {} => count = Len(free)

\* A block nobody refers to any more goes back to the list or to malloc, on
\* whatever thread it was let go of, as long as the loop is not stopped.
Reclaimed ==
  \A b \in Blocks :
    b \in Dying ~> (b \notin Dying \/ ~loop \/ stage = "undefined")

\* The pool outlives the releases posted to its owner: "first stop the threads
\* and drain async, the releases of lockless pools included, then take the
\* local pools apart" (poller_pool.c:74).  It does not: stop does not drain.
DrainedBeforeDetach == stage = "detached" => tasks = <<>>
=============================================================================
