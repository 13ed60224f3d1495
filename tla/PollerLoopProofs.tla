-------------------------- MODULE PollerLoopProofs --------------------------
(***************************************************************************)
(* Proofs about PollerLoop, for any number of producers, any pipe capacity *)
(* and any bounds.                                                         *)
(***************************************************************************)
EXTENDS PollerLoop, SequenceTheorems, TLAPS

\* The type invariant in two parts: the flags, for which Zenon is the better
\* prover, and the rest, which needs arithmetic and sequences.
FlagsOK ==
  /\ woke \in BOOLEAN /\ bound \in BOOLEAN /\ timed \in BOOLEAN
  /\ stop \in BOOLEAN

ShapeOK ==
  /\ queue \in Seq(Task) /\ batch \in Seq(Task) /\ ran \in Seq(Task)
  /\ next \in 1 .. MaxTasks + 1
  /\ pipe \in 0 .. PipeCap
  /\ waking \in SUBSET Producers
  /\ pc \in PCs
  /\ ret \in {"events", "check2", "top", "off", "dead"}
  /\ runs \in 0 .. MaxRuns /\ intr \in 0 .. MaxIntr

LEMMA TypeParts == TypeOK <=> FlagsOK /\ ShapeOK
BY Zenon DEF TypeOK, FlagsOK, ShapeOK

\* The tasks a step may create are tasks.
LEMMA NewTaskType ==
  ASSUME TypeOK, next <= MaxTasks, NEW kind \in Calls \ {"none"}
  PROVE  NewTask(kind) \in Task
BY PollerLoopAssumption DEF TypeOK, NewTask, Task, Destroying

\* Insertion keeps the list a list of tasks.
LEMMA InsertType ==
  ASSUME TypeOK, NEW kind \in {"back", "front"}, Insert(kind)
  PROVE  queue' \in Seq(Task) /\ next' \in 1 .. MaxTasks + 1 /\ queue' # <<>>
<1>1. NewTask(kind) \in Task
  BY NewTaskType DEF Insert, Calls
<1>2. queue \in Seq(Task)
  BY DEF TypeOK
<1>3. <<NewTask(kind)>> \o queue \in Seq(Task) /\ <<NewTask(kind)>> \o queue # <<>>
  BY <1>1, <1>2
<1>4. Append(queue, NewTask(kind)) \in Seq(Task) /\ Append(queue, NewTask(kind)) # <<>>
  BY <1>1, <1>2
<1>5. next' \in 1 .. MaxTasks + 1
  BY PollerLoopAssumption DEF TypeOK, Insert
<1> QED
  BY <1>3, <1>4, <1>5 DEF Insert

\* A write leaves at least one byte in the pipe and never more than it holds.
LEMMA WakeType ==
  ASSUME TypeOK
  PROVE  AfterWake \in 1 .. PipeCap
BY PollerLoopAssumption DEF TypeOK, AfterWake

\* What a call made on the loop thread leaves behind.
LEMMA CallType ==
  ASSUME TypeOK, NEW call \in Calls, NEW r \in Seq(Task), Call(call, r)
  PROVE  /\ queue' \in Seq(Task) /\ ran' \in Seq(Task)
         /\ next' \in 1 .. MaxTasks + 1 /\ pipe' \in 0 .. PipeCap
         /\ \/ queue' = queue /\ pipe' = pipe
            \/ pipe' > 0
<1>1. CASE call = "none"
  BY <1>1 DEF Call, TypeOK
<1>2. CASE call = "sync" /\ bound
  <2>1. NewTask(call) \in Task
    BY <1>2, NewTaskType DEF Call, Calls
  <2>2. next' \in 1 .. MaxTasks + 1
    BY <1>2, PollerLoopAssumption DEF Call, TypeOK
  <2>3. ran' = Append(r, NewTask(call)) /\ queue' = queue /\ pipe' = pipe
    BY <1>2, Zenon DEF Call
  <2>4. queue \in Seq(Task) /\ pipe \in 0 .. PipeCap
    BY DEF TypeOK
  <2> QED
    BY <2>1, <2>2, <2>3, <2>4
<1>3. CASE call # "none" /\ ~(call = "sync" /\ bound)
  <2> DEFINE kind == IF call = "front" THEN "front" ELSE "back"
  <2>1. Insert(kind) /\ pipe' = AfterWake /\ ran' = r
    BY <1>3 DEF Call
  <2>2. queue' \in Seq(Task) /\ next' \in 1 .. MaxTasks + 1
    BY <2>1, InsertType
  <2>3. pipe' \in 0 .. PipeCap /\ pipe' > 0
    BY <2>1, WakeType, PollerLoopAssumption
  <2> QED
    BY <2>1, <2>2, <2>3
<1> QED
  BY <1>1, <1>2, <1>3

\* Every step keeps the type invariant.
LEMMA TypeStep ==
  ASSUME TypeOK, [Next]_vars
  PROVE  TypeOK'
<1> USE DEF loopVars, taskVars, envVars
<1>1. ASSUME NEW p \in Producers, NEW kind \in {"back", "front"}, AsyncInsert(p, kind)
      PROVE  TypeOK'
  BY <1>1, InsertType DEF AsyncInsert, TypeOK
<1>2. ASSUME NEW p \in Producers, AsyncWake(p)
      PROVE  TypeOK'
  BY <1>2, WakeType, PollerLoopAssumption DEF AsyncWake, TypeOK
<1>3. CASE BareWake
  BY <1>3, WakeType, PollerLoopAssumption DEF BareWake, TypeOK
<1>4. ASSUME NEW t \in BOOLEAN, StartRun(t)
      PROVE  TypeOK'
  <2>1. FlagsOK'
    BY <1>4, TypeParts, Zenon DEF StartRun, FlagsOK
  <2>2. ShapeOK'
    BY <1>4, TypeParts, PollerLoopAssumption DEF StartRun, ShapeOK, PCs
  <2> QED
    BY <2>1, <2>2, Zenon DEF TypeOK, FlagsOK, ShapeOK
<1>5. CASE LoopTop
  BY <1>5 DEF LoopTop, TypeOK, PCs
<1>6. CASE WaitWake \/ WaitFds \/ WaitTimeout \/ WaitIntr \/ WaitError
  <2>1. FlagsOK'
    BY <1>6, TypeParts, Zenon
    DEF WaitWake, WaitFds, WaitTimeout, WaitIntr, WaitError, FlagsOK
  <2>2. ShapeOK'
    BY <1>6, TypeParts, PollerLoopAssumption
    DEF WaitWake, WaitFds, WaitTimeout, WaitIntr, WaitError, ShapeOK, PCs
  <2> QED
    BY <2>1, <2>2, Zenon DEF TypeOK, FlagsOK, ShapeOK
<1>7. ASSUME NEW call \in Calls, FdCallback(call)
      PROVE  TypeOK'
  <2>1. ran \in Seq(Task) /\ Call(call, ran)
    BY <1>7 DEF FdCallback, TypeOK
  <2>2. /\ queue' \in Seq(Task) /\ ran' \in Seq(Task)
        /\ next' \in 1 .. MaxTasks + 1 /\ pipe' \in 0 .. PipeCap
    BY <2>1, CallType
  <2> QED
    BY <1>7, <2>2 DEF FdCallback, TypeOK
<1>8. CASE WakeEvent \/ EventsDone
  <2>1. FlagsOK'
    BY <1>8, TypeParts, Zenon DEF WakeEvent, EventsDone, FlagsOK
  <2>2. ShapeOK'
    BY <1>8, TypeParts, PollerLoopAssumption DEF WakeEvent, EventsDone, ShapeOK, PCs
  <2> QED
    BY <2>1, <2>2, Zenon DEF TypeOK, FlagsOK, ShapeOK
<1>9. CASE PendingOnTimeout \/ PendingAtEnd
  BY <1>9 DEF PendingOnTimeout, PendingAtEnd, Pending, TypeOK, PCs
<1>10. CASE Detach
  BY <1>10 DEF Detach, TypeOK, PCs
<1>11. ASSUME NEW call \in Calls, RunTask(call)
       PROVE  TypeOK'
  <2> DEFINE r == Append(ran, Head(batch))
  <2>1. batch' \in Seq(Task) /\ r \in Seq(Task) /\ Call(call, r)
    BY <1>11 DEF RunTask, TypeOK
  <2>2. /\ queue' \in Seq(Task) /\ ran' \in Seq(Task)
        /\ next' \in 1 .. MaxTasks + 1 /\ pipe' \in 0 .. PipeCap
    BY <2>1, CallType
  <2> QED
    BY <1>11, <2>1, <2>2 DEF RunTask, TypeOK
<1>12. CASE DrainDone
  BY <1>12 DEF DrainDone, Destroying, TypeOK, PCs
<1>13. CASE RequestStop \/ ProcessPending \/ Destroy
  BY <1>13 DEF RequestStop, ProcessPending, Destroy, TypeOK, PCs
<1>14. CASE Destroyed \/ UNCHANGED vars
  BY <1>14 DEF Destroyed, vars, TypeOK
<1> QED
  BY <1>1, <1>2, <1>3, <1>4, <1>5, <1>6, <1>7, <1>8, <1>9, <1>10, <1>11,
     <1>12, <1>13, <1>14
  DEF Next, ProducerStep, LoopStep, Environment

\* The list, the pipe, the producers and the loop thread stay in their types
\* in every run of the poller (ztk_poller_async_impl, ztk_poller_poll,
\* ztk_poller_run, ztk_poller_destroy).
THEOREM TypeCorrect == Spec => []TypeOK
<1>1. Init => TypeOK
  <2>1. Init => FlagsOK
    BY Zenon DEF Init, FlagsOK
  <2>2. Init => ShapeOK
    BY PollerLoopAssumption DEF Init, ShapeOK, PCs
  <2> QED
    BY <2>1, <2>2, TypeParts
<1>2. TypeOK /\ [Next]_vars => TypeOK'
  BY TypeStep
<1> QED
  BY <1>1, <1>2, PTL DEF Spec

-----------------------------------------------------------------------------
(* No wake-up is lost                                                      *)

\* NoLostWakeup is not inductive: it says nothing of the loop before it waits.
\* The list may be non-empty with an empty pipe and no writer under way only
\* while the loop is about to detach that list.
WakeInv ==
  queue # <<>> => pipe > 0 \/ waking # {} \/ pc = "detach"

LEMMA WakeStep ==
  ASSUME TypeOK, WakeInv, [Next]_vars
  PROVE  WakeInv'
<1> USE DEF loopVars, taskVars, envVars
<1>1. ASSUME NEW p \in Producers, NEW kind \in {"back", "front"}, AsyncInsert(p, kind)
      PROVE  WakeInv'
  BY <1>1 DEF AsyncInsert, WakeInv
<1>2. ASSUME NEW p \in Producers, AsyncWake(p)
      PROVE  WakeInv'
  <2>1. pipe' > 0
    BY <1>2, WakeType, PollerLoopAssumption DEF AsyncWake
  <2> QED
    BY <2>1 DEF WakeInv
<1>3. CASE BareWake
  <2>1. pipe' > 0
    BY <1>3, WakeType, PollerLoopAssumption DEF BareWake
  <2> QED
    BY <2>1 DEF WakeInv
<1>4. ASSUME NEW t \in BOOLEAN, StartRun(t)
      PROVE  WakeInv'
  BY <1>4 DEF StartRun, WakeInv
<1>5. CASE LoopTop \/ WaitWake \/ WaitFds \/ WaitTimeout \/ WaitIntr \/ WaitError
  BY <1>5 DEF LoopTop, WaitWake, WaitFds, WaitTimeout, WaitIntr, WaitError, WakeInv
<1>6. ASSUME NEW call \in Calls, FdCallback(call)
      PROVE  WakeInv'
  <2>1. (queue' = queue /\ pipe' = pipe) \/ pipe' > 0
    BY <1>6, CallType DEF FdCallback, TypeOK
  <2>2. waking' = waking /\ pc' = pc
    BY <1>6 DEF FdCallback
  <2> QED
    BY <2>1, <2>2 DEF WakeInv
<1>7. CASE WakeEvent
  BY <1>7 DEF WakeEvent, WakeInv
<1>8. CASE EventsDone
  BY <1>8 DEF EventsDone, WakeInv
<1>9. CASE PendingOnTimeout \/ PendingAtEnd
  BY <1>9 DEF PendingOnTimeout, PendingAtEnd, Pending, WakeInv
<1>10. CASE Detach
  BY <1>10 DEF Detach, WakeInv
<1>11. ASSUME NEW call \in Calls, RunTask(call)
       PROVE  WakeInv'
  <2> DEFINE r == Append(ran, Head(batch))
  <2>1. r \in Seq(Task) /\ Call(call, r)
    BY <1>11 DEF RunTask, TypeOK
  <2>2. (queue' = queue /\ pipe' = pipe) \/ pipe' > 0
    BY <2>1, CallType
  <2>3. waking' = waking /\ pc' = pc /\ pc = "running"
    BY <1>11 DEF RunTask
  <2> QED
    BY <2>2, <2>3 DEF WakeInv
<1>12. CASE DrainDone
  BY <1>12 DEF DrainDone, WakeInv
<1>13. CASE RequestStop \/ ProcessPending \/ Destroy
  BY <1>13 DEF RequestStop, ProcessPending, Destroy, WakeInv
<1>14. CASE Destroyed \/ UNCHANGED vars
  BY <1>14 DEF Destroyed, vars, WakeInv
<1> QED
  BY <1>1, <1>2, <1>3, <1>4, <1>5, <1>6, <1>7, <1>8, <1>9, <1>10, <1>11,
     <1>12, <1>13, <1>14
  DEF Next, ProducerStep, LoopStep, Environment

\* The loop thread never sleeps in epoll_wait on a non-empty task list without
\* a byte in the wake pipe or a producer on its way to write one.
THEOREM NoWakeupIsLost == Spec => []NoLostWakeup
<1>1. Init => WakeInv
  BY DEF Init, WakeInv
<1>2. TypeOK /\ WakeInv /\ [Next]_vars => WakeInv'
  BY WakeStep
<1>3. WakeInv => NoLostWakeup
  BY DEF WakeInv, NoLostWakeup
<1> QED
  BY <1>1, <1>2, <1>3, TypeCorrect, PTL DEF Spec

-----------------------------------------------------------------------------
(* What a destroyed poller has run                                         *)

AllLate(q) == \A i \in 1 .. Len(q) : q[i].late

\* The last drain starts with no list detached; once it has taken the list,
\* only tasks that it runs itself can put anything there.
DrainInv ==
  /\ pc # "running" => batch = <<>>
  /\ Destroying => pc \in {"detach", "running", "dead"}
  /\ pc = "dead" => Destroying
  /\ Destroying /\ pc # "detach" => AllLate(queue)

\* Tasks posted while the poller is being destroyed are marked.
LEMMA CallLate ==
  ASSUME TypeOK, NEW call \in Calls, NEW r \in Seq(Task), Call(call, r),
         Destroying, AllLate(queue)
  PROVE  AllLate(queue')
<1>1. CASE queue' = queue
  BY <1>1
<1>2. CASE queue' # queue
  <2> DEFINE kind == IF call = "front" THEN "front" ELSE "back"
             t == NewTask(kind)
  <2>1. Insert(kind)
    BY <1>2 DEF Call
  <2>2. t \in Task /\ t.late
    BY <2>1, NewTaskType DEF Insert, Calls, NewTask
  <2>3. queue \in Seq(Task)
    BY DEF TypeOK
  <2>4. queue' = <<t>> \o queue \/ queue' = Append(queue, t)
    BY <2>1 DEF Insert
  <2> HIDE DEF t
  <2>5. CASE queue' = <<t>> \o queue
    <3>1. /\ Len(queue') = Len(queue) + 1 /\ queue'[1] = t
          /\ \A i \in 1 .. Len(queue') : i # 1 =>
               i - 1 \in 1 .. Len(queue) /\ queue'[i] = queue[i - 1]
      BY <2>2, <2>3, <2>5
    <3> QED
      BY <2>2, <3>1 DEF AllLate
  <2>6. CASE queue' = Append(queue, t)
    <3>1. /\ Len(queue') = Len(queue) + 1 /\ queue'[Len(queue')] = t
          /\ \A i \in 1 .. Len(queue') : i # Len(queue') =>
               i \in 1 .. Len(queue) /\ queue'[i] = queue[i]
      BY <2>2, <2>3, <2>6
    <3> QED
      BY <2>2, <3>1 DEF AllLate
  <2> QED
    BY <2>4, <2>5, <2>6
<1> QED
  BY <1>1, <1>2

LEMMA DrainStep ==
  ASSUME TypeOK, DrainInv, [Next]_vars
  PROVE  DrainInv'
<1> USE DEF loopVars, taskVars, envVars, Destroying
<1>1. ASSUME NEW p \in Producers, NEW kind \in {"back", "front"}, AsyncInsert(p, kind)
      PROVE  DrainInv'
  BY <1>1 DEF AsyncInsert, DrainInv
<1>2. ASSUME NEW p \in Producers, AsyncWake(p)
      PROVE  DrainInv'
  BY <1>2 DEF AsyncWake, DrainInv
<1>3. ASSUME NEW t \in BOOLEAN, StartRun(t)
      PROVE  DrainInv'
  BY <1>3 DEF StartRun, DrainInv
<1>4. CASE LoopTop \/ WaitWake \/ WaitFds \/ WaitTimeout \/ WaitIntr \/ WaitError
  BY <1>4 DEF LoopTop, WaitWake, WaitFds, WaitTimeout, WaitIntr, WaitError, DrainInv
<1>5. ASSUME NEW call \in Calls, FdCallback(call)
      PROVE  DrainInv'
  BY <1>5 DEF FdCallback, DrainInv
<1>6. CASE WakeEvent \/ EventsDone
  BY <1>6 DEF WakeEvent, EventsDone, DrainInv
<1>7. CASE PendingOnTimeout \/ PendingAtEnd
  BY <1>7 DEF PendingOnTimeout, PendingAtEnd, Pending, DrainInv
<1>8. CASE Detach
  <2>1. queue' = <<>> /\ pc' = "running" /\ ret' = ret
    BY <1>8 DEF Detach
  <2>2. AllLate(queue')
    BY <2>1 DEF AllLate
  <2> QED
    BY <2>1, <2>2 DEF DrainInv
<1>9. ASSUME NEW call \in Calls, RunTask(call)
      PROVE  DrainInv'
  <2> DEFINE r == Append(ran, Head(batch))
  <2>1. r \in Seq(Task) /\ Call(call, r)
    BY <1>9 DEF RunTask, TypeOK
  <2>2. pc = "running" /\ pc' = pc /\ ret' = ret
    BY <1>9 DEF RunTask
  <2>3. Destroying => AllLate(queue')
    BY <2>1, <2>2, CallLate DEF DrainInv
  <2> QED
    BY <2>2, <2>3 DEF DrainInv
<1>10. CASE DrainDone
  BY <1>10 DEF DrainDone, DrainInv, TypeOK
<1>11. CASE RequestStop \/ ProcessPending \/ Destroy \/ BareWake
  BY <1>11 DEF RequestStop, ProcessPending, Destroy, BareWake, DrainInv
<1>12. CASE Destroyed \/ UNCHANGED vars
  BY <1>12 DEF Destroyed, vars, DrainInv
<1> QED
  BY <1>1, <1>2, <1>3, <1>4, <1>5, <1>6, <1>7, <1>8, <1>9, <1>10, <1>11, <1>12
  DEF Next, ProducerStep, LoopStep, Environment

\* When a poller is dead, every task posted to it has run, but for those its
\* own final drain posted: ztk_poller_task_fini drains the list once.
THEOREM DestroyDrains == Spec => []DestroyRunsPosted
<1>1. Init => DrainInv
  BY DEF Init, DrainInv, Destroying
<1>2. TypeOK /\ DrainInv /\ [Next]_vars => DrainInv'
  BY DrainStep
<1>3. DrainInv => DestroyRunsPosted
  BY DEF DrainInv, AllLate, DestroyRunsPosted
<1> QED
  BY <1>1, <1>2, <1>3, TypeCorrect, PTL DEF Spec

-----------------------------------------------------------------------------
(* The order and the number of the tasks that run                          *)

\* The sequence u is s with t put in at place k + 1.
Grown(s, u, t, k) ==
  /\ k \in 0 .. Len(s) /\ Len(u) = Len(s) + 1
  /\ \A i \in 1 .. k : u[i] = s[i]
  /\ u[k + 1] = t
  /\ \A i \in k + 2 .. Len(u) : u[i] = s[i - 1]

LEMMA GrownBetween ==
  ASSUME NEW a \in Seq(Task), NEW b \in Seq(Task), NEW t \in Task
  PROVE  Grown(a \o b, (a \o <<t>>) \o b, t, Len(a))
<1>1. <<t>> \in Seq(Task) /\ Len(<<t>>) = 1 /\ <<t>>[1] = t
  OBVIOUS
<1>2. /\ a \o b \in Seq(Task) /\ Len(a \o b) = Len(a) + Len(b)
      /\ \A i \in 1 .. Len(a) + Len(b) :
           (a \o b)[i] = IF i <= Len(a) THEN a[i] ELSE b[i - Len(a)]
  BY ConcatProperties
<1> DEFINE c == a \o <<t>>
<1>3. /\ c \in Seq(Task) /\ Len(c) = Len(a) + 1
      /\ \A i \in 1 .. Len(a) + 1 : c[i] = IF i <= Len(a) THEN a[i] ELSE t
  BY <1>1
<1> HIDE DEF c
<1>4. /\ Len(c \o b) = Len(c) + Len(b)
      /\ \A i \in 1 .. Len(c) + Len(b) :
           (c \o b)[i] = IF i <= Len(c) THEN c[i] ELSE b[i - Len(c)]
  BY <1>3, ConcatProperties
<1>5. Len(a) \in Nat /\ Len(b) \in Nat
  OBVIOUS
<1>6. Grown(a \o b, c \o b, t, Len(a))
  BY <1>2, <1>3, <1>4, <1>5 DEF Grown
<1> QED
  BY <1>6 DEF c

\* The tasks of the trail are tasks, their ids are those handed out so far,
\* each one occurs, and a task posted at the back precedes only younger ones.
Accounted(s, n) ==
  /\ s \in Seq(Task)
  /\ Len(s) = n - 1
  /\ \A i \in 1 .. Len(s) : s[i].id < n
  /\ \A id \in 1 .. n - 1 : \E i \in 1 .. Len(s) : s[i].id = id
  /\ \A i, j \in 1 .. Len(s) : i < j /\ s[i].kind = "back" => s[i].id < s[j].id

\* Putting the next task in keeps the account, if a task posted at the back is
\* put at the end.
LEMMA GrownAccounted ==
  ASSUME NEW n \in Nat \ {0}, NEW s, Accounted(s, n), NEW u \in Seq(Task),
         NEW t \in Task, t.id = n, NEW k, Grown(s, u, t, k),
         t.kind = "back" => k = Len(s)
  PROVE  Accounted(u, n + 1)
<1>1. Len(s) \in Nat /\ Len(u) = Len(s) + 1 /\ k \in 0 .. Len(s)
  BY DEF Accounted, Grown
<1>2. \A i \in 1 .. Len(s) : s[i] \in Task
  BY DEF Accounted
<1>3. \A i \in 1 .. Len(s) : s[i].id \in Nat
  BY <1>2, PollerLoopAssumption DEF Task
<1>4. \A i \in 1 .. Len(u) :
        \/ i <= k /\ i \in 1 .. Len(s) /\ u[i] = s[i]
        \/ i = k + 1 /\ u[i] = t
        \/ i > k + 1 /\ i - 1 \in 1 .. Len(s) /\ u[i] = s[i - 1]
  BY <1>1 DEF Grown
<1>5. \A i \in 1 .. Len(u) : u[i].id < n + 1
  <2>1. ASSUME NEW i \in 1 .. Len(s)
        PROVE  s[i].id < n + 1
    <3>1. s[i].id \in Nat /\ s[i].id < n
      BY <1>3 DEF Accounted
    <3> QED
      BY <3>1
  <2>2. t.id < n + 1
    OBVIOUS
  <2> QED
    BY <1>4, <2>1, <2>2
<1>6. ASSUME NEW id \in 1 .. n
      PROVE  \E i \in 1 .. Len(u) : u[i].id = id
  <2>1. CASE id = n
    <3>1. k + 1 \in 1 .. Len(u) /\ u[k + 1].id = id
      BY <1>1, <2>1 DEF Grown
    <3> QED
      BY <3>1
  <2>2. CASE id # n
    <3>0. id \in 1 .. n - 1
      BY <2>2
    <3>1. PICK i \in 1 .. Len(s) : s[i].id = id
      BY <3>0 DEF Accounted
    <3>2. CASE i <= k
      BY <1>1, <3>1, <3>2 DEF Grown
    <3>3. CASE i > k
      <4>1. i + 1 \in k + 2 .. Len(u) /\ (i + 1) - 1 = i
        BY <1>1, <3>3
      <4>2. u[i + 1] = s[i]
        BY <4>1 DEF Grown
      <4> QED
        BY <1>1, <3>1, <4>1, <4>2
    <3> QED
      BY <1>1, <3>2, <3>3
  <2> QED
    BY <2>1, <2>2
<1>7. ASSUME NEW i \in 1 .. Len(u), NEW j \in 1 .. Len(u), i < j, u[i].kind = "back"
      PROVE  u[i].id < u[j].id
  <2>1. CASE j = k + 1
    <3>1. u[j].id = n /\ i \in 1 .. Len(s) /\ u[i] = s[i]
      BY <1>1, <1>4, <1>7, <2>1
    <3> QED
      BY <3>1 DEF Accounted
  <2>2. CASE i = k + 1
    BY <1>1, <1>4, <1>7, <2>2
  <2>3. CASE i # k + 1 /\ j # k + 1
    <3> DEFINE x == IF i <= k THEN i ELSE i - 1
               y == IF j <= k THEN j ELSE j - 1
    <3>1. x \in 1 .. Len(s) /\ u[i] = s[x]
      BY <1>4, <2>3, <1>1
    <3>2. y \in 1 .. Len(s) /\ u[j] = s[y]
      BY <1>4, <2>3, <1>1
    <3>3. x < y
      BY <1>1, <1>7, <2>3
    <3> HIDE DEF x, y
    <3>4. s[x].kind = "back"
      BY <1>7, <3>1
    <3>5. s[x].id < s[y].id
      BY <3>1, <3>2, <3>3, <3>4 DEF Accounted
    <3> QED
      BY <3>1, <3>2, <3>5
  <2> QED
    BY <2>1, <2>2, <2>3
<1>8. Len(u) = (n + 1) - 1
  BY <1>1 DEF Accounted
<1> QED
  BY <1>5, <1>6, <1>7, <1>8 DEF Accounted

\* The locked insertion adds the task to the end of the trail, or, at the
\* front, between what is detached and what is queued.
LEMMA InsertAccounted ==
  ASSUME TypeOK, NEW kind \in {"back", "front"}, Insert(kind),
         NEW a \in Seq(Task), Accounted(a \o queue, next)
  PROVE  Accounted(a \o queue', next')
<1> DEFINE t == NewTask(kind)
<1>1. queue \in Seq(Task) /\ next \in Nat \ {0}
  BY DEF TypeOK
<1>2. t \in Task /\ t.id = next /\ t.kind = kind
  BY NewTaskType DEF Insert, Calls, NewTask
<1>3. /\ next' = next + 1
      /\ queue' = IF kind = "front" THEN <<t>> \o queue ELSE Append(queue, t)
  BY DEF Insert
<1> HIDE DEF t
<1>4. <<t>> \in Seq(Task) /\ a \o queue \in Seq(Task) /\ <<>> \in Seq(Task)
  BY <1>1, <1>2, ConcatProperties
<1>5. CASE kind = "front"
  <2>1. a \o queue' = (a \o <<t>>) \o queue
    BY <1>1, <1>3, <1>4, <1>5, ConcatAssociative
  <2>2. a \o queue' \in Seq(Task)
    BY <1>1, <1>4, <2>1, ConcatProperties
  <2>3. Grown(a \o queue, a \o queue', t, Len(a))
    BY <1>1, <1>2, <2>1, GrownBetween
  <2>4. Accounted(a \o queue', next + 1)
    BY <1>1, <1>2, <1>5, <2>2, <2>3, GrownAccounted
  <2> QED
    BY <1>3, <2>4
<1>6. CASE kind = "back"
  <2> DEFINE s == a \o queue
  <2>1. a \o queue' = s \o <<t>>
    BY <1>1, <1>2, <1>3, <1>4, <1>6, ConcatAssociative, AppendIsConcat
  <2>2. s \in Seq(Task) /\ s \o <<t>> \in Seq(Task)
    BY <1>4, ConcatProperties
  <2>3. s \o <<>> = s /\ (s \o <<t>>) \o <<>> = s \o <<t>>
    BY <2>2, ConcatEmptySeq
  <2> HIDE DEF s
  <2>4. Grown(s, s \o <<t>>, t, Len(s))
    BY <1>2, <1>4, <2>2, <2>3, GrownBetween
  <2>5. Accounted(s, next)
    BY DEF s
  <2>6. Accounted(s \o <<t>>, next + 1)
    BY <1>1, <1>2, <2>2, <2>4, <2>5, GrownAccounted
  <2> QED
    BY <1>3, <2>1, <2>6
<1> QED
  BY <1>5, <1>6

\* What a call on the loop thread makes of the trail: nothing, or one task
\* more, at the end if it was posted with ztk_poller_async.
LEMMA CallAccounted ==
  ASSUME TypeOK, NEW call \in Calls, NEW r \in Seq(Task), NEW b \in Seq(Task),
         Call(call, r), Accounted((r \o b) \o queue, next)
  PROVE  Accounted((ran' \o b) \o queue', next')
<1> DEFINE kind == IF call = "front" THEN "front" ELSE "back"
<1>1. queue \in Seq(Task) /\ next \in Nat \ {0}
  BY DEF TypeOK
<1>2. CASE call = "none"
  BY <1>2 DEF Call
<1>3. CASE call = "sync" /\ bound
  <2> DEFINE t == NewTask(call)
  <2>1. t \in Task /\ t.id = next /\ t.kind # "back"
    BY <1>3, NewTaskType DEF Call, Calls, NewTask
  <2>2. ran' = Append(r, t) /\ queue' = queue /\ next' = next + 1
    BY <1>3, Zenon DEF Call
  <2> HIDE DEF t
  <2>3. <<t>> \in Seq(Task)
    BY <2>1
  <2>4. b \o queue \in Seq(Task) /\ ran' = r \o <<t>> /\ ran' \in Seq(Task)
    <3>1. b \o queue \in Seq(Task)
      BY <1>1, ConcatProperties
    <3>2. ran' = r \o <<t>>
      BY <2>1, <2>2, AppendIsConcat
    <3>3. ran' \in Seq(Task)
      BY <2>1, <2>2, AppendProperties
    <3> QED
      BY <3>1, <3>2, <3>3
  <2>5. (r \o b) \o queue = r \o (b \o queue)
    BY <1>1, ConcatAssociative, SMTT(30)
  <2>6. (ran' \o b) \o queue = ran' \o (b \o queue)
    <3>1. ran' \in Seq(Task)
      BY <2>4
    <3> QED
      BY <1>1, <3>1, ConcatAssociative
  <2>7. (ran' \o b) \o queue \in Seq(Task)
    BY <1>1, <2>4, ConcatProperties
  <2>8. Grown((r \o b) \o queue, (ran' \o b) \o queue, t, Len(r))
    BY <2>1, <2>4, <2>5, <2>6, GrownBetween
  <2>9. Accounted((ran' \o b) \o queue, next + 1)
    BY <1>1, <2>1, <2>7, <2>8, GrownAccounted
  <2> QED
    BY <2>2, <2>9
<1>4. CASE call # "none" /\ ~(call = "sync" /\ bound)
  <2>1. Insert(kind) /\ ran' = r
    BY <1>4 DEF Call
  <2>2. r \o b \in Seq(Task)
    BY ConcatProperties
  <2>3. kind \in {"back", "front"}
    OBVIOUS
  <2> HIDE DEF kind
  <2> QED
    BY <1>1, <2>1, <2>2, <2>3, InsertAccounted
<1> QED
  BY <1>2, <1>3, <1>4

\* NoOvertake and ExactlyOnce say nothing of the ids still to be handed out;
\* together with their bound the account of the trail is inductive.
LEMMA TrailStep ==
  ASSUME TypeOK, DrainInv, Accounted(Trail, next), [Next]_vars
  PROVE  Accounted(Trail', next')
<1> USE DEF loopVars, taskVars, envVars
<1> DEFINE Same == UNCHANGED <<queue, batch, ran, next>>
<1>1. CASE Same
  BY <1>1 DEF Trail
<1>2. ASSUME NEW p \in Producers, NEW kind \in {"back", "front"}, AsyncInsert(p, kind)
      PROVE  Accounted(Trail', next')
  <2>1. Insert(kind) /\ ran' = ran /\ batch' = batch
    BY <1>2 DEF AsyncInsert
  <2>2. ran \o batch \in Seq(Task)
    BY ConcatProperties DEF TypeOK
  <2>3. Accounted((ran \o batch) \o queue', next')
    BY <2>1, <2>2, InsertAccounted DEF Trail
  <2> QED
    BY <2>1, <2>3 DEF Trail
<1>3. ASSUME NEW call \in Calls, FdCallback(call)
      PROVE  Accounted(Trail', next')
  <2>1. Call(call, ran) /\ batch' = batch
    BY <1>3 DEF FdCallback
  <2>2. ran \in Seq(Task) /\ batch \in Seq(Task)
    BY DEF TypeOK
  <2>3. Accounted((ran' \o batch) \o queue', next')
    BY <2>1, <2>2, CallAccounted DEF Trail
  <2> QED
    BY <2>1, <2>3 DEF Trail
<1>4. CASE Detach
  <2>1. batch = <<>> /\ batch' = queue /\ queue' = <<>> /\ ran' = ran /\ next' = next
    BY <1>4 DEF Detach, DrainInv
  <2>2. ran \in Seq(Task) /\ queue \in Seq(Task) /\ ran \o queue \in Seq(Task)
    BY ConcatProperties DEF TypeOK
  <2>3. Trail = ran \o queue
    BY <2>1, <2>2, ConcatEmptySeq DEF Trail
  <2>4. Trail' = (ran \o queue) \o <<>>
    BY <2>1 DEF Trail
  <2>5. Trail' = Trail
    BY <2>2, <2>3, <2>4, ConcatEmptySeq
  <2> QED
    BY <2>1, <2>5
<1>5. ASSUME NEW call \in Calls, RunTask(call)
      PROVE  Accounted(Trail', next')
  <2> DEFINE h == Head(batch)
             r == Append(ran, h)
             b == Tail(batch)
  <2>1. Call(call, r) /\ batch' = b /\ batch # <<>>
    BY <1>5 DEF RunTask
  <2>2. batch \in Seq(Task) /\ ran \in Seq(Task)
    BY DEF TypeOK
  <2>3. h \in Task /\ b \in Seq(Task) /\ batch = <<h>> \o b
    BY <2>1, <2>2
  <2>4. r \in Seq(Task) /\ <<h>> \in Seq(Task) /\ r = ran \o <<h>>
    BY <2>2, <2>3, AppendIsConcat, AppendProperties
  <2> HIDE DEF h, r, b
  <2>5. r \o b = ran \o batch
    BY <2>2, <2>3, <2>4, ConcatAssociative
  <2>6. Accounted((ran' \o b) \o queue', next')
    BY <2>1, <2>3, <2>4, <2>5, CallAccounted DEF Trail
  <2> QED
    BY <2>1, <2>6 DEF Trail
<1>6. CASE \E p \in Producers : AsyncWake(p)
  BY <1>1, <1>6 DEF AsyncWake
<1>7. CASE \E t \in BOOLEAN : StartRun(t)
  BY <1>1, <1>7 DEF StartRun
<1>8. CASE LoopTop \/ WaitWake \/ WaitFds \/ WaitTimeout \/ WaitIntr \/ WaitError
  BY <1>1, <1>8 DEF LoopTop, WaitWake, WaitFds, WaitTimeout, WaitIntr, WaitError
<1>9. CASE WakeEvent \/ EventsDone \/ PendingOnTimeout \/ PendingAtEnd \/ DrainDone
  BY <1>1, <1>9 DEF WakeEvent, EventsDone, PendingOnTimeout, PendingAtEnd, Pending, DrainDone
<1>10. CASE RequestStop \/ ProcessPending \/ Destroy \/ BareWake
  BY <1>1, <1>10 DEF RequestStop, ProcessPending, Destroy, BareWake
<1>11. CASE Destroyed \/ UNCHANGED vars
  BY <1>1, <1>11 DEF Destroyed, vars
<1> QED
  BY <1>2, <1>3, <1>4, <1>5, <1>6, <1>7, <1>8, <1>9, <1>10, <1>11
  DEF Next, ProducerStep, LoopStep, Environment

LEMMA TrailAccounted == Spec => []Accounted(Trail, next)
<1>1. Init => Accounted(Trail, next)
  <2>1. Init => Trail = <<>> /\ next = 1
    BY DEF Init, Trail
  <2>2. Accounted(<<>>, 1)
    BY DEF Accounted
  <2> QED
    BY <2>1, <2>2
<1>2. Init => DrainInv
  BY DEF Init, DrainInv, Destroying
<1>3. TypeOK /\ DrainInv /\ [Next]_vars => DrainInv'
  BY DrainStep
<1>4. TypeOK /\ DrainInv /\ Accounted(Trail, next) /\ [Next]_vars
        => Accounted(Trail, next)'
  BY TrailStep
<1> QED
  BY <1>1, <1>2, <1>3, <1>4, TypeCorrect, PTL DEF Spec

\* A task posted with ztk_poller_async never runs before a task that was posted
\* earlier, whichever way: the tail insertion of ztk_poller_async_impl and the
\* order in which drain_tasks walks what it detached keep the order of posting.
THEOREM NothingOvertakes == Spec => []NoOvertake
<1>1. Accounted(Trail, next) => NoOvertake
  BY DEF Accounted, NoOvertake
<1> QED
  BY <1>1, TrailAccounted, PTL

\* No task is lost and none runs twice: those that ran, those detached by
\* drain_tasks and those queued are together the tasks that were accepted.
THEOREM RunExactlyOnce == Spec => []ExactlyOnce
<1>1. Accounted(Trail, next) => ExactlyOnce
  BY DEF Accounted, ExactlyOnce
<1> QED
  BY <1>1, TrailAccounted, PTL
=============================================================================
