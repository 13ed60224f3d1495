-------------------------- MODULE ThreadPoolProofs --------------------------
(***************************************************************************)
(* Proofs about ThreadPool, for any number of workers, clients and tasks.  *)
(***************************************************************************)
EXTENDS ThreadPool, FiniteSetTheorems, TLAPS

\* Insertion adds one element to the list.
LEMMA InsertEffect ==
  ASSUME TypeOK, NEW t \in Tasks, NEW first \in BOOLEAN, Insert(t, first)
  PROVE  /\ queue' \in Seq(Tasks) /\ Len(queue') = Len(queue) + 1
         /\ next' \in 1 .. MaxTasks + 1 /\ next' = (IF t = next THEN next + 1 ELSE next)
         /\ taken' \in SUBSET Tasks /\ late' \in SUBSET Tasks
<1>1. t \in Tasks /\ queue \in Seq(Tasks)
  BY DEF TypeOK
<1>2. /\ <<t>> \o queue \in Seq(Tasks)
      /\ Len(<<t>> \o queue) = Len(queue) + 1
  BY <1>1
<1>3. /\ Append(queue, t) \in Seq(Tasks)
      /\ Len(Append(queue, t)) = Len(queue) + 1
  BY <1>1
<1>4. queue' = <<t>> \o queue \/ queue' = Append(queue, t)
  BY DEF Insert
<1>5. next' \in 1 .. MaxTasks + 1 /\ next' = (IF t = next THEN next + 1 ELSE next)
  BY ThreadPoolAssumption DEF Insert, TypeOK, Tasks
<1>6. taken' \in SUBSET Tasks /\ late' \in SUBSET Tasks
  BY <1>1 DEF Insert, TypeOK
<1> QED
  BY <1>2, <1>3, <1>4, <1>5, <1>6

\* Every step keeps the type invariant.
LEMMA TypeStep ==
  ASSUME TypeOK, [Next]_vars
  PROVE  TypeOK'
<1> USE ThreadPoolAssumption DEF poolVars, ctlVars
<1>1. ASSUME NEW c \in Clients, ClientCheck(c) \/ ClientPost(c) \/ ClientNoMem(c)
      PROVE  TypeOK'
  BY <1>1 DEF ClientCheck, ClientPost, ClientNoMem, TypeOK
<1>2. ASSUME NEW c \in Clients, NEW t \in Tasks, NEW first \in BOOLEAN, ClientInsert(c, t, first)
      PROVE  TypeOK'
  BY <1>2, InsertEffect DEF ClientInsert, TypeOK
<1>3. ASSUME NEW w \in Workers, TakeToken(w) \/ TaskPost(w) \/ TaskEnd(w)
      PROVE  TypeOK'
  BY <1>3 DEF TakeToken, TaskPost, TaskEnd, TypeOK
<1>4. ASSUME NEW w \in Workers, Pop(w)
      PROVE  TypeOK'
  <2>1. queue' \in Seq(Tasks) /\ taken' \in SUBSET Tasks
    <3>1. queue \in Seq(Tasks) /\ taken \in SUBSET Tasks
      BY DEF TypeOK
    <3>2. CASE queue = <<>>
      BY <1>4, <3>1, <3>2 DEF Pop
    <3>3. CASE queue # <<>>
      <4>1. Head(queue) \in Tasks /\ Tail(queue) \in Seq(Tasks)
        BY <3>1, <3>3
      <4> QED
        BY <1>4, <3>1, <3>3, <4>1 DEF Pop
    <3> QED
      BY <3>2, <3>3
  <2>2. wpc' \in [Workers -> {"none", "wait", "pop", "run", "post", "exited"}]
    BY <1>4 DEF Pop, TypeOK
  <2> QED
    BY <1>4, <2>1, <2>2 DEF Pop, TypeOK
<1>5. ASSUME NEW w \in Workers, TaskSync(w)
      PROVE  TypeOK'
  BY <1>5 DEF TaskSync, TypeOK, Tasks
<1>6. ASSUME NEW w \in Workers, NEW t \in Tasks, NEW first \in BOOLEAN, TaskInsert(w, t, first)
      PROVE  TypeOK'
  BY <1>6, InsertEffect DEF TaskInsert, TypeOK
<1>7. CASE StartBegin \/ CreateWorker \/ CreateFails \/ StartDone
  <2>1. CASE StartBegin \/ CreateFails \/ StartDone
    BY <2>1 DEF StartBegin, CreateFails, StartDone, TypeOK
  <2>2. CASE CreateWorker
    <3>1. created' \in 0 .. N
      BY <2>2 DEF CreateWorker, TypeOK
    <3>2. wpc' \in [Workers -> {"none", "wait", "pop", "run", "post", "exited"}]
      BY <2>2 DEF CreateWorker, TypeOK
    <3> QED
      BY <2>2, <3>1, <3>2 DEF CreateWorker, TypeOK
  <2> QED
    BY <1>7, <2>1, <2>2
<1>8. CASE Rollback \/ FiniPost \/ FiniJoin \/ Destroy
  <2>1. CASE Rollback
    BY <2>1 DEF Rollback, TypeOK
  <2>2. CASE FiniPost
    BY <2>2 DEF FiniPost, TypeOK
  <2>3. CASE FiniJoin
    BY <2>3 DEF FiniJoin, TypeOK
  <2>4. CASE Destroy
    BY <2>4 DEF Destroy, TypeOK
  <2> QED
    BY <1>8, <2>1, <2>2, <2>3, <2>4
<1>9. CASE UNCHANGED vars
  BY <1>9 DEF vars, TypeOK
<1> QED
  BY <1>1, <1>2, <1>3, <1>4, <1>5, <1>6, <1>7, <1>8, <1>9
  DEF Next, ClientStep, WorkerStep, TaskStep, Controller

\* The list, the semaphore and all threads stay in their types in every use of
\* the pool (thread_pool.c).
THEOREM TypeCorrect == Spec => []TypeOK
<1>1. Init => TypeOK
  BY ThreadPoolAssumption DEF Init, TypeOK
<1>2. TypeOK /\ [Next]_vars => TypeOK'
  BY TypeStep
<1> QED
  BY <1>1, <1>2, PTL DEF Spec

-----------------------------------------------------------------------------
(* Tokens and tasks balance                                                *)

\* Which worker threads exist in which phase of the pool.
Phases ==
  /\ ctl \in {"down", "gone"} => \A w \in Workers : wpc[w] = "none"
  /\ ctl \in {"starting", "rollback"} =>
       \A w \in Workers : w > created => wpc[w] = "none"

\* TokenBalance needs NoEarlyExit when shutdown posts a token for every worker,
\* NoEarlyExit needs TokenBalance when a worker finds the list empty, and both
\* need to know that a worker thread being created is not one that runs.
BalanceInv == TokenBalance /\ NoEarlyExit /\ Phases

\* The sets of threads that are counted are finite, before and after a step.
LEMMA CountedAreFinite ==
  /\ IsFiniteSet(Workers) /\ Cardinality(Workers) = N
  /\ IsFiniteSet(Popping) /\ Cardinality(Popping) \in Nat
  /\ IsFiniteSet(PostingW) /\ Cardinality(PostingW) \in Nat
  /\ IsFiniteSet(PostingC) /\ Cardinality(PostingC) \in Nat
  /\ IsFiniteSet(Leaving) /\ Cardinality(Leaving) \in Nat
<1>1. IsFiniteSet(Workers) /\ Cardinality(Workers) = N
  BY ThreadPoolAssumption, FS_Interval DEF Workers
<1>2. Popping \in SUBSET Workers /\ PostingW \in SUBSET Workers
  BY DEF Popping, PostingW
<1>3. Leaving \in SUBSET Workers
  BY DEF Leaving
<1>4. PostingC \in SUBSET Clients
  BY DEF PostingC
<1>5. /\ IsFiniteSet(Popping) /\ IsFiniteSet(PostingW)
      /\ IsFiniteSet(PostingC) /\ IsFiniteSet(Leaving)
  BY <1>1, <1>2, <1>3, <1>4, ThreadPoolAssumption, FS_Subset
<1> QED
  BY <1>1, <1>5, FS_CardinalityType

\* A thread that joins or leaves a counted set changes its size by one.
LEMMA CountUp ==
  ASSUME NEW S, NEW T, NEW x, IsFiniteSet(S), x \notin S, T = S \cup {x}
  PROVE  Cardinality(T) = Cardinality(S) + 1
BY FS_AddElement

LEMMA CountDown ==
  ASSUME NEW S, NEW T, NEW x, IsFiniteSet(S), x \in S, T = S \ {x}
  PROVE  Cardinality(T) = Cardinality(S) - 1
BY FS_RemoveElement

\* A step of one client.
LEMMA ClientBalance ==
  ASSUME TypeOK, BalanceInv, NEW c \in Clients, ClientStep(c)
  PROVE  BalanceInv'
<1> USE CountedAreFinite DEF poolVars, ctlVars
<1>1. /\ ctl' = ctl /\ created' = created /\ wpc' = wpc
      /\ Popping' = Popping /\ PostingW' = PostingW /\ Leaving' = Leaving
  BY DEF ClientStep, ClientCheck, ClientPost, ClientNoMem, ClientInsert,
         Popping, PostingW, Leaving
<1>2. NoEarlyExit' /\ Phases'
  BY <1>1 DEF BalanceInv, NoEarlyExit, Phases
<1>3. CASE ClientCheck(c) \/ ClientNoMem(c)
  <2>1. PostingC' = PostingC /\ sem' = sem /\ queue' = queue
    BY <1>3 DEF ClientCheck, ClientNoMem, PostingC, TypeOK
  <2> QED
    BY <1>1, <1>2, <2>1 DEF BalanceInv, TokenBalance, Tokens, Demand
<1>4. CASE ClientPost(c)
  <2>1. PostingC' = PostingC \ {c} /\ c \in PostingC
    BY <1>4 DEF ClientPost, PostingC, TypeOK
  <2>2. Cardinality(PostingC') = Cardinality(PostingC) - 1
    BY <2>1, CountDown
  <2>3. sem' = sem + 1 /\ queue' = queue /\ sem \in Nat
    BY <1>4 DEF ClientPost, TypeOK
  <2> QED
    BY <1>1, <1>2, <2>2, <2>3 DEF BalanceInv, TokenBalance, Tokens, Demand
<1>5. ASSUME NEW t \in Tasks, NEW first \in BOOLEAN, ClientInsert(c, t, first)
      PROVE  BalanceInv'
  <2>1. PostingC' = PostingC \cup {c} /\ c \notin PostingC
    BY <1>5 DEF ClientInsert, PostingC, TypeOK
  <2>2. Cardinality(PostingC') = Cardinality(PostingC) + 1
    BY <2>1, CountUp
  <2>3. sem' = sem /\ Len(queue') = Len(queue) + 1
    BY <1>5, InsertEffect DEF ClientInsert
  <2>4. sem \in Nat /\ Len(queue) \in Nat
    BY DEF TypeOK
  <2> QED
    BY <1>1, <1>2, <2>2, <2>3, <2>4 DEF BalanceInv, TokenBalance, Tokens, Demand
<1> QED
  BY <1>3, <1>4, <1>5 DEF ClientStep

\* Counted sets after one worker goes from one place to another.
LEMMA WorkerMove ==
  ASSUME TypeOK, NEW w \in Workers, NEW to \in {"wait", "pop", "run", "post"},
         wpc[w] # "exited", wpc' = [wpc EXCEPT ![w] = to], ctl' = ctl
  PROVE  /\ Leaving' = Leaving
         /\ Popping' = IF to = "pop" THEN Popping \cup {w} ELSE Popping \ {w}
         /\ PostingW' = IF to = "post" THEN PostingW \cup {w} ELSE PostingW \ {w}
BY DEF TypeOK, Leaving, Popping, PostingW

\* A step of one worker, taken by itself or by the task it runs.
LEMMA WorkerBalance ==
  ASSUME TypeOK, BalanceInv, NEW w \in Workers, WorkerStep(w) \/ TaskStep(w)
  PROVE  BalanceInv'
<1> USE CountedAreFinite DEF poolVars, ctlVars
<1>1. ctl' = ctl /\ created' = created /\ cpc' = cpc /\ PostingC' = PostingC
  BY DEF WorkerStep, TaskStep, TakeToken, Pop, TaskPost, TaskEnd, TaskSync,
         TaskInsert, PostingC
<1>2. sem \in Nat /\ Len(queue) \in Nat
  BY DEF TypeOK
<1>3. wpc[w] \in {"wait", "pop", "run", "post"}
  BY DEF WorkerStep, TaskStep, TakeToken, Pop, TaskPost, TaskEnd, TaskSync, TaskInsert
<1>4. ASSUME NEW to \in {"wait", "pop", "run", "post"}, wpc' = [wpc EXCEPT ![w] = to]
      PROVE  NoEarlyExit' /\ Phases'
  BY <1>1, <1>3, <1>4 DEF BalanceInv, NoEarlyExit, Phases, TypeOK
<1>5. CASE TakeToken(w)
  <2>1. wpc' = [wpc EXCEPT ![w] = "pop"] /\ wpc[w] = "wait"
    BY <1>5 DEF TakeToken
  <2>2. Leaving' = Leaving /\ PostingW' = PostingW /\ Popping' = Popping \cup {w}
    BY <1>1, <2>1, WorkerMove DEF PostingW
  <2>3. w \notin Popping
    BY <2>1 DEF Popping
  <2>4. Cardinality(Popping') = Cardinality(Popping) + 1
    BY <2>2, <2>3, CountUp
  <2>5. sem' = sem - 1 /\ sem > 0 /\ queue' = queue
    BY <1>5 DEF TakeToken
  <2>6. TokenBalance'
    BY <1>1, <1>2, <2>2, <2>4, <2>5 DEF BalanceInv, TokenBalance, Tokens, Demand
  <2> QED
    BY <1>4, <2>1, <2>6 DEF BalanceInv
<1>6. CASE Pop(w) /\ queue # <<>>
  <2>1. wpc' = [wpc EXCEPT ![w] = "run"] /\ wpc[w] = "pop"
    BY <1>6 DEF Pop
  <2>2. Leaving' = Leaving /\ PostingW' = PostingW /\ Popping' = Popping \ {w}
    BY <1>1, <2>1, WorkerMove DEF PostingW
  <2>3. w \in Popping
    BY <2>1 DEF Popping
  <2>4. Cardinality(Popping') = Cardinality(Popping) - 1
    BY <2>2, <2>3, CountDown
  <2>5. sem' = sem
    BY <1>6 DEF Pop
  <2>6. Len(queue') = Len(queue) - 1
    BY <1>6 DEF Pop, TypeOK
  <2>7. TokenBalance'
    <3>1. Tokens' = Tokens - 1
      BY <1>1, <1>2, <2>2, <2>4, <2>5 DEF Tokens
    <3>2. Demand' = Demand - 1
      BY <1>1, <1>2, <2>2, <2>6 DEF Demand
    <3> QED
      BY <3>1, <3>2 DEF BalanceInv, TokenBalance
  <2> QED
    BY <1>4, <2>1, <2>7 DEF BalanceInv
<1>7. CASE Pop(w) /\ queue = <<>>
  <2>1. wpc' = [wpc EXCEPT ![w] = "exited"] /\ wpc[w] = "pop"
    BY <1>7 DEF Pop
  <2>2. w \in Popping /\ w \notin PostingW
    BY <2>1 DEF Popping, PostingW
  <2>3. Cardinality(Popping) > 0
    BY <2>2, FS_EmptySet
  <2>4. Cardinality(Leaving) > 0
    BY <1>2, <1>7, <2>3 DEF BalanceInv, TokenBalance, Tokens, Demand
  <2>5. ctl = "joining"
    BY <2>4, FS_EmptySet DEF Leaving
  <2>6. Popping' = Popping \ {w} /\ PostingW' = PostingW
    BY <2>1 DEF Popping, PostingW, TypeOK
  <2>7. Leaving' = Leaving \ {w} /\ w \in Leaving
    BY <1>1, <2>1, <2>5 DEF Leaving, TypeOK
  <2>8. /\ Cardinality(Popping') = Cardinality(Popping) - 1
        /\ Cardinality(Leaving') = Cardinality(Leaving) - 1
    BY <2>2, <2>6, <2>7, CountDown
  <2>9. sem' = sem /\ queue' = queue
    BY <1>7 DEF Pop
  <2>10. TokenBalance'
    <3>1. Len(queue) = Len(queue') /\ sem' = sem
      BY <2>9
    <3>2. Tokens' = Tokens - 1
      BY <1>1, <1>2, <2>6, <2>8, <3>1 DEF Tokens
    <3>3. Demand' = Demand - 1
      BY <1>2, <2>8, <3>1 DEF Demand
    <3> QED
      BY <3>2, <3>3 DEF BalanceInv, TokenBalance
  <2>11. NoEarlyExit' /\ Phases'
    BY <1>1, <2>5 DEF NoEarlyExit, Phases
  <2> QED
    BY <2>10, <2>11 DEF BalanceInv
<1>8. CASE TaskPost(w)
  <2>1. wpc' = [wpc EXCEPT ![w] = "run"] /\ wpc[w] = "post"
    BY <1>8 DEF TaskPost
  <2>2. Leaving' = Leaving /\ PostingW' = PostingW \ {w} /\ Popping' = Popping
    BY <1>1, <2>1, WorkerMove DEF Popping
  <2>3. w \in PostingW
    BY <2>1 DEF PostingW
  <2>4. Cardinality(PostingW') = Cardinality(PostingW) - 1
    BY <2>2, <2>3, CountDown
  <2>5. sem' = sem + 1 /\ queue' = queue
    BY <1>8 DEF TaskPost
  <2>6. TokenBalance'
    BY <1>1, <1>2, <2>2, <2>4, <2>5 DEF BalanceInv, TokenBalance, Tokens, Demand
  <2> QED
    BY <1>4, <2>1, <2>6 DEF BalanceInv
<1>9. CASE TaskEnd(w)
  <2>1. wpc' = [wpc EXCEPT ![w] = "wait"] /\ wpc[w] = "run"
    BY <1>9 DEF TaskEnd
  <2>2. Leaving' = Leaving /\ PostingW' = PostingW /\ Popping' = Popping
    BY <1>1, <2>1, WorkerMove DEF Popping, PostingW
  <2>3. sem' = sem /\ queue' = queue
    BY <1>9 DEF TaskEnd
  <2>4. TokenBalance'
    BY <1>1, <2>2, <2>3 DEF BalanceInv, TokenBalance, Tokens, Demand
  <2> QED
    BY <1>4, <2>1, <2>4 DEF BalanceInv
<1>10. CASE TaskSync(w)
  <2>1. wpc' = wpc /\ sem' = sem /\ queue' = queue
    BY <1>10 DEF TaskSync
  <2>2. Leaving' = Leaving /\ PostingW' = PostingW /\ Popping' = Popping
    BY <1>1, <2>1 DEF Leaving, PostingW, Popping
  <2> QED
    BY <1>1, <2>1, <2>2 DEF BalanceInv, TokenBalance, Tokens, Demand, NoEarlyExit, Phases
<1>11. ASSUME NEW t \in Tasks, NEW first \in BOOLEAN, TaskInsert(w, t, first)
       PROVE  BalanceInv'
  <2>1. wpc' = [wpc EXCEPT ![w] = "post"] /\ wpc[w] = "run"
    BY <1>11 DEF TaskInsert
  <2>2. Leaving' = Leaving /\ PostingW' = PostingW \cup {w} /\ Popping' = Popping
    BY <1>1, <2>1, WorkerMove DEF Popping
  <2>3. w \notin PostingW
    BY <2>1 DEF PostingW
  <2>4. Cardinality(PostingW') = Cardinality(PostingW) + 1
    BY <2>2, <2>3, CountUp
  <2>5. sem' = sem /\ Len(queue') = Len(queue) + 1
    BY <1>11, InsertEffect DEF TaskInsert
  <2>6. TokenBalance'
    <3>1. Tokens' = Tokens + 1
      BY <1>1, <1>2, <2>2, <2>4, <2>5 DEF Tokens
    <3>2. Demand' = Demand + 1
      BY <1>1, <1>2, <2>2, <2>5 DEF Demand
    <3> QED
      BY <3>1, <3>2 DEF BalanceInv, TokenBalance
  <2> QED
    BY <1>4, <2>1, <2>6 DEF BalanceInv
<1> QED
  BY <1>5, <1>6, <1>7, <1>8, <1>9, <1>10, <1>11 DEF WorkerStep, TaskStep

\* A step of the controlling thread.
LEMMA ControllerBalance ==
  ASSUME TypeOK, BalanceInv, Controller
  PROVE  BalanceInv'
<1> USE CountedAreFinite, ThreadPoolAssumption DEF poolVars, ctlVars
<1>1. sem \in Nat /\ Len(queue) \in Nat /\ created \in 0 .. N
  BY DEF TypeOK
<1>2. cpc' = cpc /\ PostingC' = PostingC
  BY DEF Controller, StartBegin, CreateWorker, CreateFails, Rollback, StartDone,
         FiniPost, FiniJoin, Destroy, PostingC
<1>3. CASE StartBegin \/ CreateFails \/ StartDone
  <2>1. /\ Popping' = Popping /\ PostingW' = PostingW
        /\ Leaving' = Leaving /\ sem' = sem /\ queue' = queue
    BY <1>3 DEF StartBegin, CreateFails, StartDone, Popping, PostingW, Leaving
  <2>2. NoEarlyExit' /\ Phases'
    BY <1>1, <1>3 DEF StartBegin, CreateFails, StartDone, BalanceInv, NoEarlyExit, Phases, Workers
  <2> QED
    BY <1>2, <2>1, <2>2 DEF BalanceInv, TokenBalance, Tokens, Demand
<1>4. CASE CreateWorker
  <2>1. created + 1 \in Workers /\ wpc[created + 1] = "none"
    BY <1>1, <1>4 DEF CreateWorker, BalanceInv, Phases, Workers
  <2>2. /\ Popping' = Popping /\ PostingW' = PostingW
        /\ Leaving' = Leaving /\ sem' = sem /\ queue' = queue
    BY <1>4, <2>1 DEF CreateWorker, Popping, PostingW, Leaving, TypeOK
  <2>3. NoEarlyExit' /\ Phases'
    BY <1>1, <1>4, <2>1
    DEF CreateWorker, BalanceInv, NoEarlyExit, Phases, Workers, TypeOK
  <2> QED
    BY <1>2, <2>2, <2>3 DEF BalanceInv, TokenBalance, Tokens, Demand
<1>5. CASE Rollback
  <2>1. \A w \in Workers : wpc[w] = "none"
    BY <1>1, <1>5 DEF Rollback, BalanceInv, NoEarlyExit, Phases, Workers
  <2>2. /\ Popping' = Popping /\ PostingW' = PostingW
        /\ Leaving' = Leaving /\ sem' = sem /\ queue' = queue
    BY <1>5, <2>1 DEF Rollback, Popping, PostingW, Leaving
  <2>3. NoEarlyExit' /\ Phases'
    BY <1>5 DEF Rollback, NoEarlyExit, Phases
  <2> QED
    BY <1>2, <2>2, <2>3 DEF BalanceInv, TokenBalance, Tokens, Demand
<1>6. CASE FiniPost
  <2>1. Leaving = {} /\ Leaving' = Workers
    BY <1>6 DEF FiniPost, BalanceInv, NoEarlyExit, Leaving
  <2>2. Cardinality(Leaving) = 0 /\ Cardinality(Leaving') = N
    BY <2>1, FS_EmptySet
  <2>3. /\ Popping' = Popping /\ PostingW' = PostingW
        /\ sem' = sem + N /\ queue' = queue
    BY <1>6 DEF FiniPost, Popping, PostingW
  <2>4. NoEarlyExit' /\ Phases'
    BY <1>6 DEF FiniPost, NoEarlyExit, Phases
  <2>5. TokenBalance'
    BY <1>1, <1>2, <2>2, <2>3 DEF BalanceInv, TokenBalance, Tokens, Demand
  <2> QED
    BY <2>4, <2>5 DEF BalanceInv
<1>7. CASE FiniJoin
  <2>1. Popping = {} /\ PostingW = {} /\ Leaving = {}
    BY <1>7 DEF FiniJoin, Popping, PostingW, Leaving
  <2>2. Popping' = {} /\ PostingW' = {} /\ Leaving' = {}
    BY <1>7 DEF FiniJoin, Popping, PostingW, Leaving
  <2>3. sem' = sem /\ queue' = queue
    BY <1>7 DEF FiniJoin
  <2>4. NoEarlyExit' /\ Phases'
    BY <1>7 DEF FiniJoin, NoEarlyExit, Phases
  <2> QED
    BY <1>2, <2>1, <2>2, <2>3, <2>4 DEF BalanceInv, TokenBalance, Tokens, Demand
<1>8. CASE Destroy
  <2>1. Popping' = {} /\ PostingW' = {} /\ Leaving' = {} /\ PostingC' = {}
    BY <1>8 DEF Destroy, BalanceInv, Phases, Popping, PostingW, Leaving, PostingC
  <2>2. sem' = 0 /\ queue' = <<>>
    BY <1>8 DEF Destroy
  <2>3. TokenBalance'
    BY <2>1, <2>2, FS_EmptySet DEF TokenBalance, Tokens, Demand
  <2>4. NoEarlyExit' /\ Phases'
    BY <1>8 DEF Destroy, BalanceInv, NoEarlyExit, Phases
  <2> QED
    BY <2>3, <2>4 DEF BalanceInv
<1> QED
  BY <1>3, <1>4, <1>5, <1>6, <1>7, <1>8 DEF Controller

LEMMA BalanceInvariant == Spec => []BalanceInv
<1>1. Init => BalanceInv
  <2> SUFFICES ASSUME Init PROVE BalanceInv
    OBVIOUS
  <2>1. Popping = {} /\ PostingW = {} /\ PostingC = {} /\ Leaving = {}
    BY DEF Init, Popping, PostingW, PostingC, Leaving
  <2>2. TokenBalance
    BY <2>1, FS_EmptySet DEF Init, TokenBalance, Tokens, Demand
  <2> QED
    BY <2>2 DEF Init, BalanceInv, NoEarlyExit, Phases
<1>2. TypeOK /\ BalanceInv /\ [Next]_vars => BalanceInv'
  <2> SUFFICES ASSUME TypeOK, BalanceInv, [Next]_vars PROVE BalanceInv'
    OBVIOUS
  <2>1. CASE UNCHANGED vars
    <3>1. /\ Popping' = Popping /\ PostingW' = PostingW
          /\ PostingC' = PostingC /\ Leaving' = Leaving
      BY <2>1 DEF vars, poolVars, ctlVars, Popping, PostingW, PostingC, Leaving
    <3> QED
      BY <2>1, <3>1
      DEF vars, poolVars, ctlVars, BalanceInv, TokenBalance, Tokens, Demand, NoEarlyExit, Phases
  <2> QED
    BY <2>1, ClientBalance, WorkerBalance, ControllerBalance DEF Next
<1> QED
  BY <1>1, <1>2, TypeCorrect, PTL DEF Spec

\* Tokens and tasks balance in every state of the pool, through shutdown and
\* restart (push_task, pool_worker, ztk_thread_pool_fini).
THEOREM TokensBalance == Spec => []TokenBalance
BY BalanceInvariant, PTL DEF BalanceInv

\* No worker exits before ztk_thread_pool_fini has begun.
THEOREM WorkersStay == Spec => []NoEarlyExit
BY BalanceInvariant, PTL DEF BalanceInv

-----------------------------------------------------------------------------
(* What shutdown leaves                                                    *)

Settled == \A t \in 1 .. next - 1 : t \in taken \/ t \in late
Accounted == \A t \in 1 .. next - 1 : t \in taken \/ InList(t)

\* FiniRunsAll needs to know that no task is lost before destroy, and when the
\* tasks inserted before shutdown are all taken: as soon as one worker has
\* found the list empty.
FiniInv ==
  /\ ctl # "gone" => Accounted
  /\ ctl \notin {"up", "joining"} => Settled
  /\ ctl = "joining" /\ (\E w \in Workers : wpc[w] = "exited") => Settled

\* Insertion forgets no task, and the one inserted is in the list.
LEMMA InsertAccounts ==
  ASSUME TypeOK, NEW s \in Tasks, NEW first \in BOOLEAN, Insert(s, first)
  PROVE  /\ Accounted => Accounted'
         /\ ctl # "up" /\ Settled => Settled'
<1>1. queue \in Seq(Tasks) /\ next \in Nat /\ next' = (IF s = next THEN next + 1 ELSE next)
  BY InsertEffect DEF TypeOK
<1>2. late \subseteq late' /\ (ctl # "up" => s \in late') /\ taken' = taken \ {s}
  BY DEF Insert
<1>3. queue' = <<s>> \o queue \/ queue' = Append(queue, s)
  BY DEF Insert
<1>4. \A i \in 1 .. Len(queue) : \E j \in 1 .. Len(queue') : queue'[j] = queue[i]
  <2> TAKE i \in 1 .. Len(queue)
  <2>1. CASE queue' = <<s>> \o queue
    <3>1. i + 1 \in 1 .. Len(queue') /\ queue'[i + 1] = queue[i]
      BY <1>1, <2>1
    <3> QED
      BY <3>1
  <2>2. CASE queue' = Append(queue, s)
    <3>1. i \in 1 .. Len(queue') /\ queue'[i] = queue[i]
      BY <1>1, <2>2
    <3> QED
      BY <3>1
  <2> QED
    BY <1>3, <2>1, <2>2
<1>5. \E j \in 1 .. Len(queue') : queue'[j] = s
  <2>1. CASE queue' = <<s>> \o queue
    <3>1. 1 \in 1 .. Len(queue') /\ queue'[1] = s
      BY <1>1, <2>1
    <3> QED
      BY <3>1
  <2>2. CASE queue' = Append(queue, s)
    <3>1. Len(queue) + 1 \in 1 .. Len(queue') /\ queue'[Len(queue) + 1] = s
      BY <1>1, <2>2
    <3> QED
      BY <3>1
  <2> QED
    BY <1>3, <2>1, <2>2
<1>6. \A t \in 1 .. next' - 1 : t \in 1 .. next - 1 \/ t = s
  BY <1>1
<1>7. ASSUME Accounted, NEW t \in 1 .. next' - 1
      PROVE  t \in taken' \/ InList(t)'
  <2>1. CASE t = s
    BY <2>1, <1>5 DEF InList
  <2>2. CASE t # s
    BY <2>2, <1>2, <1>4, <1>6, <1>7 DEF Accounted, InList
  <2> QED
    BY <2>1, <2>2
<1>8. ctl # "up" /\ Settled => Settled'
  BY <1>2, <1>6 DEF Settled
<1> QED
  BY <1>7, <1>8 DEF Accounted

\* Taking the head of the list accounts for it.
LEMMA PopAccounts ==
  ASSUME TypeOK, Accounted, NEW w \in Workers, Pop(w)
  PROVE  /\ Accounted' /\ (Settled => Settled')
         /\ queue = <<>> => Settled'
<1>1. next' = next /\ late' = late
  BY DEF Pop
<1>2. CASE queue = <<>>
  <2>1. taken' = taken /\ queue' = queue
    BY <1>2 DEF Pop
  <2>2. \A t : ~InList(t)
    BY <1>2 DEF InList
  <2> QED
    BY <1>1, <2>1, <2>2 DEF Accounted, Settled
<1>3. CASE queue # <<>>
  <2>1. queue' = Tail(queue) /\ taken' = taken \cup {Head(queue)}
    BY <1>3 DEF Pop
  <2>2. queue \in Seq(Tasks)
    BY DEF TypeOK
  <2>3. \A i \in 1 .. Len(queue) :
          queue[i] = Head(queue) \/ \E j \in 1 .. Len(queue') : queue'[j] = queue[i]
    <3> SUFFICES ASSUME NEW i \in 1 .. Len(queue), queue[i] # Head(queue)
                 PROVE  \E j \in 1 .. Len(queue') : queue'[j] = queue[i]
      OBVIOUS
    <3>1. i # 1
      BY <2>2
    <3>2. i - 1 \in 1 .. Len(queue') /\ queue'[i - 1] = queue[i]
      BY <1>3, <2>1, <2>2, <3>1
    <3> QED
      BY <3>2
  <2>4. Accounted'
    BY <1>1, <2>1, <2>3 DEF Accounted, InList
  <2> QED
    BY <1>1, <1>3, <2>1, <2>4 DEF Settled
<1> QED
  BY <1>2, <1>3

LEMMA FiniStep ==
  ASSUME TypeOK, BalanceInv, BalanceInv', FiniInv, [Next]_vars
  PROVE  FiniInv'
<1> USE DEF poolVars, ctlVars
<1>1. ASSUME NEW c \in Clients, ClientCheck(c) \/ ClientPost(c) \/ ClientNoMem(c)
      PROVE  FiniInv'
  BY <1>1 DEF ClientCheck, ClientPost, ClientNoMem, FiniInv, Accounted, Settled, InList
<1>2. ASSUME NEW c \in Clients, NEW t \in Tasks, NEW first \in BOOLEAN, ClientInsert(c, t, first)
      PROVE  FiniInv'
  <2>1. ctl' = ctl /\ wpc' = wpc /\ Insert(t, first)
    BY <1>2 DEF ClientInsert
  <2>2. (ctl # "gone" => Accounted') /\ (ctl # "up" /\ Settled => Settled')
    BY <2>1, InsertAccounts DEF FiniInv
  <2> QED
    BY <2>1, <2>2 DEF FiniInv
<1>3. ASSUME NEW w \in Workers, TakeToken(w) \/ TaskPost(w) \/ TaskEnd(w)
      PROVE  FiniInv'
  <2>1. /\ queue' = queue /\ next' = next /\ taken' = taken /\ late' = late /\ ctl' = ctl
        /\ \A x \in Workers : wpc'[x] = "exited" => wpc[x] = "exited"
    BY <1>3 DEF TakeToken, TaskPost, TaskEnd, TypeOK
  <2> QED
    BY <2>1 DEF FiniInv, Accounted, Settled, InList
<1>4. ASSUME NEW w \in Workers, Pop(w)
      PROVE  FiniInv'
  <2>3. ctl # "gone"
    BY <1>4 DEF Pop, BalanceInv, Phases
  <2>1. Accounted' /\ (Settled => Settled') /\ (queue = <<>> => Settled')
    BY <1>4, <2>3, PopAccounts DEF FiniInv
  <2>2. /\ ctl' = ctl
        /\ queue # <<>> => \A x \in Workers : wpc'[x] = "exited" => wpc[x] = "exited"
    BY <1>4 DEF Pop, TypeOK
  <2> QED
    BY <2>1, <2>2 DEF FiniInv
<1>5. ASSUME NEW w \in Workers, TaskSync(w)
      PROVE  FiniInv'
  <2>1. /\ queue' = queue /\ next' = next + 1 /\ taken' = taken \cup {next}
        /\ late' = late /\ ctl' = ctl /\ wpc' = wpc /\ next \in Nat
    BY <1>5 DEF TaskSync, TypeOK
  <2>2. \A t \in 1 .. next' - 1 : t \in 1 .. next - 1 \/ t = next
    BY <2>1
  <2>3. Accounted' /\ (Settled => Settled')
    BY <1>5, <2>1, <2>2 DEF TaskSync, Started, FiniInv, Accounted, Settled, InList
  <2> QED
    BY <2>1, <2>3 DEF FiniInv
<1>6. ASSUME NEW w \in Workers, NEW t \in Tasks, NEW first \in BOOLEAN, TaskInsert(w, t, first)
      PROVE  FiniInv'
  <2>1. /\ ctl' = ctl /\ ctl # "gone" /\ Insert(t, first)
        /\ \A x \in Workers : wpc'[x] = "exited" => wpc[x] = "exited"
    BY <1>6 DEF TaskInsert, Started, TypeOK
  <2>2. Accounted' /\ (ctl # "up" /\ Settled => Settled')
    BY <2>1, InsertAccounts DEF FiniInv
  <2> QED
    BY <2>1, <2>2 DEF FiniInv
<1>7. CASE StartBegin \/ CreateWorker \/ CreateFails \/ Rollback \/ StartDone
  BY <1>7 DEF StartBegin, CreateWorker, CreateFails, Rollback, StartDone,
              FiniInv, Accounted, Settled, InList
<1>8. CASE FiniPost
  BY <1>8 DEF FiniPost, BalanceInv, NoEarlyExit, FiniInv, Accounted, Settled, InList
<1>9. CASE FiniJoin
  <2>1. 1 \in Workers
    BY ThreadPoolAssumption DEF Workers
  <2> QED
    BY <1>9, <2>1 DEF FiniJoin, FiniInv, Accounted, Settled, InList
<1>10. CASE Destroy
  BY <1>10 DEF Destroy, FiniInv, Accounted, Settled
<1>11. CASE UNCHANGED vars
  BY <1>11 DEF vars, FiniInv, Accounted, Settled, InList
<1> QED
  BY <1>1, <1>2, <1>3, <1>4, <1>5, <1>6, <1>7, <1>8, <1>9, <1>10, <1>11
  DEF Next, ClientStep, WorkerStep, TaskStep, Controller

\* When ztk_thread_pool_fini has returned, every task inserted before it began
\* has been run, also one that an earlier fini had left, for any number of workers and whatever the tasks submit.
THEOREM ShutdownRunsAll == Spec => []FiniRunsAll
<1>1. Init => FiniInv
  BY DEF Init, FiniInv, Accounted, Settled
<1>2. TypeOK /\ BalanceInv /\ BalanceInv' /\ FiniInv /\ [Next]_vars => FiniInv'
  BY FiniStep
<1>3. FiniInv => FiniRunsAll
  BY DEF FiniInv, FiniRunsAll, Settled
<1> QED
  BY <1>1, <1>2, <1>3, TypeCorrect, BalanceInvariant, PTL DEF Spec
=============================================================================
