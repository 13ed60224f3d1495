---------------------------- MODULE BufPoolProofs ----------------------------
(***************************************************************************)
(* Proofs about BufPool, for any number of blocks and threads and any      *)
(* length of the free list, for a thread_safe and for a lockless pool.     *)
(***************************************************************************)
EXTENDS BufPool, FiniteSetTheorems, SequenceTheorems, TLAPS

Busy == {"pop", "release", "defer", "now", "push"}

Typed ==
  /\ mem \in [Blocks -> {"libc", "used", "cached"}]
  /\ refcnt \in [Blocks -> Nat] /\ hold \in [Threads -> SUBSET Blocks]
  /\ free \in Seq(Blocks) /\ count \in Nat /\ tasks \in Seq(Blocks)
  /\ at \in [Threads -> Busy \cup {"idle"}]
  /\ blk \in [Threads -> Blocks \cup {None}] /\ head \in [Threads -> Seq(Blocks)]

\* Who works on the list: the holder of the mutex, or the loop thread of a lockless pool,
\* the only one that gets as far as pool_release_now there.
Guarded ==
  /\ safe \in BOOLEAN
  /\ safe => \A t \in Inside : mu = t
  /\ ~safe => mu = None /\ \A t \in Threads : at[t] \in {"pop", "now", "push"} => t = Loop

Elems(s) == {s[i] : i \in 1 .. Len(s)}
Distinct(s) == \A i, j \in 1 .. Len(s) : s[i] = s[j] => i = j

\* The list: cached blocks, each once, and as many as counted.
FreeOK ==
  /\ Distinct(free) /\ \A b \in Elems(free) : mem[b] = "cached"
  /\ count = Len(free)

\* Thread t is on its way through a release.
LetsGo(t) == at[t] \notin {"idle", "pop"}

\* What a thread knows of the list while it is inside, and of the block it works on.
Working ==
  \A t \in Threads :
    /\ at[t] # "idle" => blk[t] \in Blocks
    /\ at[t] = "pop" => free # <<>> /\ blk[t] = Head(free) /\ head[t] = Tail(free)
    /\ at[t] = "push" => head[t] = free
    /\ LetsGo(t) => mem[blk[t]] = "used" /\ refcnt[blk[t]] = 0

\* A block is on its way back once: with one thread or in one task.
Once ==
  /\ \A t, u \in Threads : LetsGo(t) /\ LetsGo(u) /\ blk[t] = blk[u] => t = u
  /\ \A t \in Threads : LetsGo(t) => blk[t] \notin Elems(tasks)
  /\ Distinct(tasks)
  /\ \A b \in Elems(tasks) : mem[b] = "used" /\ refcnt[b] = 0

Holders(b) == {t \in Threads : b \in hold[t]}

\* The counter is right, and a block without references is on its way back.
Counted ==
  \A b \in Blocks :
    /\ mem[b] # "used" => Holders(b) = {}
    /\ mem[b] = "used" =>
         /\ refcnt[b] = Cardinality(Holders(b))
         /\ refcnt[b] = 0 => b \in Elems(tasks) \/ \E t \in Threads : LetsGo(t) /\ blk[t] = b

PoolInv == Typed /\ Guarded /\ FreeOK /\ Working /\ Once /\ Counted

-----------------------------------------------------------------------------
(* Lists of blocks and sets of threads                                     *)

LEMMA ConsOK ==
  ASSUME NEW s \in Seq(Blocks), NEW b \in Blocks, Distinct(s), b \notin Elems(s)
  PROVE  /\ <<b>> \o s \in Seq(Blocks) /\ Distinct(<<b>> \o s)
         /\ Elems(<<b>> \o s) = Elems(s) \cup {b} /\ Len(<<b>> \o s) = Len(s) + 1
<1> DEFINE u == <<b>> \o s
<1>1. /\ u \in Seq(Blocks) /\ Len(u) = Len(s) + 1 /\ u[1] = b /\ Len(s) \in Nat
      /\ \A i \in 2 .. Len(u) : i - 1 \in 1 .. Len(s) /\ u[i] = s[i - 1]
  OBVIOUS
<1> HIDE DEF u
<1>2. \A i \in 1 .. Len(u) : i = 1 \/ i \in 2 .. Len(u)
  BY <1>1
<1>3. Distinct(u)
  <2> SUFFICES ASSUME NEW i \in 1 .. Len(u), NEW j \in 1 .. Len(u), u[i] = u[j]
               PROVE  i = j
    BY DEF Distinct
  <2>1. \A k \in 2 .. Len(u) : u[k] # b
    BY <1>1 DEF Elems
  <2>2. CASE i = 1 \/ j = 1
    BY <1>1, <1>2, <2>1, <2>2
  <2>3. CASE i \in 2 .. Len(u) /\ j \in 2 .. Len(u)
    <3>1. i - 1 \in 1 .. Len(s) /\ j - 1 \in 1 .. Len(s) /\ s[i - 1] = s[j - 1]
      BY <1>1, <2>3
    <3>2. i - 1 = j - 1
      BY <3>1 DEF Distinct
    <3> QED
      BY <3>2
  <2> QED
    BY <1>2, <2>2, <2>3
<1>4. \A i \in 1 .. Len(s) : i + 1 \in 2 .. Len(u) /\ i + 1 \in 1 .. Len(u) /\ u[i + 1] = s[i]
  BY <1>1
<1>5. Elems(u) = Elems(s) \cup {b}
  <2>1. ASSUME NEW x \in Elems(u) PROVE x \in Elems(s) \cup {b}
    BY <1>1, <1>2 DEF Elems
  <2>2. ASSUME NEW x \in Elems(s) \cup {b} PROVE x \in Elems(u)
    <3>1. 1 \in 1 .. Len(u)
      BY <1>1
    <3> QED
      BY <1>1, <1>4, <3>1 DEF Elems
  <2> QED
    BY <2>1, <2>2
<1> QED
  BY <1>1, <1>3, <1>5 DEF u

LEMMA AppendOK ==
  ASSUME NEW s \in Seq(Blocks), NEW b \in Blocks, Distinct(s), b \notin Elems(s)
  PROVE  /\ Append(s, b) \in Seq(Blocks) /\ Distinct(Append(s, b))
         /\ Elems(Append(s, b)) = Elems(s) \cup {b}
<1> DEFINE u == Append(s, b)
<1>1. /\ u \in Seq(Blocks) /\ Len(u) = Len(s) + 1 /\ u[Len(s) + 1] = b /\ Len(s) \in Nat
      /\ \A i \in 1 .. Len(s) : i \in 1 .. Len(u) /\ u[i] = s[i]
  OBVIOUS
<1> HIDE DEF u
<1>2. \A i \in 1 .. Len(u) : i = Len(s) + 1 \/ i \in 1 .. Len(s)
  BY <1>1
<1>3. Distinct(u)
  BY <1>1, <1>2 DEF Distinct, Elems
<1>4. Elems(u) = Elems(s) \cup {b}
  <2>1. ASSUME NEW x \in Elems(u) PROVE x \in Elems(s) \cup {b}
    BY <1>1, <1>2 DEF Elems
  <2>2. ASSUME NEW x \in Elems(s) \cup {b} PROVE x \in Elems(u)
    <3>1. Len(s) + 1 \in 1 .. Len(u)
      BY <1>1
    <3> QED
      BY <1>1, <3>1 DEF Elems
  <2> QED
    BY <2>1, <2>2
<1> QED
  BY <1>1, <1>3, <1>4 DEF u

LEMMA TailOK ==
  ASSUME NEW s \in Seq(Blocks), Distinct(s), s # <<>>
  PROVE  /\ Tail(s) \in Seq(Blocks) /\ Distinct(Tail(s)) /\ Head(s) \in Elems(s)
         /\ Elems(Tail(s)) = Elems(s) \ {Head(s)} /\ Len(Tail(s)) = Len(s) - 1
         /\ Head(s) \in Blocks /\ Len(s) \in Nat \ {0}
<1> DEFINE u == Tail(s)
<1>1. /\ u \in Seq(Blocks) /\ Len(u) = Len(s) - 1 /\ Len(s) \in Nat \ {0} /\ Head(s) = s[1]
      /\ \A i \in 1 .. Len(u) : u[i] = s[i + 1]
  BY HeadTailProperties, EmptySeq
<1> HIDE DEF u
<1>2. \A i \in 1 .. Len(u) : i + 1 \in 1 .. Len(s) /\ i + 1 # 1
  BY <1>1
<1>3. Distinct(u)
  BY <1>1, <1>2 DEF Distinct
<1>4. 1 \in 1 .. Len(s) /\ Head(s) \in Elems(s) /\ Head(s) \in Blocks
  BY <1>1 DEF Elems
<1>5. Elems(u) = Elems(s) \ {Head(s)}
  <2>1. ASSUME NEW x \in Elems(u) PROVE x \in Elems(s) \ {Head(s)}
    BY <1>1, <1>2, <1>4 DEF Elems, Distinct
  <2>2. ASSUME NEW x \in Elems(s) \ {Head(s)} PROVE x \in Elems(u)
    <3>1. PICK i \in 1 .. Len(s) : x = s[i] /\ i # 1
      BY <1>1 DEF Elems
    <3>2. i - 1 \in 1 .. Len(u) /\ u[i - 1] = x
      BY <1>1, <3>1
    <3> QED
      BY <3>2 DEF Elems
  <2> QED
    BY <2>1, <2>2
<1> QED
  BY <1>1, <1>3, <1>4, <1>5 DEF u

\* There are finitely many threads, so every count of them is a number.
LEMMA HoldersFinite ==
  ASSUME NEW S \in SUBSET Threads
  PROVE  /\ IsFiniteSet(S) /\ Cardinality(S) \in Nat
         /\ Cardinality(S) = 0 <=> S = {}
<1>1. IsFiniteSet(Foreign \cup {Loop})
  BY BufPoolAssumption, FS_AddElement
<1>2. IsFiniteSet((Foreign \cup {Loop}) \cup {Main})
  BY <1>1, FS_AddElement
<1>3. Threads = (Foreign \cup {Loop}) \cup {Main}
  BY DEF Threads
<1>4. IsFiniteSet(S)
  BY <1>2, <1>3, FS_Subset
<1> QED
  BY <1>4, FS_CardinalityType, FS_EmptySet

-----------------------------------------------------------------------------
(* The list is worked on by one thread at a time                           *)

LEMMA GuardedStep ==
  ASSUME Guarded, at \in [Threads -> Busy \cup {"idle"}], [Next]_vars
  PROVE  Guarded' /\ at' \in [Threads -> Busy \cup {"idle"}]
<1> USE DEF poolVars, blockVars, threadVars, Busy
<1>0. None \notin Threads /\ Loop \in Threads
  BY BufPoolAssumption DEF Threads
<1>1. CASE UNCHANGED <<safe, mu, at>>
  BY <1>1 DEF Guarded, Inside
<1>2. ASSUME NEW t \in Threads, AcquireHit(t) \/ ReleaseCache(t)
      PROVE  Guarded' /\ at' \in [Threads -> Busy \cup {"idle"}]
  <2>1. /\ mu = None /\ mu' = (IF safe THEN t ELSE None) /\ safe' = safe
        /\ \E where \in {"pop", "push"} : at' = [at EXCEPT ![t] = where]
        /\ safe \/ t = Loop
    BY <1>2 DEF AcquireHit, ReleaseCache, MayAcquire, Idle, Lock, Go, Guarded
  <2>2. safe => Inside = {}
    BY <1>0, <2>1 DEF Guarded, Inside
  <2> QED
    BY <2>1, <2>2 DEF Guarded, Inside
<1>3. ASSUME NEW t \in Threads, AcquirePop(t) \/ ReleasePush(t)
      PROVE  Guarded' /\ at' \in [Threads -> Busy \cup {"idle"}]
  <2>1. /\ mu' = None /\ safe' = safe /\ at' = [at EXCEPT ![t] = "idle"] /\ t \in Inside
    BY <1>3 DEF AcquirePop, ReleasePush, Unlock, Go, Inside
  <2>2. safe => Inside = {t}
    BY <2>1 DEF Guarded
  <2> QED
    BY <2>1, <2>2 DEF Guarded, Inside
<1>4. ASSUME NEW t \in Threads, Release(t)
      PROVE  Guarded' /\ at' \in [Threads -> Busy \cup {"idle"}]
  BY <1>4 DEF Release, OnOwner, Go, Guarded, Inside
<1>5. ASSUME NEW t \in Threads, ReleaseDrop(t) \/ \E posted \in BOOLEAN : Defer(t, posted)
      PROVE  Guarded' /\ at' \in [Threads -> Busy \cup {"idle"}]
  <2>1. safe' = safe /\ mu' = mu /\ at' = [at EXCEPT ![t] = "idle"]
    BY <1>5 DEF ReleaseDrop, Defer, Go
  <2> QED
    BY <2>1 DEF Guarded, Inside
<1>6. ASSUME NEW t \in Threads, NEW b \in Blocks, Unref(t, b)
      PROVE  Guarded' /\ at' \in [Threads -> Busy \cup {"idle"}]
  BY <1>6 DEF Unref, Go, Guarded, Inside
<1>7. CASE RunDeferred
  BY <1>0, <1>7 DEF RunDeferred, Go, Guarded, Inside
<1>8. ASSUME NEW t \in Threads, NEW b \in Blocks,
             \/ Load(t, b) \/ TakeOver(b)
             \/ \E oversize \in BOOLEAN : AcquireMalloc(t, b, oversize)
             \/ \E u \in Threads \ {t} : Share(t, u, b)
      PROVE  Guarded' /\ at' \in [Threads -> Busy \cup {"idle"}]
  BY <1>1, <1>8 DEF Load, TakeOver, AcquireMalloc, Share
<1>10. ASSUME NEW t \in Threads, Reads(t)
       PROVE  Guarded' /\ at' \in [Threads -> Busy \cup {"idle"}]
  BY <1>1, <1>10 DEF Reads, TryRef, TryRefStale
<1>9. CASE Start \/ Stop \/ Detach \/ DestroyPoller \/ Over \/ UNCHANGED vars
  BY <1>1, <1>9 DEF Start, Stop, Detach, DestroyPoller, Over, vars
<1> QED
  BY <1>0, <1>2, <1>3, <1>4, <1>5, <1>6, <1>7, <1>8, <1>9, <1>10 DEF Next, Releasing

\* A thread_safe pool is worked on under its mutex; a lockless one by its loop thread alone,
\* because ztk_buf_pool_release posts the releases of other threads to it and ztk_buf_alloc
\* serves nobody else from it.
THEOREM FreelistExclusive == Spec => []NoFreelistRace
<1> DEFINE Inv == Guarded /\ at \in [Threads -> Busy \cup {"idle"}]
<1>1. Init => Inv
  BY DEF Init, PoolInit, Guarded, Inside, Busy
<1>2. Inv /\ [Next]_vars => Inv'
  BY GuardedStep
<1>3. Inv => NoFreelistRace
  <2> SUFFICES ASSUME Inv
               PROVE  Cardinality(Inside) <= 1
    BY DEF NoFreelistRace
  <2>1. \E x : Inside \subseteq {x}
    BY DEF Guarded, Inside
  <2>2. PICK x : Inside \in SUBSET {x}
    BY <2>1
  <2>3. IsFiniteSet({x}) /\ Cardinality({x}) = 1
    BY FS_Singleton
  <2>4. Cardinality(Inside) <= Cardinality({x})
    BY <2>2, <2>3, FS_Subset
  <2> QED
    BY <2>3, <2>4
<1> HIDE DEF Inv
<1>4. Spec => []Inv
  BY <1>1, <1>2, PTL DEF Spec
<1> QED
  BY <1>3, <1>4, PTL

-----------------------------------------------------------------------------
(* Every block has one home                                                *)

\* A step that moves no block: the invariant reads nothing it changes.
LEMMA PoolStays ==
  ASSUME PoolInv, UNCHANGED <<mem, refcnt, hold, free, count, tasks, at, blk, head>>, Guarded'
  PROVE  PoolInv'
<1>1. Typed' /\ FreeOK'
  BY DEF PoolInv, Typed, FreeOK, Elems
<1>2. \A u \in Threads : LetsGo(u)' = LetsGo(u)
  BY DEF LetsGo
<1>3. Working'
  BY <1>2 DEF PoolInv, Working
<1>4. Once'
  BY <1>2 DEF PoolInv, Once, Elems
<1>5. \A b : Holders(b)' = Holders(b)
  BY DEF Holders
<1>6. Elems(tasks)' = Elems(tasks)
  BY DEF Elems
<1>7. Counted'
  BY <1>2, <1>5, <1>6 DEF PoolInv, Counted
<1> QED
  BY <1>1, <1>3, <1>4, <1>7 DEF PoolInv

\* Thread t starts to work on the list; nothing else moves.
LEMMA StepsIn ==
  ASSUME PoolInv, Guarded', NEW t \in Threads, AcquireHit(t) \/ ReleaseCache(t)
  PROVE  PoolInv'
<1> USE DEF poolVars, blockVars, threadVars, Busy
<1>1. /\ UNCHANGED <<mem, refcnt, hold, free, count, tasks>>
      /\ at' = [at EXCEPT ![t] = at'[t]] /\ blk' = [blk EXCEPT ![t] = blk'[t]]
      /\ head' = [head EXCEPT ![t] = head'[t]]
  BY DEF AcquireHit, ReleaseCache, Go, PoolInv, Typed
<1>2. \/ at[t] = "idle" /\ at'[t] = "pop" /\ free # <<>> /\ blk'[t] = Head(free) /\ head'[t] = Tail(free)
      \/ at[t] = "now" /\ at'[t] = "push" /\ blk'[t] = blk[t] /\ head'[t] = free
  BY DEF AcquireHit, ReleaseCache, MayAcquire, Idle, Go, PoolInv, Typed
<1>3. free # <<>> => Head(free) \in Blocks /\ Tail(free) \in Seq(Blocks)
  BY TailOK DEF PoolInv, Typed, FreeOK
<1>4. \A u \in Threads : LetsGo(u)' = LetsGo(u) /\ (LetsGo(u) => blk'[u] = blk[u])
  BY <1>1, <1>2 DEF LetsGo, PoolInv, Typed
<1>5. Typed'
  <2>1. at'[t] \in Busy /\ blk'[t] \in Blocks \cup {None} /\ head'[t] \in Seq(Blocks)
    BY <1>2, <1>3 DEF PoolInv, Typed
  <2>2. at' \in [Threads -> Busy \cup {"idle"}]
    BY <1>1, <2>1 DEF PoolInv, Typed
  <2>3. blk' \in [Threads -> Blocks \cup {None}] /\ head' \in [Threads -> Seq(Blocks)]
    BY <1>1, <2>1 DEF PoolInv, Typed
  <2> QED
    BY <1>1, <2>2, <2>3 DEF PoolInv, Typed
<1>6. FreeOK'
  BY <1>1 DEF PoolInv, FreeOK, Elems
<1>7. Working'
  <2> SUFFICES ASSUME NEW u \in Threads
               PROVE  /\ at'[u] # "idle" => blk'[u] \in Blocks
                      /\ at'[u] = "pop" => free # <<>> /\ blk'[u] = Head(free) /\ head'[u] = Tail(free)
                      /\ at'[u] = "push" => head'[u] = free
                      /\ LetsGo(u)' => mem[blk'[u]] = "used" /\ refcnt[blk'[u]] = 0
    BY <1>1 DEF Working
  <2>1. CASE u = t
    <3>1. /\ at[t] # "idle" => blk[t] \in Blocks
          /\ LetsGo(t) => mem[blk[t]] = "used" /\ refcnt[blk[t]] = 0
      BY DEF PoolInv, Working
    <3> QED
      BY <1>2, <1>3, <1>4, <2>1, <3>1
  <2>2. CASE u # t
    <3>1. at'[u] = at[u] /\ blk'[u] = blk[u] /\ head'[u] = head[u]
      BY <1>1, <2>2 DEF PoolInv, Typed
    <3> QED
      BY <1>4, <3>1 DEF PoolInv, Working
  <2> QED
    BY <2>1, <2>2
<1>8. Once'
  BY <1>1, <1>4 DEF PoolInv, Once, Elems
<1>9. Counted'
  <2>1. \A b : Holders(b)' = Holders(b)
    BY <1>1 DEF Holders
  <2>2. Elems(tasks)' = Elems(tasks)
    BY <1>1 DEF Elems
  <2> QED
    BY <1>1, <1>4, <2>1, <2>2 DEF PoolInv, Counted
<1> QED
  BY <1>5, <1>6, <1>7, <1>8, <1>9 DEF PoolInv

\* Two threads are never inside.
LEMMA OneInside ==
  ASSUME Guarded, NEW t \in Inside
  PROVE  \A u \in Threads : u # t => at[u] \notin {"pop", "push"}
  BY DEF Guarded, Inside

\* The block at the front of the list becomes a buffer.
LEMMA StepPop ==
  ASSUME PoolInv, Guarded', NEW t \in Threads, AcquirePop(t)
  PROVE  PoolInv'
<1> USE DEF poolVars, blockVars, threadVars, Busy
<1>0. PICK b \in Blocks : b = blk[t]
  BY DEF AcquirePop, PoolInv, Working
<1>1. /\ at[t] = "pop" /\ b = blk[t] /\ free # <<>> /\ b = Head(free)
      /\ free' = Tail(free) /\ count' = count - 1 /\ tasks' = tasks
      /\ mem' = [mem EXCEPT ![b] = "used"] /\ refcnt' = [refcnt EXCEPT ![b] = 1]
      /\ hold' = [hold EXCEPT ![t] = @ \cup {b}]
      /\ at' = [at EXCEPT ![t] = "idle"] /\ blk' = [blk EXCEPT ![t] = None]
      /\ head' = [head EXCEPT ![t] = <<>>]
  BY <1>0 DEF AcquirePop, NewBuf, Go, PoolInv, Working
<1>2. \A u \in Threads : u # t => at[u] \notin {"pop", "push"}
  BY <1>1, OneInside DEF PoolInv, Inside
<1>3. /\ Tail(free) \in Seq(Blocks) /\ Distinct(Tail(free)) /\ b \in Elems(free)
      /\ Elems(Tail(free)) = Elems(free) \ {b} /\ Len(Tail(free)) = Len(free) - 1
      /\ Len(free) \in Nat \ {0}
  BY <1>1, TailOK DEF PoolInv, Typed, FreeOK
<1>4. mem[b] = "cached" /\ Holders(b) = {}
  BY <1>1, <1>3 DEF PoolInv, FreeOK, Counted
<1>5. /\ mem'[b] = "used" /\ refcnt'[b] = 1
      /\ \A c \in Blocks : c # b => mem'[c] = mem[c] /\ refcnt'[c] = refcnt[c]
      /\ at'[t] = "idle" /\ \A u \in Threads : u # t => at'[u] = at[u] /\ blk'[u] = blk[u] /\ head'[u] = head[u]
      /\ hold'[t] = hold[t] \cup {b} /\ \A u \in Threads : u # t => hold'[u] = hold[u]
  BY <1>1 DEF PoolInv, Typed
<1>6. /\ \A u \in Threads : LetsGo(u)' = LetsGo(u) /\ (LetsGo(u) => blk'[u] = blk[u] /\ blk[u] # b /\ blk[u] \in Blocks)
      /\ b \notin Elems(tasks)
  BY <1>1, <1>4, <1>5 DEF LetsGo, PoolInv, Working, Once
<1>7. Elems(tasks)' = Elems(tasks) /\ \A c \in Elems(tasks) : c \in Blocks
  BY <1>1 DEF Elems, PoolInv, Typed
<1>8. Typed'
  <2>1. mem' \in [Blocks -> {"libc", "used", "cached"}] /\ refcnt' \in [Blocks -> Nat]
    BY <1>1 DEF PoolInv, Typed
  <2>2. hold' \in [Threads -> SUBSET Blocks] /\ at' \in [Threads -> Busy \cup {"idle"}]
    BY <1>1 DEF PoolInv, Typed
  <2>3. blk' \in [Threads -> Blocks \cup {None}] /\ head' \in [Threads -> Seq(Blocks)]
    BY <1>1 DEF PoolInv, Typed
  <2> QED
    BY <1>1, <1>3, <2>1, <2>2, <2>3 DEF PoolInv, Typed, FreeOK
<1>9. FreeOK'
  <2>1. Elems(free) \subseteq Blocks
    BY DEF Elems, PoolInv, Typed
  <2>2. Elems(free)' = Elems(free')
    BY DEF Elems
  <2>3. Elems(free)' = Elems(free) \ {b}
    BY <1>1, <1>3, <2>2
  <2> QED
    BY <1>1, <1>3, <1>5, <2>1, <2>3 DEF PoolInv, FreeOK, Distinct
<1>10. Working'
  BY <1>2, <1>5, <1>6 DEF PoolInv, Working, LetsGo
<1>11. Once'
  BY <1>1, <1>5, <1>6, <1>7 DEF PoolInv, Once, Distinct
<1>12. Counted'
  <2>1. Holders(b)' = {t} /\ \A c \in Blocks : c # b => Holders(c)' = Holders(c)
    BY <1>4, <1>5 DEF Holders
  <2>2. Cardinality({t}) = 1
    BY FS_Singleton
  <2> QED
    BY <1>5, <1>6, <1>7, <2>1, <2>2 DEF PoolInv, Counted
<1> QED
  BY <1>8, <1>9, <1>10, <1>11, <1>12 DEF PoolInv

\* Thread t is done with block b, which is no buffer any more.
LEMMA Returned ==
  ASSUME PoolInv, NEW t \in Threads, NEW b \in Blocks, LetsGo(t), b = blk[t],
         UNCHANGED <<tasks, refcnt, hold>>,
         NEW where \in {"libc", "cached"}, mem' = [mem EXCEPT ![b] = where],
         at' = [at EXCEPT ![t] = "idle"], blk' = [blk EXCEPT ![t] = None]
  PROVE  /\ mem' \in [Blocks -> {"libc", "used", "cached"}]
         /\ at' \in [Threads -> Busy \cup {"idle"}] /\ blk' \in [Threads -> Blocks \cup {None}]
         /\ \A u \in Threads : u # t => at'[u] = at[u] /\ blk'[u] = blk[u]
         /\ \A u \in Threads : LetsGo(u)' => LetsGo(u) /\ u # t /\ mem'[blk'[u]] = "used" /\ refcnt'[blk'[u]] = 0
         /\ at'[t] = "idle" /\ Once' /\ Counted'
<1>1. mem[b] = "used" /\ refcnt[b] = 0
  BY DEF PoolInv, Working
<1>2. Holders(b) = {}
  BY <1>1, HoldersFinite DEF PoolInv, Counted, Holders
<1>3. /\ mem'[b] # "used" /\ \A c \in Blocks : c # b => mem'[c] = mem[c]
      /\ at'[t] = "idle" /\ \A u \in Threads : u # t => at'[u] = at[u] /\ blk'[u] = blk[u]
  BY DEF PoolInv, Typed
<1>4. /\ \A u \in Threads : LetsGo(u)' = (LetsGo(u) /\ u # t)
      /\ \A u \in Threads : LetsGo(u) /\ u # t => blk'[u] = blk[u] /\ blk[u] # b /\ blk[u] \in Blocks
      /\ b \notin Elems(tasks)
  BY <1>3 DEF LetsGo, PoolInv, Working, Once
<1>5. Elems(tasks)' = Elems(tasks) /\ \A c \in Elems(tasks) : c \in Blocks
  BY DEF Elems, PoolInv, Typed
<1>6. Once'
  <2>1. Distinct(tasks)'
    BY DEF PoolInv, Once, Distinct
  <2>2. \A c \in Elems(tasks) : mem'[c] = "used" /\ refcnt'[c] = 0
    BY <1>3, <1>4, <1>5 DEF PoolInv, Once
  <2>3. \A u, v \in Threads : LetsGo(u)' /\ LetsGo(v)' /\ blk'[u] = blk'[v] => u = v
    BY <1>4 DEF PoolInv, Once
  <2>4. \A u \in Threads : LetsGo(u)' => blk'[u] \notin Elems(tasks)
    BY <1>4 DEF PoolInv, Once
  <2> QED
    BY <1>5, <2>1, <2>2, <2>3, <2>4 DEF Once
<1>7. Counted'
  <2>1. \A c \in Blocks : Holders(c)' = Holders(c)
    BY DEF Holders
  <2> SUFFICES ASSUME NEW c \in Blocks
               PROVE  /\ mem'[c] # "used" => Holders(c)' = {}
                      /\ mem'[c] = "used" =>
                           /\ refcnt'[c] = Cardinality(Holders(c))'
                           /\ refcnt'[c] = 0 => \/ c \in Elems(tasks)'
                                                \/ \E u \in Threads : LetsGo(u)' /\ blk'[u] = c
    BY DEF Counted
  <2>2. CASE c = b
    BY <1>2, <1>3, <2>1, <2>2
  <2>3. CASE c # b
    <3>1. mem'[c] # "used" => Holders(c)' = {}
      BY <1>3, <2>1, <2>3 DEF PoolInv, Counted
    <3>2. mem'[c] = "used" => refcnt'[c] = Cardinality(Holders(c))'
      BY <1>3, <2>1, <2>3 DEF PoolInv, Counted
    <3>3. ASSUME mem'[c] = "used", refcnt'[c] = 0, c \notin Elems(tasks)
          PROVE  \E u \in Threads : LetsGo(u)' /\ blk'[u] = c
      <4>1. PICK u \in Threads : LetsGo(u) /\ blk[u] = c
        BY <1>3, <2>3, <3>3 DEF PoolInv, Counted
      <4> QED
        BY <1>4, <2>3, <4>1
    <3> QED
      BY <1>5, <3>1, <3>2, <3>3
  <2> QED
    BY <2>2, <2>3
<1>8. /\ mem' \in [Blocks -> {"libc", "used", "cached"}]
      /\ at' \in [Threads -> Busy \cup {"idle"}] /\ blk' \in [Threads -> Blocks \cup {None}]
  BY DEF PoolInv, Typed
<1>9. \A u \in Threads : LetsGo(u)' => mem'[blk'[u]] = "used" /\ refcnt'[blk'[u]] = 0
  <2> SUFFICES ASSUME NEW u \in Threads, LetsGo(u)'
               PROVE  mem'[blk'[u]] = "used" /\ refcnt'[blk'[u]] = 0
    OBVIOUS
  <2>1. LetsGo(u) /\ blk'[u] = blk[u] /\ blk[u] # b /\ blk[u] \in Blocks
    BY <1>4
  <2>2. mem'[blk[u]] = mem[blk[u]]
    BY <1>3, <2>1
  <2> QED
    BY <2>1, <2>2 DEF PoolInv, Working
<1> QED
  BY <1>3, <1>4, <1>6, <1>7, <1>8, <1>9

\* A block is put in front of the list.
LEMMA StepPush ==
  ASSUME PoolInv, Guarded', NEW t \in Threads, ReleasePush(t)
  PROVE  PoolInv'
<1> USE DEF poolVars, blockVars, threadVars
<1>0. PICK b \in Blocks : b = blk[t]
  BY DEF ReleasePush, PoolInv, Working
<1>1. /\ at[t] = "push" /\ b = blk[t] /\ LetsGo(t)
      /\ free' = <<b>> \o free /\ count' = count + 1
      /\ UNCHANGED <<tasks, refcnt, hold>>
      /\ mem' = [mem EXCEPT ![b] = "cached"]
      /\ at' = [at EXCEPT ![t] = "idle"] /\ blk' = [blk EXCEPT ![t] = None]
      /\ head' = [head EXCEPT ![t] = <<>>]
  BY <1>0 DEF ReleasePush, Go, PoolInv, Working, LetsGo
<1>2. \A u \in Threads : u # t => at[u] \notin {"pop", "push"}
  BY <1>1, OneInside DEF PoolInv, Inside
<1>3. /\ mem' \in [Blocks -> {"libc", "used", "cached"}]
      /\ at' \in [Threads -> Busy \cup {"idle"}] /\ blk' \in [Threads -> Blocks \cup {None}]
      /\ \A u \in Threads : u # t => at'[u] = at[u] /\ blk'[u] = blk[u]
      /\ \A u \in Threads : LetsGo(u)' => mem'[blk'[u]] = "used" /\ refcnt'[blk'[u]] = 0
      /\ at'[t] = "idle" /\ Once' /\ Counted'
  BY <1>1, Returned
<1>4. /\ <<b>> \o free \in Seq(Blocks) /\ Distinct(<<b>> \o free)
      /\ Elems(<<b>> \o free) = Elems(free) \cup {b} /\ Len(<<b>> \o free) = Len(free) + 1
  BY <1>1, ConsOK DEF PoolInv, Typed, FreeOK, Working
<1>5. Typed'
  BY <1>1, <1>3, <1>4 DEF PoolInv, Typed, FreeOK
<1>6. FreeOK'
  <2>1. Elems(free) \subseteq Blocks
    BY DEF Elems, PoolInv, Typed
  <2>2. Elems(free)' = Elems(free')
    BY DEF Elems
  <2>3. Elems(free)' = Elems(free) \cup {b}
    BY <1>1, <1>4, <2>2
  <2>4. mem'[b] = "cached" /\ \A c \in Blocks : c # b => mem'[c] = mem[c]
    BY <1>1 DEF PoolInv, Typed
  <2> QED
    BY <1>1, <1>4, <2>1, <2>3, <2>4 DEF PoolInv, FreeOK, Distinct
<1>7. Working'
  BY <1>2, <1>3 DEF PoolInv, Working
<1> QED
  BY <1>3, <1>5, <1>6, <1>7 DEF PoolInv

\* A block for which there is no room, or no task, goes back to malloc.
LEMMA StepDrop ==
  ASSUME PoolInv, Guarded', NEW t \in Threads, ReleaseDrop(t) \/ Defer(t, FALSE)
  PROVE  PoolInv'
<1> USE DEF poolVars, blockVars, threadVars
<1>0. PICK b \in Blocks : b = blk[t]
  BY DEF ReleaseDrop, Defer, PoolInv, Working
<1>1. /\ LetsGo(t) /\ b = blk[t]
      /\ UNCHANGED <<tasks, refcnt, hold, free, count, head>>
      /\ mem' = [mem EXCEPT ![b] = "libc"]
      /\ at' = [at EXCEPT ![t] = "idle"] /\ blk' = [blk EXCEPT ![t] = None]
  BY <1>0 DEF ReleaseDrop, Defer, Go, LetsGo
<1>3. /\ mem' \in [Blocks -> {"libc", "used", "cached"}]
      /\ at' \in [Threads -> Busy \cup {"idle"}] /\ blk' \in [Threads -> Blocks \cup {None}]
      /\ \A u \in Threads : u # t => at'[u] = at[u] /\ blk'[u] = blk[u]
      /\ \A u \in Threads : LetsGo(u)' => mem'[blk'[u]] = "used" /\ refcnt'[blk'[u]] = 0
      /\ at'[t] = "idle" /\ Once' /\ Counted'
  BY <1>1, Returned
<1>4. Typed'
  BY <1>1, <1>3 DEF PoolInv, Typed
<1>5. FreeOK'
  <2>1. Elems(free) \subseteq Blocks /\ Elems(free)' = Elems(free) /\ mem[b] = "used"
    BY <1>1 DEF Elems, PoolInv, Typed, Working
  <2>2. \A c \in Blocks : c # b => mem'[c] = mem[c]
    BY <1>1 DEF PoolInv, Typed
  <2> QED
    BY <1>1, <2>1, <2>2 DEF PoolInv, FreeOK, Distinct
<1>6. Working'
  BY <1>1, <1>3 DEF PoolInv, Working
<1> QED
  BY <1>3, <1>4, <1>5, <1>6 DEF PoolInv

\* Whether the thread may touch the pool changes nothing about the blocks.
LEMMA StepRelease ==
  ASSUME PoolInv, Guarded', NEW t \in Threads, Release(t)
  PROVE  PoolInv'
<1> USE DEF poolVars, blockVars, threadVars, Busy
<1>1. /\ UNCHANGED <<mem, refcnt, hold, free, count, tasks, head>> /\ at[t] = "release"
      /\ \E where \in {"now", "defer"} : at' = [at EXCEPT ![t] = where]
      /\ blk' = [blk EXCEPT ![t] = blk[t]]
  BY DEF Release, Go
<1>2. at'[t] \in {"now", "defer"} /\ \A u \in Threads : blk'[u] = blk[u] /\ (u # t => at'[u] = at[u])
  BY <1>1 DEF PoolInv, Typed
<1>3. \A u \in Threads : LetsGo(u)' = LetsGo(u)
  BY <1>1, <1>2 DEF LetsGo
<1>4. Typed' /\ FreeOK'
  BY <1>1 DEF PoolInv, Typed, FreeOK, Elems
<1>5. Working'
  BY <1>1, <1>2, <1>3 DEF PoolInv, Working
<1>6. Once'
  BY <1>1, <1>2, <1>3 DEF PoolInv, Once, Elems
<1>7. Counted'
  <2>1. \A b : Holders(b)' = Holders(b)
    BY <1>1 DEF Holders
  <2>2. Elems(tasks)' = Elems(tasks)
    BY <1>1 DEF Elems
  <2> QED
    BY <1>1, <1>2, <1>3, <2>1, <2>2 DEF PoolInv, Counted
<1> QED
  BY <1>4, <1>5, <1>6, <1>7 DEF PoolInv

\* The block is handed to the owner as a task, ...
LEMMA StepDefer ==
  ASSUME PoolInv, Guarded', NEW t \in Threads, Defer(t, TRUE)
  PROVE  PoolInv'
<1> USE DEF poolVars, blockVars, threadVars, Busy
<1>0. PICK b \in Blocks : b = blk[t]
  BY DEF Defer, PoolInv, Working
<1>1. /\ LetsGo(t) /\ b = blk[t] /\ at[t] = "defer"
      /\ UNCHANGED <<mem, refcnt, hold, free, count, head>>
      /\ tasks' = Append(tasks, b)
      /\ at' = [at EXCEPT ![t] = "idle"] /\ blk' = [blk EXCEPT ![t] = None]
  BY <1>0 DEF Defer, Go, LetsGo
<1>2. /\ mem[b] = "used" /\ refcnt[b] = 0 /\ b \notin Elems(tasks)
      /\ tasks' \in Seq(Blocks) /\ Distinct(tasks)' /\ Elems(tasks)' = Elems(tasks) \cup {b}
  <2>1. mem[b] = "used" /\ refcnt[b] = 0 /\ b \notin Elems(tasks)
    BY <1>1 DEF PoolInv, Working, Once
  <2>2. /\ Append(tasks, b) \in Seq(Blocks) /\ Distinct(Append(tasks, b))
        /\ Elems(Append(tasks, b)) = Elems(tasks) \cup {b}
    BY <2>1, AppendOK DEF PoolInv, Typed, Once
  <2>3. Elems(tasks)' = Elems(tasks') /\ Distinct(tasks)' = Distinct(tasks')
    BY DEF Elems, Distinct
  <2> QED
    BY <1>1, <2>1, <2>2, <2>3
<1>3. at'[t] = "idle" /\ \A u \in Threads : u # t => at'[u] = at[u] /\ blk'[u] = blk[u]
  BY <1>1 DEF PoolInv, Typed
<1>4. /\ \A u \in Threads : LetsGo(u)' = (LetsGo(u) /\ u # t)
      /\ \A u \in Threads : LetsGo(u) /\ u # t => blk'[u] = blk[u] /\ blk[u] # b
  BY <1>1, <1>3 DEF LetsGo, PoolInv, Once
<1>5. Typed' /\ FreeOK'
  BY <1>1, <1>2 DEF PoolInv, Typed, FreeOK, Elems
<1>6. Working'
  <2>1. \A u \in Threads : LetsGo(u)' => mem'[blk'[u]] = "used" /\ refcnt'[blk'[u]] = 0
    BY <1>1, <1>4 DEF PoolInv, Working
  <2> QED
    BY <1>1, <1>3, <2>1 DEF PoolInv, Working
<1>7. Once'
  <2>1. \A u, v \in Threads : LetsGo(u)' /\ LetsGo(v)' /\ blk'[u] = blk'[v] => u = v
    BY <1>4 DEF PoolInv, Once
  <2>2. \A u \in Threads : LetsGo(u)' => blk'[u] \notin Elems(tasks)'
    BY <1>2, <1>4 DEF PoolInv, Once
  <2>3. \A c \in Elems(tasks)' : mem'[c] = "used" /\ refcnt'[c] = 0
    BY <1>1, <1>2 DEF PoolInv, Once
  <2> QED
    BY <1>2, <2>1, <2>2, <2>3 DEF Once
<1>8. Counted'
  <2>1. \A c \in Blocks : Holders(c)' = Holders(c)
    BY <1>1 DEF Holders
  <2>2. ASSUME NEW c \in Blocks, NEW u \in Threads, LetsGo(u), blk[u] = c
        PROVE  c \in Elems(tasks)' \/ (LetsGo(u)' /\ blk'[u] = c)
    BY <1>1, <1>2, <1>4, <2>2
  <2> QED
    BY <1>1, <1>2, <2>1, <2>2 DEF PoolInv, Counted
<1> QED
  BY <1>5, <1>6, <1>7, <1>8 DEF PoolInv

\* ... and taken back from the task on the loop thread.
LEMMA StepDeferred ==
  ASSUME PoolInv, Guarded', RunDeferred
  PROVE  PoolInv'
<1> USE DEF poolVars, blockVars, threadVars, Busy
<1>0. Loop \in Threads
  BY DEF Threads
<1>1. /\ Tail(tasks) \in Seq(Blocks) /\ Distinct(Tail(tasks)) /\ Head(tasks) \in Elems(tasks)
      /\ Elems(Tail(tasks)) = Elems(tasks) \ {Head(tasks)} /\ Head(tasks) \in Blocks
  BY TailOK DEF PoolInv, Typed, Once, RunDeferred
<1>2. PICK b \in Blocks : b = Head(tasks)
  BY <1>1
<1>3. /\ at[Loop] = "idle" /\ UNCHANGED <<mem, refcnt, hold, free, count, head>>
      /\ at' = [at EXCEPT ![Loop] = "now"] /\ blk' = [blk EXCEPT ![Loop] = b]
      /\ tasks' = Tail(tasks)
  BY <1>2 DEF RunDeferred, Idle, Go
<1>4. /\ tasks' \in Seq(Blocks) /\ Distinct(tasks)' /\ Elems(tasks)' = Elems(tasks) \ {b}
      /\ mem[b] = "used" /\ refcnt[b] = 0 /\ b \in Elems(tasks)
  <2>1. Elems(tasks)' = Elems(tasks') /\ Distinct(tasks)' = Distinct(tasks')
    BY DEF Elems, Distinct
  <2> QED
    BY <1>1, <1>2, <1>3, <2>1 DEF PoolInv, Once
<1>5. /\ at'[Loop] = "now" /\ blk'[Loop] = b
      /\ \A u \in Threads : u # Loop => at'[u] = at[u] /\ blk'[u] = blk[u]
  BY <1>0, <1>3 DEF PoolInv, Typed
<1>6. /\ LetsGo(Loop)' /\ ~LetsGo(Loop)
      /\ \A u \in Threads : u # Loop => LetsGo(u)' = LetsGo(u) /\ blk'[u] = blk[u]
      /\ \A u \in Threads : LetsGo(u) => blk[u] # b
  BY <1>3, <1>4, <1>5 DEF LetsGo, PoolInv, Once
<1>7. Typed' /\ FreeOK'
  BY <1>0, <1>3, <1>4 DEF PoolInv, Typed, FreeOK, Elems
<1>8. Working'
  BY <1>3, <1>4, <1>5, <1>6 DEF PoolInv, Working
<1>9. Once'
  <2>1. \A u, v \in Threads : LetsGo(u)' /\ LetsGo(v)' /\ blk'[u] = blk'[v] => u = v
    BY <1>5, <1>6 DEF PoolInv, Once
  <2>2. \A u \in Threads : LetsGo(u)' => blk'[u] \notin Elems(tasks)'
    BY <1>4, <1>5, <1>6 DEF PoolInv, Once
  <2>3. \A c \in Elems(tasks)' : mem'[c] = "used" /\ refcnt'[c] = 0
    BY <1>3, <1>4 DEF PoolInv, Once
  <2> QED
    BY <1>4, <2>1, <2>2, <2>3 DEF Once
<1>10. Counted'
  <2>1. \A c \in Blocks : Holders(c)' = Holders(c)
    BY <1>3 DEF Holders
  <2>2. ASSUME NEW c \in Elems(tasks)
        PROVE  c \in Elems(tasks)' \/ (LetsGo(Loop)' /\ blk'[Loop] = c)
    BY <1>4, <1>5, <1>6
  <2>3. ASSUME NEW u \in Threads, LetsGo(u)
        PROVE  LetsGo(u)' /\ blk'[u] = blk[u]
    BY <1>6, <2>3
  <2> QED
    BY <1>0, <1>3, <2>1, <2>2, <2>3 DEF PoolInv, Counted
<1> QED
  BY <1>7, <1>8, <1>9, <1>10 DEF PoolInv

\* Only the references to block b change: S are its holders now.
LEMMA StepHolders ==
  ASSUME PoolInv, Guarded', UNCHANGED <<free, count, tasks, at, blk, head>>,
         NEW b \in Blocks, NEW n \in Nat \ {0},
         b \notin Elems(free), b \notin Elems(tasks), \A u \in Threads : LetsGo(u) => blk[u] # b,
         mem' = [mem EXCEPT ![b] = "used"], refcnt' = [refcnt EXCEPT ![b] = n],
         hold' \in [Threads -> SUBSET Blocks],
         \A c \in Blocks \ {b} : Holders(c)' = Holders(c),
         n = Cardinality(Holders(b)')
  PROVE  PoolInv'
<1>1. /\ mem'[b] = "used" /\ refcnt'[b] = n
      /\ \A c \in Blocks : c # b => mem'[c] = mem[c] /\ refcnt'[c] = refcnt[c]
  BY DEF PoolInv, Typed
<1>2. Typed'
  BY DEF PoolInv, Typed
<1>3. /\ Elems(free)' = Elems(free) /\ Elems(tasks)' = Elems(tasks)
      /\ Elems(free) \subseteq Blocks /\ Elems(tasks) \subseteq Blocks
      /\ Distinct(free)' = Distinct(free) /\ Distinct(tasks)' = Distinct(tasks)
  BY DEF Elems, Distinct, PoolInv, Typed
<1>4. FreeOK'
  BY <1>1, <1>3 DEF PoolInv, FreeOK
<1>5. \A u \in Threads : LetsGo(u)' = LetsGo(u) /\ (LetsGo(u) => blk[u] \in Blocks \ {b})
  BY DEF LetsGo, PoolInv, Working
<1>6. Working'
  BY <1>1, <1>5 DEF PoolInv, Working
<1>7. Once'
  BY <1>1, <1>3, <1>5 DEF PoolInv, Once
<1>8. Counted'
  <2> SUFFICES ASSUME NEW c \in Blocks
               PROVE  /\ mem'[c] # "used" => Holders(c)' = {}
                      /\ mem'[c] = "used" =>
                           /\ refcnt'[c] = Cardinality(Holders(c)')
                           /\ refcnt'[c] = 0 => \/ c \in Elems(tasks)'
                                                \/ \E u \in Threads : LetsGo(u)' /\ blk'[u] = c
    BY DEF Counted
  <2>1. CASE c = b
    BY <1>1, <2>1
  <2>2. CASE c # b
    BY <1>1, <1>3, <1>5, <2>2 DEF PoolInv, Counted
  <2> QED
    BY <2>1, <2>2
<1> QED
  BY <1>2, <1>4, <1>6, <1>7, <1>8 DEF PoolInv

\* Nobody lets go of a block that is no buffer, or that somebody refers to.
LEMMA NotDying ==
  ASSUME PoolInv, NEW b \in Blocks, mem[b] # "used" \/ refcnt[b] # 0
  PROVE  b \notin Elems(tasks) /\ \A u \in Threads : LetsGo(u) => blk[u] # b
  BY DEF PoolInv, Working, Once

\* malloc makes a buffer of a block that is nowhere.
LEMMA StepMalloc ==
  ASSUME PoolInv, Guarded', NEW t \in Threads, NEW b \in Blocks, NEW oversize \in BOOLEAN,
         AcquireMalloc(t, b, oversize)
  PROVE  PoolInv'
<1> USE DEF poolVars, blockVars, threadVars
<1>1. /\ mem[b] = "libc" /\ UNCHANGED <<free, count, tasks, at, blk, head>>
      /\ mem' = [mem EXCEPT ![b] = "used"] /\ refcnt' = [refcnt EXCEPT ![b] = 1]
      /\ hold' = [hold EXCEPT ![t] = @ \cup {b}]
  BY DEF AcquireMalloc, NewBuf
<1>2. Holders(b) = {} /\ b \notin Elems(free)
  BY <1>1 DEF PoolInv, Counted, FreeOK
<1>3. b \notin Elems(tasks) /\ \A u \in Threads : LetsGo(u) => blk[u] # b
  BY <1>1, NotDying
<1>4. hold'[t] = hold[t] \cup {b} /\ \A u \in Threads : u # t => hold'[u] = hold[u]
  BY <1>1 DEF PoolInv, Typed
<1>5. Holders(b)' = {t} /\ \A c \in Blocks \ {b} : Holders(c)' = Holders(c)
  BY <1>2, <1>4 DEF Holders
<1>6. Cardinality(Holders(b)') = 1
  BY <1>5, FS_Singleton
<1>7. hold' \in [Threads -> SUBSET Blocks]
  BY <1>1 DEF PoolInv, Typed
<1>8. 1 \in Nat \ {0}
  OBVIOUS
<1> QED
  BY <1>1, <1>2, <1>3, <1>5, <1>6, <1>7, <1>8, StepHolders, Zenon

\* One more thread refers to a block that is referred to.
LEMMA StepRef ==
  ASSUME PoolInv, Guarded', NEW t \in Threads, NEW b \in Blocks,
         \/ TryRef(t) /\ b = ptr[t] /\ refcnt[b] > 0 /\ b \notin hold[t]
         \/ \E v \in Threads : Share(v, t, b)
  PROVE  PoolInv'
<1> USE DEF poolVars, blockVars, threadVars
<1>1. /\ b \notin hold[t] /\ UNCHANGED <<mem, free, count, tasks, at, blk, head>>
      /\ refcnt' = [refcnt EXCEPT ![b] = refcnt[b] + 1]
      /\ hold' = [hold EXCEPT ![t] = @ \cup {b}]
  BY DEF TryRef, Share
<1>2. mem[b] = "used" /\ refcnt[b] \in Nat \ {0}
  <2>1. CASE TryRef(t) /\ b = ptr[t] /\ refcnt[b] > 0
    BY <2>1 DEF TryRef, PoolInv, Typed
  <2>2. CASE \E v \in Threads : Share(v, t, b)
    <3>1. Holders(b) # {} /\ Holders(b) \in SUBSET Threads
      BY <2>2 DEF Share, Holders
    <3>2. mem[b] = "used" /\ refcnt[b] = Cardinality(Holders(b))
      BY <3>1 DEF PoolInv, Counted
    <3> QED
      BY <3>1, <3>2, HoldersFinite
  <2> QED
    BY <2>1, <2>2
<1>3. b \notin Elems(free) /\ b \notin Elems(tasks) /\ \A u \in Threads : LetsGo(u) => blk[u] # b
  BY <1>2, NotDying DEF PoolInv, FreeOK
<1>4. hold'[t] = hold[t] \cup {b} /\ \A u \in Threads : u # t => hold'[u] = hold[u]
  BY <1>1 DEF PoolInv, Typed
<1>5. Holders(b)' = Holders(b) \cup {t} /\ t \notin Holders(b) /\ \A c \in Blocks \ {b} : Holders(c)' = Holders(c)
  BY <1>1, <1>4 DEF Holders
<1>6. Cardinality(Holders(b)') = refcnt[b] + 1
  <2>1. IsFiniteSet(Holders(b)) /\ refcnt[b] = Cardinality(Holders(b))
    BY <1>2, HoldersFinite DEF Holders, PoolInv, Counted
  <2> QED
    BY <1>5, <2>1, FS_AddElement
<1>7. hold' \in [Threads -> SUBSET Blocks] /\ mem' = [mem EXCEPT ![b] = "used"]
  BY <1>1, <1>2 DEF PoolInv, Typed
<1>8. refcnt[b] + 1 \in Nat \ {0}
  BY <1>2
<1> QED
  BY <1>1, <1>3, <1>5, <1>6, <1>7, <1>8, StepHolders

\* The call after a load: a reference, or nothing the invariant is about.
LEMMA StepReads ==
  ASSUME PoolInv, Guarded', ptr \in [Threads -> Blocks \cup {None}], NEW t \in Threads, Reads(t)
  PROVE  PoolInv'
<1> USE DEF poolVars, blockVars, threadVars
<1>1. CASE TryRef(t) /\ refcnt[ptr[t]] > 0 /\ ptr[t] \notin hold[t]
  <2>1. PICK b \in Blocks : b = ptr[t]
    BY <1>1 DEF TryRef
  <2> QED
    BY <1>1, <2>1, StepRef
<1>2. CASE TryRef(t) /\ ~(refcnt[ptr[t]] > 0 /\ ptr[t] \notin hold[t])
  BY <1>2, PoolStays DEF TryRef
<1>3. ASSUME NEW positive \in BOOLEAN, TryRefStale(t, positive)
      PROVE  PoolInv'
  BY <1>3, PoolStays DEF TryRefStale
<1> QED
  BY <1>1, <1>2, <1>3 DEF Reads

\* What the stopped loop referred to is referred to by the main thread.
LEMMA StepTakeOver ==
  ASSUME PoolInv, Guarded', NEW b \in Blocks, TakeOver(b)
  PROVE  PoolInv'
<1> USE DEF poolVars, blockVars, threadVars
<1>0. Loop \in Threads /\ Main \in Threads /\ Loop # Main
  BY BufPoolAssumption DEF Threads
<1>1. /\ b \in hold[Loop] /\ b \notin hold[Main]
      /\ UNCHANGED <<mem, refcnt, free, count, tasks, at, blk, head>>
      /\ hold' = [hold EXCEPT ![Loop] = @ \ {b}, ![Main] = @ \cup {b}]
  BY DEF TakeOver
<1>2. /\ hold'[Loop] = hold[Loop] \ {b} /\ hold'[Main] = hold[Main] \cup {b}
      /\ \A u \in Threads \ {Loop, Main} : hold'[u] = hold[u]
  BY <1>0, <1>1 DEF PoolInv, Typed
<1>3. /\ Loop \in Holders(b) /\ Main \notin Holders(b) \ {Loop}
      /\ Holders(b)' = (Holders(b) \ {Loop}) \cup {Main}
      /\ \A c \in Blocks \ {b} : Holders(c)' = Holders(c)
  BY <1>0, <1>1, <1>2 DEF Holders
<1>4. /\ IsFiniteSet(Holders(b)) /\ mem[b] = "used" /\ refcnt[b] = Cardinality(Holders(b))
      /\ refcnt[b] \in Nat \ {0}
  <2>1. Holders(b) \in SUBSET Threads /\ Holders(b) # {}
    BY <1>3 DEF Holders
  <2>2. mem[b] = "used" /\ refcnt[b] = Cardinality(Holders(b))
    BY <2>1 DEF PoolInv, Counted
  <2> QED
    BY <2>1, <2>2, HoldersFinite
<1>5. Cardinality(Holders(b)') = refcnt[b]
  <2>1. IsFiniteSet(Holders(b) \ {Loop}) /\ Cardinality(Holders(b) \ {Loop}) = refcnt[b] - 1
    BY <1>3, <1>4, FS_RemoveElement
  <2>2. Cardinality((Holders(b) \ {Loop}) \cup {Main}) = Cardinality(Holders(b) \ {Loop}) + 1
    BY <1>3, <2>1, FS_AddElement
  <2> QED
    BY <1>3, <1>4, <2>1, <2>2
<1>6. b \notin Elems(free) /\ b \notin Elems(tasks) /\ \A u \in Threads : LetsGo(u) => blk[u] # b
  BY <1>4, NotDying DEF PoolInv, FreeOK
<1>7. /\ hold' \in [Threads -> SUBSET Blocks] /\ mem' = [mem EXCEPT ![b] = "used"]
      /\ refcnt' = [refcnt EXCEPT ![b] = refcnt[b]]
  BY <1>0, <1>1, <1>4 DEF PoolInv, Typed
<1> QED
  BY <1>1, <1>3, <1>4, <1>5, <1>6, <1>7, StepHolders

\* A reference is dropped; whoever drops the last one releases the block.
LEMMA StepUnref ==
  ASSUME PoolInv, Guarded', NEW t \in Threads, NEW b \in Blocks, Unref(t, b)
  PROVE  PoolInv'
<1> USE DEF poolVars, blockVars, threadVars
<1>1. /\ at[t] = "idle" /\ b \in hold[t] /\ UNCHANGED <<mem, free, count, tasks, head>>
      /\ refcnt' = [refcnt EXCEPT ![b] = refcnt[b] - 1]
      /\ hold' = [hold EXCEPT ![t] = @ \ {b}]
  BY DEF Unref, Idle
<1>2. hold'[t] = hold[t] \ {b} /\ \A u \in Threads : u # t => hold'[u] = hold[u]
  BY <1>1 DEF PoolInv, Typed
<1>3. /\ t \in Holders(b) /\ Holders(b)' = Holders(b) \ {t}
      /\ \A c \in Blocks \ {b} : Holders(c)' = Holders(c)
  BY <1>1, <1>2 DEF Holders
<1>4. /\ IsFiniteSet(Holders(b)) /\ mem[b] = "used" /\ refcnt[b] = Cardinality(Holders(b))
      /\ refcnt[b] \in Nat \ {0}
  <2>1. Holders(b) \in SUBSET Threads /\ Holders(b) # {}
    BY <1>3 DEF Holders
  <2>2. mem[b] = "used" /\ refcnt[b] = Cardinality(Holders(b))
    BY <2>1 DEF PoolInv, Counted
  <2> QED
    BY <2>1, <2>2, HoldersFinite
<1>5. Cardinality(Holders(b)') = refcnt[b] - 1
  <2>1. PICK hs : hs = Holders(b)
    OBVIOUS
  <2>2. Cardinality(hs \ {t}) = Cardinality(hs) - 1
    BY <1>3, <1>4, <2>1, FS_RemoveElement
  <2> QED
    BY <1>3, <1>4, <2>1, <2>2
<1>6. b \notin Elems(free) /\ b \notin Elems(tasks) /\ \A u \in Threads : LetsGo(u) => blk[u] # b
  BY <1>4, NotDying DEF PoolInv, FreeOK
<1>7. hold' \in [Threads -> SUBSET Blocks] /\ mem' = [mem EXCEPT ![b] = "used"]
  BY <1>1, <1>4 DEF PoolInv, Typed
<1>8. CASE refcnt[b] # 1
  <2>1. UNCHANGED <<at, blk>> /\ refcnt[b] - 1 \in Nat \ {0}
    BY <1>4, <1>8 DEF Unref
  <2> QED
    BY <1>1, <1>3, <1>5, <1>6, <1>7, <2>1, StepHolders
<1>9. CASE refcnt[b] = 1
  <2>1. /\ at' = [at EXCEPT ![t] = "release"] /\ blk' = [blk EXCEPT ![t] = b]
        /\ refcnt' = [refcnt EXCEPT ![b] = 0]
    BY <1>1, <1>9 DEF Unref, Go
  <2>2. /\ at'[t] = "release" /\ blk'[t] = b /\ refcnt'[b] = 0
        /\ \A u \in Threads : u # t => at'[u] = at[u] /\ blk'[u] = blk[u]
        /\ \A c \in Blocks : c # b => refcnt'[c] = refcnt[c]
    BY <2>1 DEF PoolInv, Typed
  <2>3. /\ LetsGo(t)' /\ ~LetsGo(t)
        /\ \A u \in Threads : u # t => LetsGo(u)' = LetsGo(u) /\ blk'[u] = blk[u]
        /\ \A u \in Threads : LetsGo(u) => blk[u] \in Blocks
    BY <1>1, <2>2 DEF LetsGo, PoolInv, Working
  <2>4. /\ Elems(free)' = Elems(free) /\ Elems(tasks)' = Elems(tasks) /\ Elems(tasks) \subseteq Blocks
        /\ Distinct(free)' = Distinct(free) /\ Distinct(tasks)' = Distinct(tasks)
    BY <1>1 DEF Elems, Distinct, PoolInv, Typed
  <2>5. Typed'
    BY <1>1, <1>7, <2>1 DEF PoolInv, Typed, Busy
  <2>6. FreeOK'
    BY <1>1, <2>4 DEF PoolInv, FreeOK
  <2>7. Working'
    BY <1>1, <1>4, <1>6, <2>2, <2>3 DEF PoolInv, Working
  <2>8. Once'
    <3>1. \A u, v \in Threads : LetsGo(u)' /\ LetsGo(v)' /\ blk'[u] = blk'[v] => u = v
      BY <1>6, <2>2, <2>3 DEF PoolInv, Once
    <3>2. \A u \in Threads : LetsGo(u)' => blk'[u] \notin Elems(tasks)
      BY <1>6, <2>2, <2>3 DEF PoolInv, Once
    <3>3. \A c \in Elems(tasks) : mem'[c] = "used" /\ refcnt'[c] = 0
      BY <1>1, <1>6, <2>2, <2>4 DEF PoolInv, Once
    <3> QED
      BY <2>4, <3>1, <3>2, <3>3 DEF PoolInv, Once
  <2>9. Counted'
    <3> SUFFICES ASSUME NEW c \in Blocks
                 PROVE  /\ mem'[c] # "used" => Holders(c)' = {}
                        /\ mem'[c] = "used" =>
                             /\ refcnt'[c] = Cardinality(Holders(c)')
                             /\ refcnt'[c] = 0 => \/ c \in Elems(tasks)'
                                                  \/ \E u \in Threads : LetsGo(u)' /\ blk'[u] = c
      BY DEF Counted
    <3>1. CASE c = b
      BY <1>1, <1>4, <1>5, <1>9, <2>2, <2>3, <3>1
    <3>2. CASE c # b
      <4>1. \A u \in Threads : LetsGo(u) => LetsGo(u)' /\ blk'[u] = blk[u]
        BY <2>3
      <4> QED
        BY <1>1, <1>3, <2>2, <2>4, <3>2, <4>1 DEF PoolInv, Counted
    <3> QED
      BY <3>1, <3>2
  <2> QED
    BY <2>5, <2>6, <2>7, <2>8, <2>9 DEF PoolInv
<1> QED
  BY <1>8, <1>9

\* The pool is destroyed: what was cached goes back to malloc.
LEMMA StepDetach ==
  ASSUME PoolInv, Guarded', Detach
  PROVE  PoolInv'
<1> USE DEF poolVars, blockVars, threadVars
<1>1. /\ UNCHANGED <<refcnt, hold, tasks, at, blk, head>> /\ free' = <<>> /\ count' = 0
      /\ mem' = [b \in Blocks |-> IF mem[b] = "cached" THEN "libc" ELSE mem[b]]
      /\ \A t \in Threads : at[t] = "idle"
  BY DEF Detach, PoolDestroyed, Idle
<1>2. \A b \in Blocks : /\ mem'[b] \in {"libc", "used", "cached"}
                        /\ (mem'[b] = "used") = (mem[b] = "used")
  BY <1>1 DEF PoolInv, Typed
<1>3. mem' \in [Blocks -> {"libc", "used", "cached"}]
  BY <1>1, <1>2
<1>4. Typed' /\ FreeOK'
  BY <1>1, <1>3 DEF PoolInv, Typed, FreeOK, Elems, Distinct
<1>5. \A t \in Threads : ~LetsGo(t) /\ ~LetsGo(t)'
  BY <1>1 DEF LetsGo
<1>6. Working'
  BY <1>1, <1>5 DEF Working
<1>7. Elems(tasks)' = Elems(tasks) /\ Elems(tasks) \subseteq Blocks /\ Distinct(tasks)' = Distinct(tasks)
  BY <1>1 DEF Elems, Distinct, PoolInv, Typed
<1>8. Once'
  BY <1>1, <1>2, <1>5, <1>7 DEF PoolInv, Once
<1>9. \A b \in Blocks : Holders(b)' = Holders(b)
  BY <1>1 DEF Holders
<1>10. Counted'
  BY <1>1, <1>2, <1>5, <1>7, <1>9 DEF PoolInv, Counted
<1> QED
  BY <1>4, <1>6, <1>8, <1>10 DEF PoolInv

\* A thread loads the addresses of blocks only.
LEMMA LoadsBlocks ==
  ASSUME ptr \in [Threads -> Blocks \cup {None}], [Next]_vars
  PROVE  ptr' \in [Threads -> Blocks \cup {None}]
<1> USE DEF poolVars, blockVars, threadVars
<1>1. ASSUME NEW t \in Threads, Reads(t) \/ \E b \in Blocks : Load(t, b)
      PROVE  ptr' \in [Threads -> Blocks \cup {None}]
  BY <1>1 DEF Reads, TryRef, TryRefStale, Load
<1>2. ASSUME NEW t \in Threads, Releasing(t) \/ AcquireHit(t)
      PROVE  ptr' = ptr
  BY <1>2 DEF Releasing, Release, ReleaseDrop, ReleaseCache, ReleasePush, Defer, AcquirePop, AcquireHit
<1>3. ASSUME NEW t \in Threads, NEW b \in Blocks,
             \/ Unref(t, b) \/ TakeOver(b)
             \/ \E oversize \in BOOLEAN : AcquireMalloc(t, b, oversize)
             \/ \E u \in Threads \ {t} : Share(t, u, b)
      PROVE  ptr' = ptr
  BY <1>3 DEF Unref, TakeOver, AcquireMalloc, Share
<1>4. CASE RunDeferred \/ Start \/ Stop \/ Detach \/ DestroyPoller \/ Over \/ UNCHANGED vars
  BY <1>4 DEF RunDeferred, Start, Stop, Detach, DestroyPoller, Over, vars
<1>5. Loop \in Threads
  BY DEF Threads
<1> QED
  BY <1>1, <1>2, <1>3, <1>4, <1>5 DEF Next

LEMMA PoolStep ==
  ASSUME PoolInv, ptr \in [Threads -> Blocks \cup {None}], [Next]_vars
  PROVE  PoolInv'
<1>0. Guarded'
  BY GuardedStep DEF PoolInv, Typed
<1>1. ASSUME NEW t \in Threads, Releasing(t) \/ AcquireHit(t)
      PROVE  PoolInv'
  <2>1. ASSUME NEW posted \in BOOLEAN, Defer(t, posted)
        PROVE  PoolInv'
    <3>1. Defer(t, TRUE) \/ Defer(t, FALSE)
      BY <2>1
    <3> QED
      BY <1>0, <3>1, StepDefer, StepDrop
  <2> QED
    BY <1>0, <1>1, <2>1, StepsIn, StepPop, StepPush, StepDrop, StepRelease DEF Releasing
<1>2. ASSUME NEW t \in Threads, NEW b \in Blocks,
             \/ Unref(t, b) \/ Load(t, b) \/ TakeOver(b)
             \/ \E oversize \in BOOLEAN : AcquireMalloc(t, b, oversize)
             \/ \E u \in Threads \ {t} : Share(t, u, b)
      PROVE  PoolInv'
  <2>1. CASE Load(t, b)
    BY <1>0, <2>1, PoolStays DEF Load, poolVars, blockVars
  <2> QED
    BY <1>0, <1>2, <2>1, StepUnref, StepRef, StepTakeOver, StepMalloc
<1>3. CASE RunDeferred \/ Detach
  BY <1>0, <1>3, StepDeferred, StepDetach
<1>4. CASE Start \/ Stop \/ DestroyPoller \/ Over \/ UNCHANGED vars
  BY <1>0, <1>4, PoolStays DEF Start, Stop, DestroyPoller, Over, vars, poolVars, blockVars, threadVars
<1>5. Loop \in Threads
  BY DEF Threads
<1>6. ASSUME NEW t \in Threads, Reads(t)
      PROVE  PoolInv'
  BY <1>0, <1>6, StepReads
<1> QED
  BY <1>1, <1>2, <1>3, <1>4, <1>5, <1>6 DEF Next

\* Every block is in one place, whatever threads refer to it, let go of it, post it to the
\* owner and try for a reference with an address loaded earlier, and the counter of a buffer
\* is the number of threads that refer to it; up to the moment when a try_ref writes into a
\* block that is no buffer any more.
THEOREM BlocksHaveOneHome == Spec => []SingleHome
<1>1. Init => PoolInv
  <2> SUFFICES ASSUME Init PROVE PoolInv
    OBVIOUS
  <2>1. Typed
    BY DEF Init, PoolInit, Typed
  <2>2. Guarded
    BY DEF Init, PoolInit, Guarded, Inside
  <2>3. FreeOK /\ Working /\ Once
    BY DEF Init, PoolInit, FreeOK, Elems, Distinct, Working, Once, LetsGo
  <2>4. Counted
    BY DEF Init, Counted, Holders
  <2> QED
    BY <2>1, <2>2, <2>3, <2>4 DEF PoolInv
<1> DEFINE Inv == PoolInv /\ ptr \in [Threads -> Blocks \cup {None}]
<1>2. Inv /\ [Next]_vars => Inv'
  BY PoolStep, LoadsBlocks
<1>5. Init => Inv
  BY <1>1 DEF Init
<1>3. PoolInv => SingleHome
  <2> SUFFICES ASSUME PoolInv PROVE SingleHome
    OBVIOUS
  <2>1. InFree = Elems(free) /\ InTasks = Elems(tasks)
    BY DEF InFree, InTasks, Elems
  <2>2. \A b : b \in Dying <=> b \in Elems(tasks) \/ \E t \in Threads : LetsGo(t) /\ blk[t] = b
    BY <2>1 DEF Dying, LetsGo
  <2>3. ASSUME NEW b \in Blocks, mem[b] # "used"
        PROVE  b \notin Dying /\ \A t \in Threads : b \notin hold[t]
    <3>1. Holders(b) = {}
      BY <2>3 DEF PoolInv, Counted
    <3>2. \A t \in Threads : b \notin hold[t]
      BY <3>1 DEF Holders
    <3>3. b \notin Dying
      BY <2>2, <2>3, NotDying
    <3> QED
      BY <3>2, <3>3
  <2>4. ASSUME NEW b \in Blocks, mem[b] = "used"
        PROVE  /\ refcnt[b] = Cardinality({t \in Threads : b \in hold[t]})
               /\ (refcnt[b] = 0) <=> (b \in Dying)
    <3>1. refcnt[b] = Cardinality({t \in Threads : b \in hold[t]})
      BY <2>4 DEF PoolInv, Counted, Holders
    <3>2. refcnt[b] = 0 => b \in Dying
      BY <2>2, <2>4 DEF PoolInv, Counted
    <3>3. b \in Dying => refcnt[b] = 0
      BY <2>2, NotDying
    <3> QED
      BY <3>1, <3>2, <3>3
  <2>5. (\A b \in InFree : mem[b] = "cached") /\ count = Len(free)
    BY <2>1 DEF PoolInv, FreeOK
  <2>6. /\ \A i, j \in 1 .. Len(free) : free[i] = free[j] => i = j
        /\ \A i, j \in 1 .. Len(tasks) : tasks[i] = tasks[j] => i = j
    BY DEF PoolInv, FreeOK, Once, Distinct
  <2> QED
    BY <2>3, <2>4, <2>5, <2>6 DEF SingleHome
<1>6. Inv => SingleHome
  BY <1>3
<1> HIDE DEF Inv
<1>4. Spec => []Inv
  BY <1>2, <1>5, PTL DEF Spec
<1> QED
  BY <1>4, <1>6, PTL
=============================================================================
