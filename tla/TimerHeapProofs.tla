-------------------------- MODULE TimerHeapProofs ---------------------------
(***************************************************************************)
(* Proofs about TimerHeap, for any set of timers and any deadlines: every  *)
(* timer knows its place, and the array implements TimerSet.               *)
(***************************************************************************)
EXTENDS TimerHeap, SequenceTheorems, WellFoundedInduction, TLAPS

-----------------------------------------------------------------------------
(* Keys in a tree: place p has the children 2 * p and 2 * p + 1            *)

\* What holds for 0 and goes on from each number to the next holds for all.
LEMMA Counting ==
  ASSUME NEW S, 0 \in S, \A n \in Nat : n \in S => n + 1 \in S
  PROVE  Nat \subseteq S
<1> DEFINE R == {ss \in Nat \X Nat : ss[1] < ss[2]}
           T == Nat \ S
<1>1. IsWellFoundedOn(R, Nat)
  BY NatLessThanWellFounded, Zenon DEF OpToRel
<1> HIDE DEF R
<1>2. ASSUME T # {} PROVE FALSE
  <2>1. PICK m \in T : \A y \in T : ~(<<y, m>> \in R)
    BY <1>1, <1>2, WFMin
  <2>2. m \in Nat /\ m \notin S /\ m # 0
    BY <2>1
  <2>3. m - 1 \in Nat /\ m - 1 < m /\ (m - 1) + 1 = m
    BY <2>2
  <2>4. <<m - 1, m>> \in R
    BY <2>2, <2>3 DEF R
  <2>5. m - 1 \in S
    BY <2>1, <2>3, <2>4
  <2> QED
    BY <2>2, <2>3, <2>5
<1> QED
  BY <1>2

Child(p, c) == c = 2 * p \/ c = 2 * p + 1

Ordered(k, n) == \A p, c \in 1 .. n : Child(p, c) => k[p] <= k[c]

\* In order but for the key at place i, whose parent and children are in order all the same.
Hole(k, n, i) ==
  /\ \A p, c \in 1 .. n : Child(p, c) /\ p # i /\ c # i => k[p] <= k[c]
  /\ \A p, c \in 1 .. n : Child(p, i) /\ Child(i, c) => k[p] <= k[c]

\* The key at place i is not too late for its children, not too early for its parent.
AboveOK(k, n, i) == \A c \in 1 .. n : Child(i, c) => k[i] <= k[c]
BelowOK(k, n, i) == \A p \in 1 .. n : Child(p, i) => k[p] <= k[i]

LEMMA OrderedHole ==
  ASSUME NEW n \in Nat, NEW k \in [1 .. n -> Nat], NEW i \in 1 .. n, Ordered(k, n)
  PROVE  Hole(k, n, i) /\ AboveOK(k, n, i) /\ BelowOK(k, n, i)
BY DEF Ordered, Hole, AboveOK, BelowOK

LEMMA HoleFilled ==
  ASSUME NEW n \in Nat, NEW k \in [1 .. n -> Nat], NEW i \in 1 .. n, Hole(k, n, i),
         AboveOK(k, n, i), BelowOK(k, n, i)
  PROVE  Ordered(k, n)
BY DEF Ordered, Hole, AboveOK, BelowOK

Exchanged(k, i, j) == [k EXCEPT ![i] = k[j], ![j] = k[i]]

\* A key earlier than its parent's changes places with it: now the parent's place is the one
\* whose key may be too early.
LEMMA RiseStep ==
  ASSUME NEW n \in Nat, NEW k \in [1 .. n -> Nat], NEW i \in 1 .. n, NEW p \in 1 .. n, Child(p, i),
         Hole(k, n, i), AboveOK(k, n, i), k[i] < k[p]
  PROVE  LET g == Exchanged(k, p, i)
         IN  Hole(g, n, p) /\ AboveOK(g, n, p)
<1>1. PICK g : g = Exchanged(k, p, i)
  OBVIOUS
<1>2. p # i /\ ~Child(i, p)
  BY DEF Child
<1>3. /\ g \in [1 .. n -> Nat] /\ g[p] = k[i] /\ g[i] = k[p]
      /\ \A x \in 1 .. n : x # p /\ x # i => g[x] = k[x]
  BY <1>1, <1>2 DEF Exchanged
<1>4. \A x, c \in 1 .. n : Child(x, c) => x # c /\ (c = i => x = p)
  BY DEF Child
<1>5. \A c \in 1 .. n : Child(p, c) => k[p] <= k[c] \/ c = i
  BY <1>2, <1>4 DEF Hole
<1>6. \A x \in 1 .. n : Child(x, p) => k[x] <= k[p]
  BY <1>2, <1>4 DEF Hole
<1>7. \A c \in 1 .. n : Child(i, c) => k[p] <= k[c]
  BY DEF Hole
<1>8. AboveOK(g, n, p)
  <2> SUFFICES ASSUME NEW c \in 1 .. n, Child(p, c) PROVE g[p] <= g[c]
    BY DEF AboveOK
  <2>1. CASE c = i
    BY <1>3, <2>1
  <2>2. CASE c # i
    <3>1. g[c] = k[c] /\ k[p] <= k[c]
      BY <1>3, <1>4, <1>5, <2>2
    <3> QED
      BY <1>3, <3>1
  <2> QED
    BY <2>1, <2>2
<1>9. ASSUME NEW x \in 1 .. n, NEW c \in 1 .. n, Child(x, c), x # p, c # p PROVE g[x] <= g[c]
  <2>1. CASE x = i
    <3>1. c # i /\ g[c] = k[c] /\ k[p] <= k[c]
      BY <1>3, <1>4, <1>7, <1>9, <2>1
    <3> QED
      BY <1>3, <2>1, <3>1
  <2>2. CASE x # i
    <3>1. c # i
      BY <1>4, <1>9
    <3>2. g[x] = k[x] /\ g[c] = k[c] /\ k[x] <= k[c]
      BY <1>3, <1>9, <2>2, <3>1 DEF Hole
    <3> QED
      BY <3>2
  <2> QED
    BY <2>1, <2>2
<1>10. ASSUME NEW x \in 1 .. n, NEW c \in 1 .. n, Child(x, p), Child(p, c) PROVE g[x] <= g[c]
  <2>1. x # p /\ x # i
    BY <1>2, <1>4, <1>10
  <2>2. g[x] = k[x] /\ k[x] <= k[p]
    BY <1>3, <1>6, <1>10, <2>1
  <2>3. CASE c = i
    BY <1>3, <2>2, <2>3
  <2>4. CASE c # i
    <3>1. g[c] = k[c] /\ k[p] <= k[c]
      BY <1>3, <1>4, <1>5, <1>10, <2>4
    <3> QED
      BY <2>2, <3>1
  <2> QED
    BY <2>3, <2>4
<1> QED
  BY <1>1, <1>8, <1>9, <1>10 DEF Hole

\* A key later than a child's changes places with the earliest child: now the child's place is
\* the one whose key may be too late.
LEMMA SinkStep ==
  ASSUME NEW n \in Nat, NEW k \in [1 .. n -> Nat], NEW i \in 1 .. n, NEW m \in 1 .. n, Child(i, m),
         Hole(k, n, i), BelowOK(k, n, i), k[m] < k[i],
         \A c \in 1 .. n : Child(i, c) => k[m] <= k[c]
  PROVE  LET g == Exchanged(k, i, m)
         IN  Hole(g, n, m) /\ BelowOK(g, n, m)
<1>1. PICK g : g = Exchanged(k, i, m)
  OBVIOUS
<1>2. m # i /\ ~Child(m, i)
  BY DEF Child
<1>3. /\ g \in [1 .. n -> Nat] /\ g[m] = k[i] /\ g[i] = k[m]
      /\ \A x \in 1 .. n : x # m /\ x # i => g[x] = k[x]
  BY <1>1, <1>2 DEF Exchanged
<1>4. \A x, c \in 1 .. n : Child(x, c) => x # c /\ (c = m => x = i)
  BY DEF Child
<1>5. \A x \in 1 .. n : Child(x, i) => k[x] <= k[m]
  BY DEF Hole
<1>6. \A c \in 1 .. n : Child(m, c) => k[m] <= k[c] /\ c # i /\ c # m
  BY <1>2, <1>4 DEF Hole
<1>7. BelowOK(g, n, m)
  <2> SUFFICES ASSUME NEW x \in 1 .. n, Child(x, m) PROVE g[x] <= g[m]
    BY DEF BelowOK
  <2>1. x = i
    BY <1>4
  <2> QED
    BY <1>3, <2>1
<1>8. ASSUME NEW x \in 1 .. n, NEW c \in 1 .. n, Child(x, c), x # m, c # m PROVE g[x] <= g[c]
  <2>1. CASE x = i
    <3>1. c # i /\ g[c] = k[c] /\ k[m] <= k[c]
      BY <1>3, <1>4, <1>8, <2>1
    <3> QED
      BY <1>3, <2>1, <3>1
  <2>2. CASE c = i
    <3>1. x # i /\ g[x] = k[x] /\ k[x] <= k[m]
      BY <1>3, <1>4, <1>5, <1>8, <2>2
    <3> QED
      BY <1>3, <2>2, <3>1
  <2>3. CASE x # i /\ c # i
    <3>1. g[x] = k[x] /\ g[c] = k[c] /\ k[x] <= k[c]
      BY <1>3, <1>8, <2>3 DEF Hole
    <3> QED
      BY <3>1
  <2> QED
    BY <2>1, <2>2, <2>3
<1>9. ASSUME NEW x \in 1 .. n, NEW c \in 1 .. n, Child(x, m), Child(m, c) PROVE g[x] <= g[c]
  <2>1. x = i /\ g[c] = k[c] /\ k[m] <= k[c]
    BY <1>3, <1>4, <1>6, <1>9
  <2> QED
    BY <1>3, <2>1
<1> QED
  BY <1>1, <1>7, <1>8, <1>9 DEF Hole

\* The first key is the earliest.
LEMMA FirstIsLeast ==
  ASSUME NEW n \in Nat, NEW k \in [1 .. n -> Nat], Ordered(k, n)
  PROVE  \A i \in 1 .. n : k[1] <= k[i]
<1> DEFINE S == {m \in Nat : \A i \in 1 .. n : i <= m => k[1] <= k[i]}
<1>1. 0 \in S
  OBVIOUS
<1>2. ASSUME NEW m \in Nat, m \in S PROVE m + 1 \in S
  <2> SUFFICES ASSUME NEW i \in 1 .. n, i <= m + 1 PROVE k[1] <= k[i]
    OBVIOUS
  <2>1. CASE i <= m \/ i = 1
    BY <1>2, <2>1
  <2>2. CASE ~(i <= m) /\ i # 1
    <3>1. PICK p \in 1 .. n : p <= m /\ Child(p, i)
      <4>1. i \div 2 \in 1 .. n /\ i \div 2 <= m /\ (i = 2 * (i \div 2) \/ i = 2 * (i \div 2) + 1)
        BY <2>2
      <4> QED
        BY <4>1 DEF Child
    <3>2. k[1] <= k[p] /\ k[p] <= k[i]
      BY <1>2, <3>1 DEF Ordered
    <3>3. k[1] \in Nat /\ k[p] \in Nat /\ k[i] \in Nat
      BY <3>1
    <3> QED
      BY <3>2, <3>3
  <2> QED
    BY <2>1, <2>2
<1> HIDE DEF S
<1>3. Nat \subseteq S
  BY <1>1, <1>2, Counting
<1> QED
  BY <1>3 DEF S

-----------------------------------------------------------------------------
(* The heap as a value                                                     *)

Heaps == [heap : Seq(Timers), index : [Timers -> Nat], dl : [Timers -> Nat]]

\* Every timer in the array knows its place, and every place known is one in the array.
Sound(h) ==
  /\ h \in Heaps
  /\ \A i \in 1 .. Len(h.heap) : h.index[h.heap[i]] = i
  /\ \A t \in Timers : h.index[t] # 0 => h.index[t] \in 1 .. Len(h.heap) /\ h.heap[h.index[t]] = t

Size(h) == Len(h.heap)
Keys(h) == [i \in 1 .. Len(h.heap) |-> h.dl[h.heap[i]]]
In(h) == {t \in Timers : h.index[t] # 0}

\* The same timers with the same deadlines, in whatever order.
Permuted(g, h) == Size(g) = Size(h) /\ g.dl = h.dl /\ In(g) = In(h)

LEMMA HeapIs ==
  ASSUME NEW h, Sound(h)
  PROVE  /\ h = [heap |-> h.heap, index |-> h.index, dl |-> h.dl]
         /\ h.heap \in Seq(Timers) /\ Len(h.heap) \in Nat /\ \A i \in 1 .. Len(h.heap) : h.heap[i] \in Timers
         /\ h.index \in [Timers -> Nat] /\ h.dl \in [Timers -> Nat]
         /\ Size(h) = Len(h.heap) /\ Keys(h) \in [1 .. Size(h) -> Nat]
         /\ \A i \in 1 .. Len(h.heap) : Keys(h)[i] = h.dl[h.heap[i]] /\ Key(h, i) = Keys(h)[i]
<1>1. /\ h = [heap |-> h.heap, index |-> h.index, dl |-> h.dl]
      /\ h.heap \in Seq(Timers) /\ h.index \in [Timers -> Nat] /\ h.dl \in [Timers -> Nat]
  BY DEF Sound, Heaps
<1>2. Len(h.heap) \in Nat /\ \A i \in 1 .. Len(h.heap) : h.heap[i] \in Timers
  BY <1>1
<1>3. /\ Keys(h) \in [1 .. Len(h.heap) -> Nat]
      /\ \A i \in 1 .. Len(h.heap) : Keys(h)[i] = h.dl[h.heap[i]] /\ Key(h, i) = Keys(h)[i]
  BY <1>1, <1>2 DEF Keys, Key
<1> QED
  BY <1>1, <1>2, <1>3 DEF Size

LEMMA ExchangedSeq ==
  ASSUME NEW T, NEW q \in Seq(T), NEW i \in 1 .. Len(q), NEW j \in 1 .. Len(q), i # j
  PROVE  /\ Exchanged(q, i, j) \in Seq(T) /\ Len(Exchanged(q, i, j)) = Len(q)
         /\ Exchanged(q, i, j)[i] = q[j] /\ Exchanged(q, i, j)[j] = q[i]
         /\ \A x \in 1 .. Len(q) : x # i /\ x # j => Exchanged(q, i, j)[x] = q[x]
<1>1. PICK s : s = [q EXCEPT ![i] = q[j]]
  OBVIOUS
<1>2. /\ s \in Seq(T) /\ Len(s) = Len(q) /\ s[i] = q[j]
      /\ \A x \in 1 .. Len(q) : x # i => s[x] = q[x]
  BY <1>1
<1>3. PICK r : r = [s EXCEPT ![j] = q[i]]
  OBVIOUS
<1>4. /\ r \in Seq(T) /\ Len(r) = Len(q) /\ r[j] = q[i]
      /\ \A x \in 1 .. Len(q) : x # j => r[x] = s[x]
  BY <1>2, <1>3
<1>5. r = Exchanged(q, i, j)
  BY <1>1, <1>3 DEF Exchanged
<1> QED
  BY <1>2, <1>4, <1>5

LEMMA SwapIs ==
  ASSUME NEW h, Sound(h), NEW i \in 1 .. Size(h), NEW j \in 1 .. Size(h), i # j
  PROVE  /\ Sound(Swap(h, i, j)) /\ Permuted(Swap(h, i, j), h)
         /\ Keys(Swap(h, i, j)) = Exchanged(Keys(h), i, j)
<1> DEFINE n == Len(h.heap)
<1>1. /\ h = [heap |-> h.heap, index |-> h.index, dl |-> h.dl]
      /\ h.heap \in Seq(Timers) /\ n \in Nat /\ \A x \in 1 .. n : h.heap[x] \in Timers
      /\ h.index \in [Timers -> Nat] /\ h.dl \in [Timers -> Nat]
      /\ Size(h) = n /\ Keys(h) \in [1 .. n -> Nat]
      /\ \A x \in 1 .. n : Keys(h)[x] = h.dl[h.heap[x]]
  BY HeapIs
<1>2. i \in 1 .. n /\ j \in 1 .. n
  BY <1>1
<1>3. PICK a \in Timers, b \in Timers : a = h.heap[i] /\ b = h.heap[j]
  BY <1>1, <1>2
<1>4. h.index[a] = i /\ h.index[b] = j /\ a # b
  BY <1>2, <1>3 DEF Sound
<1>5. PICK g : g = Swap(h, i, j)
  OBVIOUS
<1>6. /\ g = [heap |-> g.heap, index |-> g.index, dl |-> g.dl]
      /\ g.heap = Exchanged(h.heap, i, j)
      /\ g.index = [h.index EXCEPT ![b] = i, ![a] = j] /\ g.dl = h.dl
  <2>1. PICK q, x, d : h = [heap |-> q, index |-> x, dl |-> d]
    BY <1>1
  <2>2. h.heap = q /\ h.index = x /\ h.dl = d
    BY <2>1
  <2>3. g = [h EXCEPT !.heap[i] = b, !.heap[j] = a, !.index[b] = i, !.index[a] = j]
    BY <1>3, <1>5 DEF Swap
  <2>4. g = [heap |-> [q EXCEPT ![i] = b, ![j] = a], index |-> [x EXCEPT ![b] = i, ![a] = j], dl |-> d]
    BY <2>1, <2>3
  <2> QED
    BY <1>3, <2>2, <2>4 DEF Exchanged
<1>7. /\ g.heap \in Seq(Timers) /\ Len(g.heap) = n /\ g.heap[i] = b /\ g.heap[j] = a
      /\ \A x \in 1 .. n : x # i /\ x # j => g.heap[x] = h.heap[x]
  <2>1. PICK q, e : q = h.heap /\ e = Exchanged(q, i, j)
    OBVIOUS
  <2>2. q \in Seq(Timers) /\ i \in 1 .. Len(q) /\ j \in 1 .. Len(q)
    BY <1>1, <1>2, <2>1
  <2>3. /\ e \in Seq(Timers) /\ Len(e) = Len(q) /\ e[i] = q[j] /\ e[j] = q[i]
        /\ \A x \in 1 .. Len(q) : x # i /\ x # j => e[x] = q[x]
    <3>1. Exchanged(q, i, j) \in Seq(Timers) /\ Len(Exchanged(q, i, j)) = Len(q)
      BY <2>2, ExchangedSeq
    <3>2. Exchanged(q, i, j)[i] = q[j] /\ Exchanged(q, i, j)[j] = q[i]
      BY <2>2, ExchangedSeq
    <3>3. \A x \in 1 .. Len(q) : x # i /\ x # j => Exchanged(q, i, j)[x] = q[x]
      BY <2>2, ExchangedSeq
    <3> QED
      BY <2>1, <3>1, <3>2, <3>3
  <2>4. g.heap = e
    BY <1>6, <2>1
  <2> QED
    BY <1>3, <2>1, <2>3, <2>4
<1>8. /\ g.index \in [Timers -> Nat] /\ g.index[b] = i /\ g.index[a] = j
      /\ \A t \in Timers : t # a /\ t # b => g.index[t] = h.index[t]
  <2>1. PICK x, y : x = h.index /\ y = g.index
    OBVIOUS
  <2>2. x \in [Timers -> Nat] /\ y = [x EXCEPT ![b] = i, ![a] = j]
    BY <1>1, <1>6, <2>1
  <2>3. i \in Nat /\ j \in Nat
    <3>1. n \in Nat
      BY <1>1
    <3> HIDE DEF n
    <3> QED
      BY <1>2, <3>1
  <2>4. y \in [Timers -> Nat] /\ y[b] = i /\ y[a] = j /\ \A t \in Timers : t # a /\ t # b => y[t] = x[t]
    BY <1>4, <2>2, <2>3
  <2> QED
    BY <2>1, <2>4
<1>9. g \in Heaps
  BY <1>1, <1>6, <1>7, <1>8 DEF Heaps
<1>10. ASSUME NEW x \in 1 .. n PROVE g.index[g.heap[x]] = x
  <2>1. CASE x = i \/ x = j
    BY <1>7, <1>8, <2>1
  <2>2. CASE x # i /\ x # j
    <3>1. h.heap[x] \in Timers /\ h.index[h.heap[x]] = x
      BY <1>1 DEF Sound
    <3>2. h.heap[x] # a /\ h.heap[x] # b
      BY <1>4, <2>2, <3>1
    <3> QED
      BY <1>7, <1>8, <2>2, <3>1, <3>2
  <2> QED
    BY <2>1, <2>2
<1>11. ASSUME NEW t \in Timers PROVE /\ g.index[t] # 0 => g.index[t] \in 1 .. n /\ g.heap[g.index[t]] = t
                                     /\ (g.index[t] # 0) = (h.index[t] # 0)
  <2>1. CASE t = a \/ t = b
    BY <1>2, <1>4, <1>7, <1>8, <2>1
  <2>2. CASE t # a /\ t # b
    <3>1. g.index[t] = h.index[t]
      BY <1>8, <2>2
    <3>2. ASSUME h.index[t] # 0 PROVE h.index[t] \in 1 .. n /\ g.heap[h.index[t]] = t
      <4>1. h.index[t] \in 1 .. n /\ h.heap[h.index[t]] = t
        BY <3>2 DEF Sound
      <4>2. h.index[t] # i /\ h.index[t] # j
        BY <1>3, <2>2, <4>1
      <4> QED
        BY <1>7, <4>1, <4>2
    <3> QED
      BY <3>1, <3>2
  <2> QED
    BY <2>1, <2>2
<1>12. Sound(g)
  BY <1>7, <1>9, <1>10, <1>11 DEF Sound
<1>13. Permuted(g, h)
  BY <1>6, <1>7, <1>11 DEF Permuted, Size, In
<1>14. Keys(g) = Exchanged(Keys(h), i, j)
  <2>1. \A x \in 1 .. n : Exchanged(Keys(h), i, j)[x] = h.dl[g.heap[x]]
    <3> SUFFICES ASSUME NEW x \in 1 .. n PROVE Exchanged(Keys(h), i, j)[x] = h.dl[g.heap[x]]
      OBVIOUS
    <3>1. Exchanged(Keys(h), i, j)[x] = IF x = j THEN Keys(h)[i] ELSE IF x = i THEN Keys(h)[j] ELSE Keys(h)[x]
      BY <1>1, <1>2 DEF Exchanged
    <3>2. Keys(h)[i] = h.dl[a] /\ Keys(h)[j] = h.dl[b] /\ Keys(h)[x] = h.dl[h.heap[x]]
      BY <1>1, <1>2, <1>3
    <3> QED
      BY <1>7, <3>1, <3>2
  <2>2. Exchanged(Keys(h), i, j) = [x \in 1 .. n |-> Exchanged(Keys(h), i, j)[x]]
    BY <1>1 DEF Exchanged
  <2>3. Keys(g) = [x \in 1 .. n |-> h.dl[g.heap[x]]]
    BY <1>6, <1>7 DEF Keys
  <2> QED
    BY <2>1, <2>2, <2>3
<1> QED
  BY <1>5, <1>12, <1>13, <1>14

-----------------------------------------------------------------------------
(* The loops: each is a run of turns                                       *)

UpRun(run, s, n) == run = [k \in 0 .. n |-> IF k = 0 THEN s ELSE Up(run[k - 1])]
DownRun(run, s, n) == run = [k \in 0 .. n |-> IF k = 0 THEN s ELSE Down(run[k - 1])]

LEMMA UpRuns ==
  ASSUME NEW s, NEW n \in Nat
  PROVE  \E run : UpRun(run, s, n)
<1> DEFINE S == {m \in Nat : \E run : UpRun(run, s, m)}
<1>1. 0 \in S
  <2>1. PICK run : run = [k \in 0 .. 0 |-> s]
    OBVIOUS
  <2>2. run = [k \in 0 .. 0 |-> IF k = 0 THEN s ELSE Up(run[k - 1])]
    BY <2>1
  <2> QED
    BY <2>2 DEF UpRun
<1>2. ASSUME NEW m \in Nat, m \in S PROVE m + 1 \in S
  <2>1. PICK run : UpRun(run, s, m)
    BY <1>2
  <2>2. \A k \in 0 .. m : run[k] = IF k = 0 THEN s ELSE Up(run[k - 1])
    BY <2>1 DEF UpRun
  <2>3. PICK e : e = [k \in 0 .. m + 1 |-> IF k = m + 1 THEN Up(run[m]) ELSE run[k]]
    OBVIOUS
  <2>4. ASSUME NEW k \in 0 .. m + 1 PROVE e[k] = IF k = 0 THEN s ELSE Up(e[k - 1])
    <3>1. CASE k = m + 1
      <4>1. k # 0 /\ k - 1 = m /\ m \in 0 .. m + 1 /\ m # m + 1
        BY <3>1
      <4> QED
        BY <2>3, <3>1, <4>1
    <3>2. CASE k # m + 1
      <4>1. k \in 0 .. m /\ (k # 0 => k - 1 \in 0 .. m + 1 /\ k - 1 # m + 1)
        BY <3>2
      <4>2. e[k] = run[k] /\ (k # 0 => e[k - 1] = run[k - 1])
        BY <2>3, <3>2, <4>1
      <4> QED
        BY <2>2, <4>1, <4>2
    <3> QED
      BY <3>1, <3>2
  <2>5. e = [k \in 0 .. m + 1 |-> e[k]]
    BY <2>3
  <2>6. UpRun(e, s, m + 1)
    BY <2>4, <2>5 DEF UpRun
  <2> QED
    BY <2>6
<1> HIDE DEF S
<1>3. Nat \subseteq S
  BY <1>1, <1>2, Counting
<1> QED
  BY <1>3 DEF S

LEMMA DownRuns ==
  ASSUME NEW s, NEW n \in Nat
  PROVE  \E run : DownRun(run, s, n)
<1> DEFINE S == {m \in Nat : \E run : DownRun(run, s, m)}
<1>1. 0 \in S
  <2>1. PICK run : run = [k \in 0 .. 0 |-> s]
    OBVIOUS
  <2>2. run = [k \in 0 .. 0 |-> IF k = 0 THEN s ELSE Down(run[k - 1])]
    BY <2>1
  <2> QED
    BY <2>2 DEF DownRun
<1>2. ASSUME NEW m \in Nat, m \in S PROVE m + 1 \in S
  <2>1. PICK run : DownRun(run, s, m)
    BY <1>2
  <2>2. \A k \in 0 .. m : run[k] = IF k = 0 THEN s ELSE Down(run[k - 1])
    BY <2>1 DEF DownRun
  <2>3. PICK e : e = [k \in 0 .. m + 1 |-> IF k = m + 1 THEN Down(run[m]) ELSE run[k]]
    OBVIOUS
  <2>4. ASSUME NEW k \in 0 .. m + 1 PROVE e[k] = IF k = 0 THEN s ELSE Down(e[k - 1])
    <3>1. CASE k = m + 1
      <4>1. k # 0 /\ k - 1 = m /\ m \in 0 .. m + 1 /\ m # m + 1
        BY <3>1
      <4> QED
        BY <2>3, <3>1, <4>1
    <3>2. CASE k # m + 1
      <4>1. k \in 0 .. m /\ (k # 0 => k - 1 \in 0 .. m + 1 /\ k - 1 # m + 1)
        BY <3>2
      <4>2. e[k] = run[k] /\ (k # 0 => e[k - 1] = run[k - 1])
        BY <2>3, <3>2, <4>1
      <4> QED
        BY <2>2, <4>1, <4>2
    <3> QED
      BY <3>1, <3>2
  <2>5. e = [k \in 0 .. m + 1 |-> e[k]]
    BY <2>3
  <2>6. DownRun(e, s, m + 1)
    BY <2>4, <2>5 DEF DownRun
  <2> QED
    BY <2>6
<1> HIDE DEF S
<1>3. Nat \subseteq S
  BY <1>1, <1>2, Counting
<1> QED
  BY <1>3 DEF S

\* What the two loops return is the last state of such a run.
LEMMA BubbleUpRun ==
  ASSUME NEW h, NEW i \in Nat
  PROVE  \E run : /\ BubbleUp(h, i) = run[i].h /\ run[0] = [h |-> h, at |-> i]
                  /\ \A k \in 0 .. i : k # 0 => run[k] = Up(run[k - 1])
<1>1. PICK c : c = CHOOSE run : UpRun(run, [h |-> h, at |-> i], i)
  OBVIOUS
<1>2. UpRun(c, [h |-> h, at |-> i], i)
  BY <1>1, UpRuns, Zenon
<1>3. BubbleUp(h, i) = c[i].h
  BY <1>1, Zenon DEF BubbleUp, UpRun
<1>4. \A k \in 0 .. i : c[k] = IF k = 0 THEN [h |-> h, at |-> i] ELSE Up(c[k - 1])
  BY <1>2, Zenon DEF UpRun
<1>5. c[0] = [h |-> h, at |-> i]
  BY <1>4
<1>6. \A k \in 0 .. i : k # 0 => c[k] = Up(c[k - 1])
  BY <1>4, Zenon
<1> QED
  BY <1>3, <1>5, <1>6

LEMMA BubbleDownRun ==
  ASSUME NEW h, NEW i \in Nat, Len(h.heap) \in Nat
  PROVE  \E run : /\ BubbleDown(h, i) = run[Len(h.heap)].h /\ run[0] = [h |-> h, at |-> i]
                  /\ \A k \in 0 .. Len(h.heap) : k # 0 => run[k] = Down(run[k - 1])
<1>1. PICK c : c = CHOOSE run : DownRun(run, [h |-> h, at |-> i], Len(h.heap))
  OBVIOUS
<1>2. DownRun(c, [h |-> h, at |-> i], Len(h.heap))
  BY <1>1, DownRuns, Zenon
<1>3. BubbleDown(h, i) = c[Len(h.heap)].h
  BY <1>1, Zenon DEF BubbleDown, DownRun
<1>4. \A k \in 0 .. Len(h.heap) : c[k] = IF k = 0 THEN [h |-> h, at |-> i] ELSE Down(c[k - 1])
  BY <1>2, Zenon DEF DownRun
<1>5. c[0] = [h |-> h, at |-> i]
  BY <1>4
<1>6. \A k \in 0 .. Len(h.heap) : k # 0 => c[k] = Down(c[k - 1])
  BY <1>4, Zenon
<1> QED
  BY <1>3, <1>5, <1>6

LEMMA PermutedTrans ==
  ASSUME NEW f, NEW g, NEW h, Permuted(f, g), Permuted(g, h)
  PROVE  Permuted(f, h)
BY DEF Permuted

\* A state of timer_heap_bubble_up: only the key at s.at may be too early.  It is over when
\* that key is not.
Rising(s) ==
  /\ Sound(s.h) /\ s.at \in 1 .. Size(s.h)
  /\ Hole(Keys(s.h), Size(s.h), s.at) /\ AboveOK(Keys(s.h), Size(s.h), s.at)
Risen(s) == s.at = 1 \/ Key(s.h, s.at \div 2) <= Key(s.h, s.at)

LEMMA UpTurn ==
  ASSUME NEW s, Rising(s)
  PROVE  /\ Risen(s) => Up(s) = s
         /\ ~Risen(s) => Rising(Up(s)) /\ Permuted(Up(s).h, s.h) /\ Up(s).at < s.at
<1>1. ASSUME Risen(s) PROVE Up(s) = s
  BY <1>1 DEF Up, Risen
<1>2. ASSUME ~Risen(s) PROVE Rising(Up(s)) /\ Permuted(Up(s).h, s.h) /\ Up(s).at < s.at
  <2>1. PICK h, i, n : h = s.h /\ i = s.at /\ n = Size(h)
    OBVIOUS
  <2>2. Sound(h) /\ i \in 1 .. n /\ Hole(Keys(h), n, i) /\ AboveOK(Keys(h), n, i)
    BY <2>1 DEF Rising
  <2>3. /\ n \in Nat /\ Keys(h) \in [1 .. n -> Nat] /\ \A x \in 1 .. n : Key(h, x) = Keys(h)[x]
    BY <2>1, <2>2, HeapIs
  <2>4. i # 1 /\ ~(Key(h, i \div 2) <= Key(h, i))
    BY <1>2, <2>1 DEF Risen
  <2>5. PICK p \in 1 .. n : p = i \div 2 /\ p < i /\ Child(p, i)
    <3>1. i \div 2 \in 1 .. n /\ i \div 2 < i /\ (i = 2 * (i \div 2) \/ i = 2 * (i \div 2) + 1)
      BY <2>2, <2>3, <2>4
    <3> QED
      BY <3>1 DEF Child
  <2>6. Keys(h)[i] < Keys(h)[p]
    <3>1. ~(Keys(h)[p] <= Keys(h)[i])
      BY <2>2, <2>3, <2>4, <2>5
    <3>2. Keys(h)[p] \in Nat /\ Keys(h)[i] \in Nat
      BY <2>2, <2>3
    <3> QED
      BY <3>1, <3>2
  <2>7. PICK g : g = Swap(h, p, i)
    OBVIOUS
  <2>8. Up(s) = [h |-> g, at |-> p]
    BY <2>1, <2>4, <2>5, <2>7 DEF Up
  <2>9. Sound(g) /\ Permuted(g, h) /\ Keys(g) = Exchanged(Keys(h), p, i)
    <3>1. p # i
      BY <2>2, <2>3, <2>5
    <3> QED
      BY <2>1, <2>2, <2>5, <2>7, <3>1, SwapIs
  <2>10. Hole(Keys(g), n, p) /\ AboveOK(Keys(g), n, p)
    BY <2>2, <2>3, <2>5, <2>6, <2>9, RiseStep
  <2>11. Size(g) = n
    BY <2>1, <2>9 DEF Permuted
  <2>12. Up(s).h = g /\ Up(s).at = p
    BY <2>8
  <2> QED
    BY <2>1, <2>5, <2>9, <2>10, <2>11, <2>12 DEF Rising
<1> QED
  BY <1>1, <1>2

\* timer_heap_bubble_up puts the heap in order when the key at i is at most too early.
LEMMA BubbleUpIs ==
  ASSUME NEW h, Sound(h), NEW i \in 1 .. Size(h),
         Hole(Keys(h), Size(h), i), AboveOK(Keys(h), Size(h), i)
  PROVE  /\ Sound(BubbleUp(h, i)) /\ Permuted(BubbleUp(h, i), h)
         /\ Ordered(Keys(BubbleUp(h, i)), Size(h))
<1>1. Size(h) \in Nat /\ i \in Nat
  <2>1. Size(h) \in Nat
    BY HeapIs
  <2> QED
    BY <2>1
<1>2. PICK run : /\ BubbleUp(h, i) = run[i].h /\ run[0] = [h |-> h, at |-> i]
                 /\ \A k \in 0 .. i : k # 0 => run[k] = Up(run[k - 1])
  BY <1>1, BubbleUpRun
<1> DEFINE P(k) == /\ Rising(run[k]) /\ Permuted(run[k].h, h)
                   /\ Risen(run[k]) \/ run[k].at + k <= i
           S == {k \in Nat : k <= i => P(k)}
<1>3. 0 \in S
  <2>1. run[0].h = h /\ run[0].at = i
    BY <1>2
  <2>2. Rising(run[0])
    BY <2>1 DEF Rising
  <2>3. Permuted(run[0].h, h)
    BY <2>1 DEF Permuted
  <2>4. run[0].at + 0 <= i
    BY <1>1, <2>1
  <2> QED
    BY <2>2, <2>3, <2>4
<1>4. ASSUME NEW k \in Nat, k \in S PROVE k + 1 \in S
  <2> SUFFICES ASSUME k + 1 <= i PROVE P(k + 1)
    OBVIOUS
  <2>1. k + 1 \in 0 .. i /\ k + 1 # 0 /\ (k + 1) - 1 = k /\ k <= i
    BY <1>1
  <2>2. P(k)
    BY <1>4, <2>1
  <2>3. PICK s, e : s = run[k] /\ e = run[k + 1]
    OBVIOUS
  <2>4. e = Up(s)
    BY <1>2, <2>1, <2>3
  <2>5. Rising(s) /\ Permuted(s.h, h) /\ (Risen(s) \/ s.at + k <= i)
    BY <2>2, <2>3
  <2>6. CASE Risen(s)
    <3>1. e = s
      BY <2>4, <2>5, <2>6, UpTurn
    <3> QED
      BY <2>3, <2>5, <2>6, <3>1
  <2>7. CASE ~Risen(s)
    <3>1. Rising(e) /\ Permuted(e.h, s.h) /\ e.at < s.at
      BY <2>4, <2>5, <2>7, UpTurn
    <3>2. Permuted(e.h, h)
      BY <2>5, <3>1, PermutedTrans
    <3>3. e.at \in Nat /\ s.at \in Nat
      <4>1. Size(e.h) \in Nat /\ Size(s.h) \in Nat
        BY <2>5, <3>1, HeapIs DEF Rising
      <4> QED
        BY <2>5, <3>1, <4>1 DEF Rising
    <3>4. s.at + k <= i
      BY <2>5, <2>7
    <3>5. e.at + (k + 1) <= i
      BY <1>1, <3>1, <3>3, <3>4
    <3> QED
      BY <2>3, <3>1, <3>2, <3>5
  <2> QED
    BY <2>6, <2>7
<1> HIDE DEF S
<1>5. i \in S
  BY <1>1, <1>3, <1>4, Counting
<1>6. P(i)
  <2>1. i <= i
    BY <1>1
  <2> QED
    BY <1>5, <2>1 DEF S
<1>7. PICK s, g, a, n : s = run[i] /\ g = s.h /\ a = s.at /\ n = Size(h)
  OBVIOUS
<1>8. /\ Sound(g) /\ Permuted(g, h) /\ Size(g) = n /\ a \in 1 .. n /\ Hole(Keys(g), n, a)
      /\ AboveOK(Keys(g), n, a)
  BY <1>6, <1>7 DEF Rising, Permuted
<1>9. /\ n \in Nat /\ Keys(g) \in [1 .. n -> Nat] /\ \A x \in 1 .. n : Key(g, x) = Keys(g)[x]
  BY <1>8, HeapIs
<1>10. a = 1 \/ Key(g, a \div 2) <= Key(g, a)
  <2>1. ~(a + i <= i)
    BY <1>1, <1>8, <1>9
  <2> QED
    BY <1>6, <1>7, <2>1 DEF Risen
<1>11. BelowOK(Keys(g), n, a)
  <2> SUFFICES ASSUME NEW p \in 1 .. n, Child(p, a) PROVE Keys(g)[p] <= Keys(g)[a]
    BY DEF BelowOK
  <2>1. a # 1 /\ p = a \div 2
    BY <1>8, <1>9 DEF Child
  <2> QED
    BY <1>8, <1>9, <1>10, <2>1
<1>12. Ordered(Keys(g), n)
  BY <1>8, <1>9, <1>11, HoleFilled
<1> QED
  BY <1>2, <1>7, <1>8, <1>12

\* Smallest(h, i) is i when no child is earlier, and the earliest child otherwise.
LEMMA SmallestIs ==
  ASSUME NEW h, Sound(h), NEW i \in 1 .. Size(h)
  PROVE  /\ Smallest(h, i) = i => AboveOK(Keys(h), Size(h), i)
         /\ AboveOK(Keys(h), Size(h), i) => Smallest(h, i) = i
         /\ Smallest(h, i) # i =>
              /\ Smallest(h, i) \in 1 .. Size(h) /\ Child(i, Smallest(h, i))
              /\ Keys(h)[Smallest(h, i)] < Keys(h)[i]
              /\ \A c \in 1 .. Size(h) : Child(i, c) => Keys(h)[Smallest(h, i)] <= Keys(h)[c]
<1>1. PICK n, k, l, r, m : n = Size(h) /\ k = Keys(h) /\ l = 2 * i /\ r = l + 1 /\ m = Smallest(h, i)
  OBVIOUS
<1>2. n \in Nat /\ n = Len(h.heap) /\ k \in [1 .. n -> Nat] /\ \A x \in 1 .. n : Key(h, x) = k[x]
  BY <1>1, HeapIs
<1>3. i \in 1 .. n /\ l \in Nat /\ r \in Nat /\ l # i /\ r # i /\ l # r /\ 1 <= l /\ 1 <= r
  BY <1>1, <1>2
<1>4. PICK b : b = IF l <= n /\ Key(h, l) < Key(h, i) THEN l ELSE i
  OBVIOUS
<1>5. m = IF r <= n /\ Key(h, r) < Key(h, b) THEN r ELSE b
  BY <1>1, <1>2, <1>4 DEF Smallest
<1>6. b \in 1 .. n /\ b = (IF l <= n /\ k[l] < k[i] THEN l ELSE i)
  BY <1>2, <1>3, <1>4
<1>7. m \in 1 .. n /\ m = (IF r <= n /\ k[r] < k[b] THEN r ELSE b)
  BY <1>2, <1>3, <1>5, <1>6
<1>8. \A c : Child(i, c) <=> (c = l \/ c = r)
  BY <1>1 DEF Child
<1>9. /\ k[i] \in Nat /\ k[b] \in Nat /\ k[m] \in Nat
      /\ l <= n => l \in 1 .. n /\ k[l] \in Nat
      /\ r <= n => r \in 1 .. n /\ k[r] \in Nat
  BY <1>2, <1>3, <1>6, <1>7
<1>10. /\ k[b] <= k[i] /\ (b # i => k[b] < k[i]) /\ (l <= n => k[b] <= k[l])
       /\ k[m] <= k[b] /\ (m # b => k[m] < k[b]) /\ (r <= n => k[m] <= k[r])
  BY <1>6, <1>7, <1>9
<1>11. \A c \in 1 .. n : Child(i, c) => k[m] <= k[c]
  BY <1>2, <1>8, <1>9, <1>10
<1>12. m # i => Child(i, m) /\ k[m] < k[i]
  BY <1>3, <1>6, <1>7, <1>8, <1>9, <1>10
<1>13. m = i => AboveOK(k, n, i)
  BY <1>11 DEF AboveOK
<1>14. AboveOK(k, n, i) => m = i
  <2> SUFFICES ASSUME AboveOK(k, n, i), m # i PROVE FALSE
    OBVIOUS
  <2>1. k[i] <= k[m]
    BY <1>7, <1>12 DEF AboveOK
  <2> QED
    BY <1>9, <1>12, <2>1
<1> QED
  BY <1>1, <1>7, <1>11, <1>12, <1>13, <1>14

\* A state of timer_heap_bubble_down: only the key at s.at may be too late.
Sinking(s) ==
  /\ Sound(s.h) /\ s.at \in 1 .. Size(s.h)
  /\ Hole(Keys(s.h), Size(s.h), s.at) /\ BelowOK(Keys(s.h), Size(s.h), s.at)
Sunk(s) == Smallest(s.h, s.at) = s.at

LEMMA DownTurn ==
  ASSUME NEW s, Sinking(s)
  PROVE  /\ Sunk(s) => Down(s) = s
         /\ ~Sunk(s) => Sinking(Down(s)) /\ Permuted(Down(s).h, s.h) /\ s.at < Down(s).at
<1>1. ASSUME Sunk(s) PROVE Down(s) = s
  BY <1>1 DEF Down, Sunk
<1>2. ASSUME ~Sunk(s) PROVE Sinking(Down(s)) /\ Permuted(Down(s).h, s.h) /\ s.at < Down(s).at
  <2>1. PICK h, i, n, m : h = s.h /\ i = s.at /\ n = Size(h) /\ m = Smallest(h, i)
    OBVIOUS
  <2>2. Sound(h) /\ i \in 1 .. n /\ Hole(Keys(h), n, i) /\ BelowOK(Keys(h), n, i)
    BY <2>1 DEF Sinking
  <2>3. n \in Nat /\ Keys(h) \in [1 .. n -> Nat]
    BY <2>1, <2>2, HeapIs
  <2>4. m # i
    BY <1>2, <2>1 DEF Sunk
  <2>5. /\ m \in 1 .. n /\ Child(i, m) /\ Keys(h)[m] < Keys(h)[i]
        /\ \A c \in 1 .. n : Child(i, c) => Keys(h)[m] <= Keys(h)[c]
    BY <2>1, <2>2, <2>4, SmallestIs
  <2>6. PICK g : g = Swap(h, i, m)
    OBVIOUS
  <2>7. Down(s).h = g /\ Down(s).at = m
    BY <2>1, <2>4, <2>6 DEF Down
  <2>8. Sound(g) /\ Permuted(g, h) /\ Keys(g) = Exchanged(Keys(h), i, m)
    BY <2>1, <2>2, <2>4, <2>5, <2>6, SwapIs
  <2>9. Hole(Keys(g), n, m) /\ BelowOK(Keys(g), n, m)
    BY <2>2, <2>3, <2>5, <2>8, SinkStep
  <2>10. Size(g) = n
    BY <2>1, <2>8 DEF Permuted
  <2>11. i < m
    BY <2>2, <2>3, <2>5 DEF Child
  <2> QED
    BY <2>1, <2>5, <2>7, <2>8, <2>9, <2>10, <2>11 DEF Sinking
<1> QED
  BY <1>1, <1>2

\* timer_heap_bubble_down puts the heap in order when the key at i is at most too late.
LEMMA BubbleDownIs ==
  ASSUME NEW h, Sound(h), NEW i \in 1 .. Size(h),
         Hole(Keys(h), Size(h), i), BelowOK(Keys(h), Size(h), i)
  PROVE  /\ Sound(BubbleDown(h, i)) /\ Permuted(BubbleDown(h, i), h)
         /\ Ordered(Keys(BubbleDown(h, i)), Size(h))
<1>1. PICK n : n = Size(h)
  OBVIOUS
<1>2. n \in Nat /\ n = Len(h.heap) /\ i \in Nat /\ i \in 1 .. n
  BY <1>1, HeapIs
<1>3. PICK run : /\ BubbleDown(h, i) = run[n].h /\ run[0] = [h |-> h, at |-> i]
                 /\ \A k \in 0 .. n : k # 0 => run[k] = Down(run[k - 1])
  BY <1>2, BubbleDownRun
<1> DEFINE P(k) == /\ Sinking(run[k]) /\ Permuted(run[k].h, h)
                   /\ Sunk(run[k]) \/ i + k <= run[k].at
           S == {k \in Nat : k <= n => P(k)}
<1>4. 0 \in S
  <2>1. run[0].h = h /\ run[0].at = i
    BY <1>3
  <2>2. Sinking(run[0])
    BY <2>1 DEF Sinking
  <2>3. Permuted(run[0].h, h)
    BY <2>1 DEF Permuted
  <2>4. i + 0 <= run[0].at
    BY <1>2, <2>1
  <2> QED
    BY <2>2, <2>3, <2>4
<1>5. ASSUME NEW k \in Nat, k \in S PROVE k + 1 \in S
  <2> SUFFICES ASSUME k + 1 <= n PROVE P(k + 1)
    OBVIOUS
  <2>1. k + 1 \in 0 .. n /\ k + 1 # 0 /\ (k + 1) - 1 = k /\ k <= n
    BY <1>2
  <2>2. P(k)
    BY <1>5, <2>1
  <2>3. PICK s, e : s = run[k] /\ e = run[k + 1]
    OBVIOUS
  <2>4. e = Down(s)
    BY <1>3, <2>1, <2>3
  <2>5. Sinking(s) /\ Permuted(s.h, h) /\ (Sunk(s) \/ i + k <= s.at)
    BY <2>2, <2>3
  <2>6. CASE Sunk(s)
    <3>1. e = s
      BY <2>4, <2>5, <2>6, DownTurn
    <3> QED
      BY <2>3, <2>5, <2>6, <3>1
  <2>7. CASE ~Sunk(s)
    <3>1. Sinking(e) /\ Permuted(e.h, s.h) /\ s.at < e.at
      BY <2>4, <2>5, <2>7, DownTurn
    <3>2. Permuted(e.h, h)
      BY <2>5, <3>1, PermutedTrans
    <3>3. e.at \in Nat /\ s.at \in Nat
      <4>1. Size(e.h) \in Nat /\ Size(s.h) \in Nat
        BY <2>5, <3>1, HeapIs DEF Sinking
      <4> QED
        BY <2>5, <3>1, <4>1 DEF Sinking
    <3>4. i + k <= s.at
      BY <2>5, <2>7
    <3>5. i + (k + 1) <= e.at
      BY <1>2, <3>1, <3>3, <3>4
    <3> QED
      BY <2>3, <3>1, <3>2, <3>5
  <2> QED
    BY <2>6, <2>7
<1> HIDE DEF S
<1>6. n \in S
  BY <1>2, <1>4, <1>5, Counting
<1>7. P(n)
  <2>1. n <= n
    BY <1>2
  <2> QED
    BY <1>6, <2>1 DEF S
<1>8. PICK s, g, a : s = run[n] /\ g = s.h /\ a = s.at
  OBVIOUS
<1>9. /\ Sound(g) /\ Permuted(g, h) /\ Size(g) = n /\ a \in 1 .. n /\ Hole(Keys(g), n, a)
      /\ BelowOK(Keys(g), n, a)
  BY <1>1, <1>7, <1>8 DEF Sinking, Permuted
<1>10. n \in Nat /\ Keys(g) \in [1 .. n -> Nat]
  BY <1>9, HeapIs
<1>11. Smallest(g, a) = a
  <2>1. ~(i + n <= a)
    BY <1>2, <1>9
  <2> QED
    BY <1>7, <1>8, <2>1 DEF Sunk
<1>12. AboveOK(Keys(g), n, a)
  BY <1>9, <1>11, SmallestIs
<1>13. Ordered(Keys(g), n)
  BY <1>9, <1>10, <1>12, HoleFilled
<1> QED
  BY <1>1, <1>3, <1>8, <1>9, <1>13

\* And it does nothing when the key is not too late.
LEMMA BubbleDownStays ==
  ASSUME NEW h, Sound(h), NEW i \in 1 .. Size(h), AboveOK(Keys(h), Size(h), i)
  PROVE  BubbleDown(h, i) = h
<1>1. PICK n : n = Size(h)
  OBVIOUS
<1>2. n \in Nat /\ n = Len(h.heap) /\ i \in Nat /\ Smallest(h, i) = i
  BY <1>1, HeapIs, SmallestIs
<1>3. PICK run : /\ BubbleDown(h, i) = run[n].h /\ run[0] = [h |-> h, at |-> i]
                 /\ \A k \in 0 .. n : k # 0 => run[k] = Down(run[k - 1])
  BY <1>2, BubbleDownRun
<1>4. PICK s : s = [h |-> h, at |-> i]
  OBVIOUS
<1>5. s.h = h /\ s.at = i
  BY <1>4
<1>6. Down(s) = s
  BY <1>2, <1>5 DEF Down
<1> DEFINE S == {k \in Nat : k <= n => run[k] = s}
<1>7. 0 \in S
  BY <1>3, <1>4
<1>8. ASSUME NEW k \in Nat, k \in S PROVE k + 1 \in S
  <2> SUFFICES ASSUME k + 1 <= n PROVE run[k + 1] = s
    OBVIOUS
  <2>1. k + 1 \in 0 .. n /\ k + 1 # 0 /\ (k + 1) - 1 = k /\ k <= n
    BY <1>2
  <2>2. run[k + 1] = Down(run[k]) /\ run[k] = s
    BY <1>3, <1>8, <2>1
  <2> QED
    BY <1>6, <2>2
<1> HIDE DEF S
<1>9. n \in S
  BY <1>2, <1>7, <1>8, Counting
<1>10. run[n] = s
  <2>1. n <= n
    BY <1>2
  <2> QED
    BY <1>9, <2>1 DEF S
<1> QED
  BY <1>3, <1>5, <1>10

-----------------------------------------------------------------------------
(* A timer leaves                                                          *)

\* What g is when t has left h.
Without(g, h, t) == Sound(g) /\ Size(g) = Size(h) - 1 /\ g.dl = h.dl /\ In(g) = In(h) \ {t}

\* The last timer fills the hole of one in front of it.
LEMMA FillIs ==
  ASSUME NEW h, Sound(h), NEW i \in 1 .. Size(h), i < Size(h), Hole(Keys(h), Size(h), i)
  PROVE  LET g == FillFromLast(Drop(h, h.heap[i]), i)
         IN  Without(g, h, h.heap[i]) /\ Hole(Keys(g), Size(g), i)
<1>1. PICK n, q, x, d : n = Len(h.heap) /\ q = h.heap /\ x = h.index /\ d = h.dl
  OBVIOUS
<1>2. /\ h = [heap |-> q, index |-> x, dl |-> d] /\ q \in Seq(Timers) /\ n \in Nat /\ n = Len(q)
      /\ x \in [Timers -> Nat] /\ d \in [Timers -> Nat] /\ Size(h) = n
      /\ Keys(h) \in [1 .. n -> Nat] /\ \A y \in 1 .. n : Keys(h)[y] = d[q[y]]
      /\ \A y \in 1 .. n : q[y] \in Timers
  BY <1>1, HeapIs
<1>3. i \in 1 .. n - 1 /\ i \in 1 .. n /\ n \in 1 .. n /\ i # n /\ n - 1 \in Nat
  BY <1>2
<1>4. PICK t \in Timers, l \in Timers : t = q[i] /\ l = q[n]
  BY <1>2, <1>3
<1>5. /\ \A y \in 1 .. n : x[q[y]] = y
      /\ \A u \in Timers : x[u] # 0 => x[u] \in 1 .. n /\ q[x[u]] = u
  BY <1>1, <1>2 DEF Sound
<1>6. x[t] = i /\ x[l] = n /\ t # l
  BY <1>3, <1>4, <1>5
<1>7. PICK g : g = FillFromLast(Drop(h, t), i)
  OBVIOUS
<1>8. PICK f : f = [q EXCEPT ![i] = l]
  OBVIOUS
<1>9. /\ g = [heap |-> g.heap, index |-> g.index, dl |-> g.dl]
      /\ g.heap = SubSeq(f, 1, n - 1) /\ g.index = [x EXCEPT ![t] = 0, ![l] = i] /\ g.dl = d
  <2>1. h = [heap |-> q, index |-> x, dl |-> d]
    BY <1>2
  <2>2. PICK e, z : e = Drop(h, t) /\ z = [x EXCEPT ![t] = 0]
    OBVIOUS
  <2>3. e = [heap |-> q, index |-> z, dl |-> d] /\ e.heap = q
    <3>1. e = [heap |-> q, index |-> z, dl |-> d]
      BY <2>1, <2>2 DEF Drop
    <3> QED
      BY <3>1
  <2>4. g = [e EXCEPT !.heap = SubSeq(f, 1, n - 1), !.index[l] = i]
    BY <1>2, <1>4, <1>7, <1>8, <2>2, <2>3 DEF FillFromLast
  <2>5. g = [heap |-> SubSeq(f, 1, n - 1), index |-> [z EXCEPT ![l] = i], dl |-> d]
    BY <2>3, <2>4
  <2> QED
    BY <2>2, <2>5
<1>10. /\ f \in Seq(Timers) /\ Len(f) = n /\ f[i] = l /\ \A y \in 1 .. n : y # i => f[y] = q[y]
  BY <1>2, <1>3, <1>8
<1>11. /\ g.heap \in Seq(Timers) /\ Len(g.heap) = n - 1 /\ \A y \in 1 .. n - 1 : g.heap[y] = f[y]
  BY <1>3, <1>9, <1>10
<1>12. /\ g.heap[i] = l /\ \A y \in 1 .. n - 1 : y \in 1 .. n /\ (y # i => g.heap[y] = q[y])
  BY <1>3, <1>10, <1>11
<1>13. /\ g.index \in [Timers -> Nat] /\ g.index[t] = 0 /\ g.index[l] = i
       /\ \A u \in Timers : u # t /\ u # l => g.index[u] = x[u]
  <2>1. x \in [Timers -> Nat] /\ i \in Nat /\ t # l /\ g.index = [x EXCEPT ![t] = 0, ![l] = i]
    BY <1>2, <1>3, <1>6, <1>9
  <2> QED
    BY <2>1
<1>14. g \in Heaps
  BY <1>2, <1>9, <1>11, <1>13 DEF Heaps
<1>15. ASSUME NEW y \in 1 .. n - 1 PROVE g.index[g.heap[y]] = y
  <2>1. CASE y = i
    BY <1>12, <1>13, <2>1
  <2>2. CASE y # i
    <3>1. g.heap[y] = q[y] /\ q[y] \in Timers /\ x[q[y]] = y /\ y # n
      <4>1. g.heap[y] = q[y] /\ y \in 1 .. n
        BY <1>12, <2>2
      <4>2. q[y] \in Timers /\ x[q[y]] = y
        BY <1>2, <1>5, <4>1
      <4>3. y # n
        BY <1>2
      <4> QED
        BY <4>1, <4>2, <4>3
    <3>2. q[y] # t /\ q[y] # l
      BY <1>6, <2>2, <3>1
    <3> QED
      BY <1>13, <3>1, <3>2
  <2> QED
    BY <2>1, <2>2
<1>16. ASSUME NEW u \in Timers
       PROVE  /\ g.index[u] # 0 => g.index[u] \in 1 .. n - 1 /\ g.heap[g.index[u]] = u
              /\ g.index[u] # 0 <=> x[u] # 0 /\ u # t
  <2>1. CASE u = t
    BY <1>13, <2>1
  <2>2. CASE u = l
    BY <1>3, <1>6, <1>12, <1>13, <2>2
  <2>3. CASE u # t /\ u # l
    <3>1. g.index[u] = x[u]
      BY <1>13, <2>3
    <3>2. ASSUME x[u] # 0 PROVE x[u] \in 1 .. n - 1 /\ g.heap[x[u]] = u
      <4>1. x[u] \in 1 .. n /\ q[x[u]] = u
        BY <1>5, <3>2
      <4>2. x[u] # i /\ x[u] # n
        BY <1>4, <2>3, <4>1
      <4>3. x[u] \in 1 .. n - 1
        BY <1>2, <4>1, <4>2
      <4> QED
        BY <1>12, <4>1, <4>2, <4>3
    <3> QED
      BY <2>3, <3>1, <3>2
  <2> QED
    BY <2>1, <2>2, <2>3
<1>17. Sound(g)
  BY <1>11, <1>14, <1>15, <1>16 DEF Sound
<1>18. Without(g, h, t)
  <2>1. In(g) = In(h) \ {t}
    BY <1>1, <1>16 DEF In
  <2> QED
    BY <1>1, <1>2, <1>9, <1>11, <1>17, <2>1 DEF Without, Size
<1>19. Hole(Keys(g), n - 1, i)
  <2>1. \A y \in 1 .. n - 1 : y # i => Keys(g)[y] = Keys(h)[y]
    <3> SUFFICES ASSUME NEW y \in 1 .. n - 1, y # i PROVE Keys(g)[y] = Keys(h)[y]
      OBVIOUS
    <3>1. Keys(g)[y] = g.dl[g.heap[y]]
      BY <1>11 DEF Keys
    <3>2. Keys(h)[y] = d[q[y]]
      BY <1>2, <1>12
    <3> QED
      BY <1>9, <1>12, <3>1, <3>2
  <2>2. \A y \in 1 .. n - 1 : y \in 1 .. n
    BY <1>12
  <2>3. \A p, c \in 1 .. n - 1 : Child(p, i) /\ Child(i, c) => p # i /\ c # i
    BY <1>3 DEF Child
  <2>4. Hole(Keys(h), n, i)
    BY <1>2
  <2> QED
    BY <2>1, <2>2, <2>3, <2>4 DEF Hole
<1>20. Size(g) = n - 1
  BY <1>11 DEF Size
<1> QED
  BY <1>1, <1>4, <1>7, <1>18, <1>19, <1>20

\* The last timer leaves.
LEMMA DropIs ==
  ASSUME NEW h, Sound(h), Size(h) # 0, Hole(Keys(h), Size(h), Size(h))
  PROVE  LET g == DropLast(Drop(h, h.heap[Size(h)]))
         IN  Without(g, h, h.heap[Size(h)]) /\ Ordered(Keys(g), Size(g))
<1>1. PICK n, q, x, d : n = Len(h.heap) /\ q = h.heap /\ x = h.index /\ d = h.dl
  OBVIOUS
<1>2. /\ h = [heap |-> q, index |-> x, dl |-> d] /\ q \in Seq(Timers) /\ n \in Nat /\ n = Len(q)
      /\ x \in [Timers -> Nat] /\ d \in [Timers -> Nat] /\ Size(h) = n
      /\ Keys(h) \in [1 .. n -> Nat] /\ \A y \in 1 .. n : Keys(h)[y] = d[q[y]]
      /\ \A y \in 1 .. n : q[y] \in Timers
  BY <1>1, HeapIs
<1>3. n \in 1 .. n /\ n - 1 \in Nat /\ \A y \in 1 .. n - 1 : y \in 1 .. n /\ y # n
  BY <1>2
<1>4. PICK t \in Timers : t = q[n]
  BY <1>2, <1>3
<1>5. /\ \A y \in 1 .. n : x[q[y]] = y
      /\ \A u \in Timers : x[u] # 0 => x[u] \in 1 .. n /\ q[x[u]] = u
  BY <1>1, <1>2 DEF Sound
<1>6. x[t] = n
  BY <1>3, <1>4, <1>5
<1>7. PICK g : g = DropLast(Drop(h, t))
  OBVIOUS
<1>8. /\ g = [heap |-> g.heap, index |-> g.index, dl |-> g.dl]
      /\ g.heap = SubSeq(q, 1, n - 1) /\ g.index = [x EXCEPT ![t] = 0] /\ g.dl = d
  <2>1. PICK e, z : e = Drop(h, t) /\ z = [x EXCEPT ![t] = 0]
    OBVIOUS
  <2>2. e = [heap |-> q, index |-> z, dl |-> d]
    <3>1. h = [heap |-> q, index |-> x, dl |-> d]
      BY <1>2
    <3> QED
      BY <2>1, <3>1 DEF Drop
  <2>3. e.heap = q
    BY <2>2
  <2>4. g = [e EXCEPT !.heap = SubSeq(q, 1, n - 1)]
    BY <1>2, <1>7, <2>1, <2>3 DEF DropLast
  <2>5. g = [heap |-> SubSeq(q, 1, n - 1), index |-> z, dl |-> d]
    BY <2>2, <2>4
  <2> QED
    BY <2>1, <2>5
<1>9. /\ g.heap \in Seq(Timers) /\ Len(g.heap) = n - 1 /\ \A y \in 1 .. n - 1 : g.heap[y] = q[y]
  <2>1. PICK s : s = SubSeq(q, 1, n - 1)
    OBVIOUS
  <2>2. q \in Seq(Timers) /\ n = Len(q) /\ n \in Nat /\ n - 1 \in Nat
    BY <1>2, <1>3
  <2>3. s \in Seq(Timers) /\ Len(s) = n - 1
    BY <2>1, <2>2
  <2>4. \A y \in 1 .. n - 1 : s[y] = q[y]
    BY <2>1, <2>2
  <2>5. g.heap = s
    BY <1>8, <2>1
  <2> QED
    BY <2>3, <2>4, <2>5
<1>10. /\ g.index \in [Timers -> Nat] /\ g.index[t] = 0
       /\ \A u \in Timers : u # t => g.index[u] = x[u]
  BY <1>2, <1>8
<1>11. g \in Heaps
  BY <1>2, <1>8, <1>9, <1>10 DEF Heaps
<1>12. ASSUME NEW y \in 1 .. n - 1 PROVE g.index[g.heap[y]] = y
  <2>1. g.heap[y] = q[y] /\ q[y] \in Timers /\ x[q[y]] = y /\ y # n
    BY <1>2, <1>3, <1>5, <1>9
  <2>2. q[y] # t
    BY <1>6, <2>1
  <2> QED
    BY <1>10, <2>1, <2>2
<1>13. ASSUME NEW u \in Timers
       PROVE  /\ g.index[u] # 0 => g.index[u] \in 1 .. n - 1 /\ g.heap[g.index[u]] = u
              /\ g.index[u] # 0 <=> x[u] # 0 /\ u # t
  <2>1. CASE u = t
    BY <1>10, <2>1
  <2>2. CASE u # t
    <3>1. g.index[u] = x[u]
      BY <1>10, <2>2
    <3>2. ASSUME x[u] # 0 PROVE x[u] \in 1 .. n - 1 /\ g.heap[x[u]] = u
      <4>1. x[u] \in 1 .. n /\ q[x[u]] = u
        BY <1>5, <3>2
      <4>2. x[u] # n
        BY <1>4, <2>2, <4>1
      <4>3. x[u] \in 1 .. n - 1
        BY <1>2, <4>1, <4>2
      <4> QED
        BY <1>9, <4>1, <4>3
    <3> QED
      BY <2>2, <3>1, <3>2
  <2> QED
    BY <2>1, <2>2
<1>14. Sound(g)
  BY <1>9, <1>11, <1>12, <1>13 DEF Sound
<1>15. Without(g, h, t)
  <2>1. In(g) = In(h) \ {t}
    BY <1>1, <1>13 DEF In
  <2> QED
    BY <1>1, <1>2, <1>8, <1>9, <1>14, <2>1 DEF Without, Size
<1>16. Ordered(Keys(g), n - 1)
  <2>1. \A y \in 1 .. n - 1 : Keys(g)[y] = Keys(h)[y]
    <3> SUFFICES ASSUME NEW y \in 1 .. n - 1 PROVE Keys(g)[y] = Keys(h)[y]
      OBVIOUS
    <3>1. Keys(g)[y] = g.dl[g.heap[y]]
      BY <1>9 DEF Keys
    <3>2. Keys(h)[y] = d[q[y]]
      BY <1>2, <1>3
    <3> QED
      BY <1>8, <1>9, <3>1, <3>2
  <2>2. Hole(Keys(h), n, n)
    BY <1>2
  <2> QED
    BY <1>3, <2>1, <2>2 DEF Hole, Ordered
<1>17. Size(g) = n - 1
  BY <1>9 DEF Size
<1> QED
  BY <1>1, <1>2, <1>4, <1>7, <1>15, <1>16, <1>17

LEMMA PlaceIs ==
  ASSUME NEW h, Sound(h), NEW t \in Timers, h.index[t] # 0
  PROVE  h.index[t] \in 1 .. Size(h) /\ h.heap[h.index[t]] = t
BY DEF Sound, Size

LEMMA WithoutThenPermuted ==
  ASSUME NEW g, NEW f, NEW h, NEW t, Without(f, h, t), Permuted(g, f), Sound(g)
  PROVE  Without(g, h, t)
BY DEF Without, Permuted

\* timer_heap_remove: the timer moved into the hole goes down or up, whichever it needs.
LEMMA RemovedIs ==
  ASSUME NEW h, Sound(h), NEW t \in Timers, h.index[t] # 0, Hole(Keys(h), Size(h), h.index[t])
  PROVE  Without(Removed(h, t), h, t) /\ Ordered(Keys(Removed(h, t)), Size(Removed(h, t)))
<1>1. PICK i, n : i = h.index[t] /\ n = Size(h)
  OBVIOUS
<1>2. i \in 1 .. n /\ h.heap[i] = t /\ i # 0
  BY <1>1, PlaceIs
<1>3. n \in Nat /\ n = Len(h.heap) /\ ~(i > n) /\ Hole(Keys(h), n, i)
  <2>1. n \in Nat /\ n = Len(h.heap)
    BY <1>1, HeapIs
  <2> QED
    BY <1>1, <1>2, <2>1
<1>4. CASE i = n
  <2>1. Removed(h, t) = DropLast(Drop(h, t))
    BY <1>1, <1>2, <1>3, <1>4 DEF Removed
  <2>2. Size(h) # 0 /\ Hole(Keys(h), Size(h), Size(h)) /\ t = h.heap[Size(h)]
    BY <1>1, <1>2, <1>3, <1>4
  <2> QED
    BY <2>1, <2>2, DropIs
<1>5. CASE i # n
  <2>1. PICK f : f = FillFromLast(Drop(h, t), i)
    OBVIOUS
  <2>2. Removed(h, t) = BubbleUp(BubbleDown(f, i), i)
    BY <1>1, <1>2, <1>3, <1>5, <2>1 DEF Removed
  <2>3. i < n
    BY <1>2, <1>3, <1>5
  <2>4. Without(f, h, t) /\ Hole(Keys(f), Size(f), i)
    BY <1>1, <1>2, <1>3, <2>1, <2>3, FillIs
  <2>5. PICK m : m = Size(f)
    OBVIOUS
  <2>6. Sound(f) /\ m = n - 1 /\ i \in 1 .. m /\ m \in Nat /\ Keys(f) \in [1 .. m -> Nat] /\ Hole(Keys(f), m, i)
    <3>1. Sound(f) /\ m = n - 1 /\ Hole(Keys(f), m, i)
      BY <1>1, <2>4, <2>5 DEF Without
    <3>2. m \in Nat /\ i \in 1 .. m
      BY <1>2, <1>3, <2>3, <3>1
    <3> QED
      BY <2>5, <3>1, <3>2, HeapIs
  <2>7. PICK g : g = BubbleDown(f, i)
    OBVIOUS
  <2>8. Sound(g) /\ Permuted(g, f) /\ Hole(Keys(g), m, i) /\ AboveOK(Keys(g), m, i)
    <3>1. CASE BelowOK(Keys(f), m, i)
      <4>1. Sound(g) /\ Permuted(g, f) /\ Ordered(Keys(g), m)
        BY <2>5, <2>6, <2>7, <3>1, BubbleDownIs
      <4>2. Keys(g) \in [1 .. m -> Nat]
        BY <2>5, <4>1, HeapIs DEF Permuted
      <4> QED
        BY <2>6, <4>1, <4>2, OrderedHole
    <3>2. CASE ~BelowOK(Keys(f), m, i)
      <4>1. PICK p \in 1 .. m : Child(p, i) /\ ~(Keys(f)[p] <= Keys(f)[i])
        BY <3>2 DEF BelowOK
      <4>2. ASSUME NEW c \in 1 .. m, Child(i, c) PROVE Keys(f)[i] <= Keys(f)[c]
        <5>1. Keys(f)[p] <= Keys(f)[c]
          BY <2>6, <4>1, <4>2 DEF Hole
        <5>2. Keys(f)[p] \in Nat /\ Keys(f)[c] \in Nat /\ Keys(f)[i] \in Nat
          BY <2>6
        <5> QED
          BY <4>1, <5>1, <5>2
      <4>3. AboveOK(Keys(f), m, i)
        BY <4>2 DEF AboveOK
      <4>4. g = f
        BY <2>5, <2>6, <2>7, <4>3, BubbleDownStays
      <4>5. Permuted(f, f)
        BY DEF Permuted
      <4> QED
        BY <2>6, <4>3, <4>4, <4>5
    <3> QED
      BY <3>1, <3>2
  <2>9. PICK e : e = BubbleUp(g, i)
    OBVIOUS
  <2>10. Size(g) = m
    BY <2>5, <2>8 DEF Permuted
  <2>11. Sound(e) /\ Permuted(e, g) /\ Ordered(Keys(e), m)
    BY <2>6, <2>8, <2>9, <2>10, BubbleUpIs
  <2>12. Permuted(e, f) /\ Size(e) = m
    BY <2>8, <2>10, <2>11, PermutedTrans DEF Permuted
  <2>13. Without(e, h, t)
    BY <2>4, <2>11, <2>12, WithoutThenPermuted
  <2> QED
    BY <2>2, <2>7, <2>9, <2>11, <2>12, <2>13
<1> QED
  BY <1>4, <1>5

LEMMA RemovedNone ==
  ASSUME NEW h, NEW t, h.index[t] = 0
  PROVE  Removed(h, t) = h
BY DEF Removed

\* timer_heap_pop_min.
LEMMA PoppedMinIs ==
  ASSUME NEW h, Sound(h), Ordered(Keys(h), Size(h)), Size(h) # 0
  PROVE  Without(PoppedMin(h), h, h.heap[1]) /\ Ordered(Keys(PoppedMin(h)), Size(PoppedMin(h)))
<1>1. PICK n, t : n = Size(h) /\ t = h.heap[1]
  OBVIOUS
<1>2. n \in Nat /\ n = Len(h.heap) /\ Keys(h) \in [1 .. n -> Nat]
  BY <1>1, HeapIs
<1>3. 1 \in 1 .. n
  BY <1>1, <1>2
<1>4. Hole(Keys(h), n, 1)
  BY <1>1, <1>2, <1>3, OrderedHole
<1>5. CASE n = 1
  <2>1. PoppedMin(h) = DropLast(Drop(h, t))
    BY <1>1, <1>2, <1>5 DEF PoppedMin
  <2>2. Hole(Keys(h), Size(h), Size(h)) /\ t = h.heap[Size(h)]
    BY <1>1, <1>4, <1>5
  <2> QED
    BY <1>1, <2>1, <2>2, DropIs
<1>6. CASE n # 1
  <2>1. PICK f : f = FillFromLast(Drop(h, t), 1)
    OBVIOUS
  <2>2. PoppedMin(h) = BubbleDown(f, 1)
    BY <1>1, <1>2, <1>6, <2>1 DEF PoppedMin
  <2>3. 1 < n
    <3>1. n \in Nat /\ n # 0 /\ n # 1
      BY <1>1, <1>2, <1>6
    <3> QED
      BY <3>1
  <2>4. Without(f, h, t) /\ Hole(Keys(f), Size(f), 1)
    BY <1>1, <1>3, <1>4, <2>1, <2>3, FillIs
  <2>5. Sound(f) /\ Size(f) = n - 1
    BY <1>1, <2>4 DEF Without
  <2>6. 1 \in 1 .. Size(f)
    BY <1>2, <2>3, <2>5
  <2>7. BelowOK(Keys(f), Size(f), 1)
    <3>1. \A p \in 1 .. Size(f) : ~Child(p, 1)
      BY <1>2, <2>5 DEF Child
    <3> QED
      BY <3>1 DEF BelowOK
  <2>8. PICK g : g = BubbleDown(f, 1)
    OBVIOUS
  <2>9. Sound(g) /\ Permuted(g, f) /\ Ordered(Keys(g), Size(f))
    BY <2>4, <2>5, <2>6, <2>7, <2>8, BubbleDownIs
  <2>10. Size(g) = Size(f)
    BY <2>9 DEF Permuted
  <2>11. Without(g, h, t)
    BY <2>4, <2>9, WithoutThenPermuted
  <2> QED
    BY <1>1, <2>2, <2>8, <2>9, <2>10, <2>11
<1> QED
  BY <1>5, <1>6

-----------------------------------------------------------------------------
(* A timer comes                                                           *)

\* timer_heap_push of a timer that is not in the heap.
LEMMA PushedIs ==
  ASSUME NEW h, Sound(h), Ordered(Keys(h), Size(h)), NEW t \in Timers, h.index[t] = 0
  PROVE  LET g == Pushed(h, t)
         IN  Sound(g) /\ Ordered(Keys(g), Size(g)) /\ g.dl = h.dl /\ In(g) = In(h) \cup {t}
<1>1. PICK n, q, x, d : n = Len(h.heap) /\ q = h.heap /\ x = h.index /\ d = h.dl
  OBVIOUS
<1>2. /\ h = [heap |-> q, index |-> x, dl |-> d] /\ q \in Seq(Timers) /\ n \in Nat /\ n = Len(q)
      /\ x \in [Timers -> Nat] /\ d \in [Timers -> Nat] /\ Size(h) = n
      /\ Keys(h) \in [1 .. n -> Nat] /\ \A y \in 1 .. n : Keys(h)[y] = d[q[y]]
      /\ \A y \in 1 .. n : q[y] \in Timers
  BY <1>1, HeapIs
<1>3. PICK m \in Nat : m = n + 1
  BY <1>2
<1>4. /\ m \in 1 .. m /\ m # 0 /\ \A y \in 1 .. m : y # m => y \in 1 .. n
      /\ \A y \in 1 .. n : y \in 1 .. m /\ y # m
  BY <1>2, <1>3
<1>5. /\ \A y \in 1 .. n : x[q[y]] = y
      /\ \A u \in Timers : x[u] # 0 => x[u] \in 1 .. n /\ q[x[u]] = u
      /\ x[t] = 0
  BY <1>1, <1>2 DEF Sound
<1>6. PICK g : g = [h EXCEPT !.heap = Append(h.heap, t), !.index[t] = m]
  OBVIOUS
<1>7. Pushed(h, t) = BubbleUp(g, m)
  BY <1>1, <1>3, <1>6 DEF Pushed
<1>8. /\ g = [heap |-> g.heap, index |-> g.index, dl |-> g.dl]
      /\ g.heap = Append(q, t) /\ g.index = [x EXCEPT ![t] = m] /\ g.dl = d
  <2>1. h = [heap |-> q, index |-> x, dl |-> d]
    BY <1>2
  <2>2. g = [heap |-> Append(q, t), index |-> [x EXCEPT ![t] = m], dl |-> d]
    BY <1>1, <1>6, <2>1
  <2> QED
    BY <2>2
<1>9. /\ g.heap \in Seq(Timers) /\ Len(g.heap) = m /\ g.heap[m] = t
      /\ \A y \in 1 .. n : g.heap[y] = q[y]
  BY <1>2, <1>3, <1>8
<1>10. /\ g.index \in [Timers -> Nat] /\ g.index[t] = m
       /\ \A u \in Timers : u # t => g.index[u] = x[u]
  BY <1>2, <1>8
<1>11. g \in Heaps
  BY <1>2, <1>8, <1>9, <1>10 DEF Heaps
<1>12. ASSUME NEW y \in 1 .. m PROVE g.index[g.heap[y]] = y
  <2>1. CASE y = m
    BY <1>9, <1>10, <2>1
  <2>2. CASE y # m
    <3>1. y \in 1 .. n /\ g.heap[y] = q[y] /\ q[y] \in Timers /\ x[q[y]] = y
      BY <1>2, <1>4, <1>5, <1>9, <2>2
    <3>2. q[y] # t
      BY <1>5, <3>1
    <3> QED
      BY <1>10, <3>1, <3>2
  <2> QED
    BY <2>1, <2>2
<1>13. ASSUME NEW u \in Timers
       PROVE  /\ g.index[u] # 0 => g.index[u] \in 1 .. m /\ g.heap[g.index[u]] = u
              /\ g.index[u] # 0 <=> x[u] # 0 \/ u = t
  <2>1. CASE u = t
    BY <1>4, <1>9, <1>10, <2>1
  <2>2. CASE u # t
    <3>1. g.index[u] = x[u]
      BY <1>10, <2>2
    <3> QED
      BY <1>4, <1>5, <1>9, <2>2, <3>1
  <2> QED
    BY <2>1, <2>2
<1>14. Sound(g)
  BY <1>9, <1>11, <1>12, <1>13 DEF Sound
<1>15. In(g) = In(h) \cup {t}
  BY <1>1, <1>13 DEF In
<1>16. Size(g) = m
  BY <1>9 DEF Size
<1>17. Hole(Keys(g), m, m) /\ AboveOK(Keys(g), m, m)
  <2>1. \A y \in 1 .. n : Keys(g)[y] = Keys(h)[y]
    <3> SUFFICES ASSUME NEW y \in 1 .. n PROVE Keys(g)[y] = Keys(h)[y]
      OBVIOUS
    <3>1. Keys(g)[y] = g.dl[g.heap[y]]
      BY <1>4, <1>9 DEF Keys
    <3>2. Keys(h)[y] = d[q[y]]
      BY <1>2
    <3> QED
      BY <1>8, <1>9, <3>1, <3>2
  <2>2. \A c \in 1 .. m : ~Child(m, c)
    BY <1>3, <1>4 DEF Child
  <2>3. Ordered(Keys(h), n)
    BY <1>2
  <2> QED
    BY <1>4, <2>1, <2>2, <2>3 DEF Hole, AboveOK, Ordered
<1>18. PICK e : e = BubbleUp(g, m)
  OBVIOUS
<1>19. Sound(e) /\ Permuted(e, g) /\ Ordered(Keys(e), m)
  BY <1>4, <1>14, <1>16, <1>17, <1>18, BubbleUpIs
<1>20. Size(e) = m /\ e.dl = d /\ In(e) = In(h) \cup {t}
  BY <1>8, <1>15, <1>16, <1>19 DEF Permuted
<1> QED
  BY <1>1, <1>7, <1>18, <1>19, <1>20

\* ztk_poller_timer_insert_locked.
LEMMA InsertedIs ==
  ASSUME NEW h, Sound(h), Ordered(Keys(h), Size(h)), NEW t \in Timers, NEW d \in Nat
  PROVE  LET g == Inserted(h, t, d)
         IN  /\ Sound(g) /\ Ordered(Keys(g), Size(g))
             /\ g.dl = [h.dl EXCEPT ![t] = d] /\ In(g) = In(h) \cup {t}
<1>1. PICK n, q, x, z : n = Len(h.heap) /\ q = h.heap /\ x = h.index /\ z = [h.dl EXCEPT ![t] = d]
  OBVIOUS
<1>2. /\ h = [heap |-> q, index |-> x, dl |-> h.dl] /\ q \in Seq(Timers) /\ n \in Nat /\ n = Len(q)
      /\ x \in [Timers -> Nat] /\ h.dl \in [Timers -> Nat] /\ Size(h) = n
      /\ Keys(h) \in [1 .. n -> Nat] /\ \A y \in 1 .. n : Keys(h)[y] = h.dl[q[y]]
      /\ \A y \in 1 .. n : q[y] \in Timers
  BY <1>1, HeapIs
<1>3. z \in [Timers -> Nat] /\ \A u \in Timers : u # t => z[u] = h.dl[u]
  BY <1>1, <1>2
<1>4. PICK e : e = [h EXCEPT !.dl[t] = d]
  OBVIOUS
<1>5. e = [heap |-> q, index |-> x, dl |-> z]
  <2>1. PICK w : w = h.dl
    OBVIOUS
  <2>2. h = [heap |-> q, index |-> x, dl |-> w] /\ z = [w EXCEPT ![t] = d]
    BY <1>1, <1>2, <2>1
  <2> QED
    BY <1>4, <2>2
<1>6. e.heap = q /\ e.index = x /\ e.dl = z /\ Size(e) = n
  BY <1>2, <1>5 DEF Size
<1>7. Sound(e)
  <2>1. e \in Heaps
    BY <1>2, <1>3, <1>5 DEF Heaps
  <2> QED
    BY <1>1, <1>6, <2>1 DEF Sound
<1>8. In(e) = In(h)
  BY <1>1, <1>6 DEF In
<1>9. \A y \in 1 .. n : q[y] # t => Keys(e)[y] = Keys(h)[y]
  <2> SUFFICES ASSUME NEW y \in 1 .. n, q[y] # t PROVE Keys(e)[y] = Keys(h)[y]
    OBVIOUS
  <2>1. Keys(e)[y] = z[q[y]]
    BY <1>2, <1>6 DEF Keys
  <2> QED
    BY <1>2, <1>3, <2>1
<1>10. Keys(e) \in [1 .. n -> Nat]
  BY <1>6, <1>7, HeapIs
<1>11. PICK f : f = IF x[t] # 0 THEN Removed(e, t) ELSE e
  OBVIOUS
<1>12. Inserted(h, t, d) = Pushed(f, t)
  BY <1>4, <1>6, <1>11 DEF Inserted
<1>13. /\ Sound(f) /\ Ordered(Keys(f), Size(f)) /\ f.dl = z /\ f.index[t] = 0
       /\ In(f) \cup {t} = In(h) \cup {t}
  <2>1. CASE x[t] = 0
    <3>1. \A y \in 1 .. n : q[y] # t
      <4>1. \A y \in 1 .. n : x[q[y]] = y
        BY <1>1 DEF Sound
      <4> QED
        BY <2>1, <4>1
    <3>2. Ordered(Keys(e), n)
      BY <1>2, <1>9, <3>1 DEF Ordered
    <3>3. f = e
      BY <1>11, <2>1
    <3> QED
      BY <1>6, <1>7, <1>8, <2>1, <3>2, <3>3
  <2>2. CASE x[t] # 0
    <3>1. PICK i : i = x[t]
      OBVIOUS
    <3>2. i \in 1 .. n /\ q[i] = t
      BY <1>1, <1>2, <2>2, <3>1, PlaceIs
    <3>3. \A y \in 1 .. n : y # i => q[y] # t
      <4>1. \A y \in 1 .. n : x[q[y]] = y
        BY <1>1 DEF Sound
      <4> QED
        BY <3>1, <4>1
    <3>4. Hole(Keys(h), n, i)
      BY <1>2, <3>2, OrderedHole
    <3>5. \A p, c \in 1 .. n : Child(p, i) /\ Child(i, c) => p # i /\ c # i
      <4>1. n \in Nat /\ i \in 1 .. n
        BY <1>2, <3>2
      <4> QED
        BY <4>1 DEF Child
    <3>6. \A y \in 1 .. n : y # i => Keys(e)[y] = Keys(h)[y]
      BY <1>9, <3>3
    <3>7. Hole(Keys(e), n, i)
      BY <3>4, <3>5, <3>6 DEF Hole
    <3>8. f = Removed(e, t)
      BY <1>11, <2>2
    <3>9. Without(f, e, t) /\ Ordered(Keys(f), Size(f))
      BY <1>6, <1>7, <2>2, <3>1, <3>7, <3>8, RemovedIs
    <3>10. Sound(f) /\ f.dl = z /\ In(f) = In(h) \ {t}
      BY <1>6, <1>8, <3>9 DEF Without
    <3>11. f.index[t] = 0
      BY <3>10 DEF In
    <3> QED
      BY <3>9, <3>10, <3>11
  <2> QED
    BY <2>1, <2>2
<1>14. PICK g : g = Pushed(f, t)
  OBVIOUS
<1>15. Sound(g) /\ Ordered(Keys(g), Size(g)) /\ g.dl = f.dl /\ In(g) = In(f) \cup {t}
  BY <1>13, <1>14, PushedIs
<1> QED
  BY <1>1, <1>12, <1>13, <1>14, <1>15

-----------------------------------------------------------------------------
(* The specification                                                       *)

\* What the operations under timer_mtx leave: places that are right and keys in order.
HeapInv == Sound(Heap) /\ Ordered(Keys(Heap), Size(Heap))

LEMMA HeapParts == Heap.heap = heap /\ Heap.index = index /\ Heap.dl = dl
BY DEF Heap

LEMMA BecomesHeap ==
  ASSUME NEW h, Sound(h), Becomes(h)
  PROVE  Heap' = h
<1>1. h = [heap |-> h.heap, index |-> h.index, dl |-> h.dl]
  BY HeapIs
<1>2. heap' = h.heap /\ index' = h.index /\ dl' = h.dl
  BY DEF Becomes
<1>3. Heap' = [heap |-> heap', index |-> index', dl |-> dl']
  BY DEF Heap
<1> QED
  BY <1>1, <1>2, <1>3

LEMMA HeapStart == Init => HeapInv
<1> SUFFICES ASSUME Init PROVE HeapInv
  OBVIOUS
<1>1. heap = <<>> /\ index = [t \in Timers |-> 0] /\ dl = [t \in Timers |-> 0]
  BY DEF Init
<1>2. heap \in Seq(Timers) /\ Len(heap) = 0
  BY <1>1
<1>3. 1 .. Len(heap) = {}
  BY <1>2
<1>4. Heap \in Heaps
  BY <1>1, <1>2 DEF Heap, Heaps
<1>5. Sound(Heap)
  BY <1>1, <1>3, <1>4, HeapParts DEF Sound
<1>6. Ordered(Keys(Heap), Size(Heap))
  BY <1>3, HeapParts DEF Ordered, Size
<1> QED
  BY <1>5, <1>6 DEF HeapInv

\* What each operation does to the timers in the heap, while it keeps the invariant.
LEMMA PopMinStep ==
  ASSUME HeapInv, PopMin
  PROVE  /\ HeapInv' /\ dl' = dl /\ In(Heap)' = In(Heap) \ {heap[1]}
         /\ heap[1] \in In(Heap) /\ \A u \in In(Heap) : dl[heap[1]] <= dl[u]
<1>1. PICK h, n, t : h = Heap /\ n = Size(h) /\ t = heap[1]
  OBVIOUS
<1>2. Sound(h) /\ Ordered(Keys(h), n) /\ h.heap = heap /\ h.index = index /\ h.dl = dl
  BY <1>1, HeapParts DEF HeapInv
<1>3. /\ n \in Nat /\ n = Len(heap) /\ Keys(h) \in [1 .. n -> Nat]
      /\ \A i \in 1 .. n : heap[i] \in Timers /\ Keys(h)[i] = dl[heap[i]]
      /\ heap \in Seq(Timers)
  BY <1>1, <1>2, HeapIs
<1>4. n # 0
  BY <1>3 DEF PopMin
<1>5. PICK g : g = PoppedMin(h)
  OBVIOUS
<1>6. Without(g, h, t) /\ Ordered(Keys(g), Size(g))
  BY <1>1, <1>2, <1>4, <1>5, PoppedMinIs
<1>7. Sound(g) /\ g.dl = dl /\ In(g) = In(h) \ {t}
  BY <1>2, <1>6 DEF Without
<1>8. Heap' = g
  BY <1>1, <1>5, <1>7, BecomesHeap DEF PopMin
<1>9. HeapInv' /\ dl' = dl /\ In(Heap)' = In(Heap) \ {t}
  <2>1. HeapInv'
    BY <1>6, <1>7, <1>8 DEF HeapInv
  <2>2. dl' = dl
    BY <1>1, <1>5, <1>7 DEF PopMin, Becomes
  <2> QED
    BY <1>1, <1>7, <1>8, <2>1, <2>2
<1>10. 1 \in 1 .. n
  BY <1>3, <1>4
<1>11. t \in In(h)
  <2>1. t \in Timers /\ index[t] = 1
    BY <1>1, <1>2, <1>3, <1>10 DEF Sound
  <2> QED
    BY <1>2, <2>1 DEF In
<1>12. ASSUME NEW u \in In(h) PROVE dl[t] <= dl[u]
  <2>1. u \in Timers /\ index[u] # 0
    BY <1>2 DEF In
  <2>2. PICK i : i \in 1 .. n /\ heap[i] = u
    BY <1>1, <1>2, <2>1, PlaceIs
  <2>3. Keys(h)[1] <= Keys(h)[i]
    BY <1>2, <1>3, <2>2, FirstIsLeast
  <2> QED
    BY <1>1, <1>3, <1>10, <2>2, <2>3
<1> QED
  BY <1>1, <1>9, <1>11, <1>12

LEMMA RemoveStep ==
  ASSUME HeapInv, NEW t \in Timers, Remove(t)
  PROVE  HeapInv' /\ dl' = dl /\ In(Heap)' = In(Heap) \ {t}
<1>1. PICK h : h = Heap
  OBVIOUS
<1>2. Sound(h) /\ Ordered(Keys(h), Size(h)) /\ h.index = index /\ h.dl = dl
  BY <1>1, HeapParts DEF HeapInv
<1>3. PICK g : g = Removed(h, t)
  OBVIOUS
<1>4. Sound(g) /\ Ordered(Keys(g), Size(g)) /\ g.dl = dl /\ In(g) = In(h) \ {t}
  <2>1. CASE index[t] = 0
    <3>1. g = h
      BY <1>2, <1>3, <2>1, RemovedNone
    <3>2. t \notin In(h)
      BY <1>2, <2>1 DEF In
    <3> QED
      BY <1>2, <3>1, <3>2
  <2>2. CASE index[t] # 0
    <3>1. PICK i, n : i = h.index[t] /\ n = Size(h)
      OBVIOUS
    <3>2. i \in 1 .. n /\ n \in Nat /\ Keys(h) \in [1 .. n -> Nat]
      BY <1>2, <2>2, <3>1, PlaceIs, HeapIs
    <3>3. Hole(Keys(h), n, i)
      BY <1>2, <3>1, <3>2, OrderedHole
    <3>4. Without(g, h, t) /\ Ordered(Keys(g), Size(g))
      BY <1>2, <1>3, <2>2, <3>1, <3>3, RemovedIs
    <3> QED
      BY <1>2, <3>4 DEF Without
  <2> QED
    BY <2>1, <2>2
<1>5. Becomes(g)
  BY <1>1, <1>3 DEF Remove
<1>6. Heap' = g
  BY <1>4, <1>5, BecomesHeap
<1>7. HeapInv'
  BY <1>4, <1>6 DEF HeapInv
<1>8. dl' = dl
  BY <1>4, <1>5 DEF Becomes
<1> QED
  BY <1>1, <1>4, <1>6, <1>7, <1>8

LEMMA InsertStep ==
  ASSUME HeapInv, NEW t \in Timers, NEW d \in Deadlines, Insert(t, d)
  PROVE  HeapInv' /\ dl' = [dl EXCEPT ![t] = d] /\ In(Heap)' = In(Heap) \cup {t}
<1>1. PICK h : h = Heap
  OBVIOUS
<1>2. Sound(h) /\ Ordered(Keys(h), Size(h)) /\ h.dl = dl
  BY <1>1, HeapParts DEF HeapInv
<1>3. PICK g : g = Inserted(h, t, d)
  OBVIOUS
<1>4. d \in Nat
  BY HeapAssumption
<1>5. Sound(g) /\ Ordered(Keys(g), Size(g)) /\ g.dl = [dl EXCEPT ![t] = d] /\ In(g) = In(h) \cup {t}
  BY <1>2, <1>3, <1>4, InsertedIs
<1>6. Becomes(g)
  BY <1>1, <1>3 DEF Insert
<1>7. Heap' = g
  BY <1>5, <1>6, BecomesHeap
<1>8. HeapInv'
  BY <1>5, <1>7 DEF HeapInv
<1>9. dl' = [dl EXCEPT ![t] = d]
  BY <1>5, <1>6 DEF Becomes
<1> QED
  BY <1>1, <1>5, <1>7, <1>8, <1>9

LEMMA InsertNoMemStep ==
  ASSUME HeapInv, NEW t \in Timers, NEW d \in Deadlines, InsertNoMem(t, d)
  PROVE  HeapInv' /\ dl' = [dl EXCEPT ![t] = d] /\ In(Heap)' = In(Heap) /\ t \notin In(Heap)
<1>1. PICK h, g, n : h = Heap /\ g = Heap' /\ n = Len(heap)
  OBVIOUS
<1>2. Sound(h) /\ Ordered(Keys(h), Size(h)) /\ h.heap = heap /\ h.index = index /\ h.dl = dl
  BY <1>1, HeapParts DEF HeapInv
<1>3. heap' = heap /\ index' = index /\ dl' = [dl EXCEPT ![t] = d] /\ index[t] = 0
  BY DEF InsertNoMem
<1>4. /\ heap \in Seq(Timers) /\ n \in Nat /\ index \in [Timers -> Nat] /\ dl \in [Timers -> Nat]
      /\ Size(h) = n /\ \A i \in 1 .. n : heap[i] \in Timers
      /\ \A i \in 1 .. n : Keys(h)[i] = dl[heap[i]]
  BY <1>1, <1>2, HeapIs
<1>5. dl' \in [Timers -> Nat] /\ \A u \in Timers : u # t => dl'[u] = dl[u]
  BY <1>3, <1>4, HeapAssumption
<1>6. g = [heap |-> heap, index |-> index, dl |-> dl']
  BY <1>1, <1>3 DEF Heap
<1>7. g.heap = heap /\ g.index = index /\ g.dl = dl' /\ Size(g) = n
  BY <1>1, <1>6 DEF Size
<1>8. Sound(g)
  <2>1. g \in Heaps
    BY <1>4, <1>5, <1>6 DEF Heaps
  <2> QED
    BY <1>2, <1>7, <2>1 DEF Sound
<1>9. \A i \in 1 .. n : Keys(g)[i] = Keys(h)[i]
  <2> SUFFICES ASSUME NEW i \in 1 .. n PROVE Keys(g)[i] = Keys(h)[i]
    OBVIOUS
  <2>1. Keys(g)[i] = dl'[heap[i]]
    BY <1>1, <1>7 DEF Keys
  <2>2. index[heap[i]] = i
    BY <1>1, <1>2 DEF Sound
  <2>3. heap[i] # t
    <3>1. i # 0
      BY <1>4
    <3> QED
      BY <1>3, <2>2, <3>1
  <2> QED
    BY <1>4, <1>5, <2>1, <2>3
<1>10. Ordered(Keys(g), Size(g))
  BY <1>2, <1>4, <1>7, <1>9 DEF Ordered
<1>11. HeapInv'
  BY <1>1, <1>8, <1>10 DEF HeapInv
<1>12. In(g) = In(h) /\ t \notin In(h)
  BY <1>2, <1>3, <1>7 DEF In
<1> QED
  BY <1>1, <1>3, <1>11, <1>12

LEMMA HeapKept == HeapInv /\ [Next]_vars => HeapInv'
<1>1. HeapInv /\ UNCHANGED vars => HeapInv'
  BY DEF HeapInv, vars, Heap
<1> QED
  BY <1>1, PopMinStep, RemoveStep, InsertStep, InsertNoMemStep DEF Next

LEMMA HeapAlways == Spec => []HeapInv
BY HeapStart, HeapKept, PTL DEF Spec

LEMMA InHeapIs == HeapInv => InHeap = In(Heap) /\ IndexExact
<1> SUFFICES ASSUME HeapInv PROVE InHeap = In(Heap) /\ IndexExact
  OBVIOUS
<1>1. PICK n : n = Len(heap)
  OBVIOUS
<1>2. /\ \A i \in 1 .. n : index[heap[i]] = i
      /\ \A t \in Timers : index[t] # 0 => index[t] \in 1 .. n /\ heap[index[t]] = t
  BY <1>1, HeapParts DEF HeapInv, Sound
<1>3. n \in Nat /\ \A i \in 1 .. n : heap[i] \in Timers
  BY <1>1, HeapParts, HeapIs DEF HeapInv
<1>4. \A i \in 1 .. n : i # 0
  BY <1>3
<1>5. InHeap = {heap[i] : i \in 1 .. n}
  BY <1>1 DEF InHeap
<1>6. In(Heap) = {t \in Timers : index[t] # 0}
  BY HeapParts DEF In
<1>7. InHeap = In(Heap)
  BY <1>2, <1>3, <1>4, <1>5, <1>6
<1>8. IndexExact
  BY <1>1, <1>2, <1>6, <1>7 DEF IndexExact
<1> QED
  BY <1>7, <1>8

\* Every timer knows its place and the timers outside the heap know that they are, whatever
\* insertions, pops and removals have gone before (IndexExact).
THEOREM PlacesExact == Spec => []IndexExact
<1>1. HeapInv => IndexExact
  BY InHeapIs
<1> QED
  BY <1>1, HeapAlways, PTL

\* The array is a set of armed timers and timer_heap_pop_min takes an earliest one, for any
\* number of timers (Refines).
THEOREM HeapIsSet == Spec => Refines
<1>1. Init => Set!Init
  BY DEF Init, Set!Init, InHeap
<1> DEFINE Same == InHeap = In(Heap)
<1>2. HeapInv => Same
  BY InHeapIs
<1>3. HeapInv' => Same'
  BY <1>2, PTL
<1>4. ASSUME HeapInv, HeapInv', PopMin PROVE \E t \in Timers : Set!TakeMin(t)
  <2>1. PICK t : t = heap[1]
    OBVIOUS
  <2>2. /\ dl' = dl /\ In(Heap)' = In(Heap) \ {t} /\ t \in In(Heap)
        /\ \A u \in In(Heap) : dl[t] <= dl[u]
    BY <1>4, <2>1, PopMinStep
  <2>3. InHeap = In(Heap) /\ InHeap' = In(Heap)'
    BY <1>2, <1>3, <1>4
  <2>4. t \in Timers
    BY <2>2 DEF In
  <2> QED
    BY <2>2, <2>3, <2>4 DEF Set!TakeMin, Set!Earliest
<1>5. HeapInv /\ HeapInv' /\ [Next]_vars => [Set!Next]_<<InHeap, dl>>
  <2> SUFFICES ASSUME HeapInv, HeapInv', [Next]_vars
               PROVE  Set!Next \/ (InHeap' = InHeap /\ dl' = dl)
    OBVIOUS
  <2>1. InHeap = In(Heap) /\ InHeap' = In(Heap)'
    BY <1>2, <1>3
  <2>2. CASE PopMin
    BY <1>4, <2>2 DEF Set!Next
  <2>3. ASSUME NEW t \in Timers, Remove(t) PROVE Set!Next
    <3>1. dl' = dl /\ InHeap' = InHeap \ {t}
      BY <2>1, <2>3, RemoveStep
    <3> QED
      BY <3>1 DEF Set!Next, Set!Disarm
  <2>4. ASSUME NEW t \in Timers, NEW d \in Deadlines, Insert(t, d) PROVE Set!Next
    <3>1. dl' = [dl EXCEPT ![t] = d] /\ InHeap' = InHeap \cup {t}
      BY <2>1, <2>4, InsertStep
    <3> QED
      BY <3>1 DEF Set!Next, Set!Arm
  <2>5. ASSUME NEW t \in Timers, NEW d \in Deadlines, InsertNoMem(t, d) PROVE Set!Next
    <3>1. dl' = [dl EXCEPT ![t] = d] /\ InHeap' = InHeap /\ t \notin InHeap
      BY <2>1, <2>5, InsertNoMemStep
    <3> QED
      BY <3>1 DEF Set!Next, Set!Refuse
  <2>6. CASE UNCHANGED vars
    BY <2>6 DEF vars, InHeap
  <2> QED
    BY <2>2, <2>3, <2>4, <2>5, <2>6 DEF Next
<1>6. HeapInv /\ HeapInv' /\ [Next]_vars => [PopMin => \E t \in Timers : Set!TakeMin(t)]_vars
  BY <1>4
<1> QED
  BY <1>1, <1>5, <1>6, HeapAlways, PTL DEF Spec, Refines, Set!Spec
=============================================================================
