----------------------------- MODULE TimerHeap -----------------------------
(***************************************************************************)
(* The binary heap of ztk_poller_timer pointers: an array ordered by       *)
(* deadline and, in every timer, its place in the array.  Places are       *)
(* counted from 1 and 0 is ZTK_TIMER_HEAP_INDEX_NONE.  All operations run  *)
(* under timer_mtx, so each is one step.                                   *)
(***************************************************************************)
EXTENDS Naturals, Sequences

CONSTANTS Timers, Deadlines

ASSUME HeapAssumption == Deadlines \subseteq Nat

VARIABLES
  heap,    \* timer_heap[0 .. timer_heap_count - 1]
  index,   \* heap_index of every timer
  dl       \* deadline_ms of every timer

vars == <<heap, index, dl>>

TypeOK ==
  /\ heap \in Seq(Timers)
  /\ index \in [Timers -> Nat]
  /\ dl \in [Timers -> Deadlines \cup {0}]

Init ==
  /\ heap = <<>>
  /\ index = [t \in Timers |-> 0]
  /\ dl = [t \in Timers |-> 0]

-----------------------------------------------------------------------------
(* The heap as a value: operators from one to the next                     *)

Heap == [heap |-> heap, index |-> index, dl |-> dl]
Key(h, i) == h.dl[h.heap[i]]

\* Bug: the places stored in the timers are left as they were.
SwapArrayOnly(h, i, j) ==
  [h EXCEPT !.heap[i] = h.heap[j], !.heap[j] = h.heap[i]]

Swap(h, i, j) ==
  [h EXCEPT !.heap[i] = h.heap[j], !.heap[j] = h.heap[i],
            !.index[h.heap[j]] = i, !.index[h.heap[i]] = j]

\* One turn of the loop of timer_heap_bubble_up, at place s.at.
Up(s) ==
  LET parent == s.at \div 2
  IN  IF s.at = 1 \/ Key(s.h, parent) <= Key(s.h, s.at) THEN s
      ELSE [h |-> Swap(s.h, parent, s.at), at |-> parent]

\* As many turns as there are places, of which those after the break change nothing.
BubbleUp(h, i) ==
  LET run[k \in 0 .. i] == IF k = 0 THEN [h |-> h, at |-> i] ELSE Up(run[k - 1])
  IN  run[i].h

\* The smaller child, the left one when they are equal, if it beats i.
Smallest(h, i) ==
  LET left == 2 * i
      right == left + 1
      s == IF left <= Len(h.heap) /\ Key(h, left) < Key(h, i) THEN left ELSE i
  IN  IF right <= Len(h.heap) /\ Key(h, right) < Key(h, s) THEN right ELSE s

\* One turn of the loop of timer_heap_bubble_down.
Down(s) ==
  LET m == Smallest(s.h, s.at)
  IN  IF m = s.at THEN s ELSE [h |-> Swap(s.h, s.at, m), at |-> m]

BubbleDown(h, i) ==
  LET n == Len(h.heap)
      run[k \in 0 .. n] == IF k = 0 THEN [h |-> h, at |-> i] ELSE Down(run[k - 1])
  IN  run[n].h

\* The last timer moves to place i of an array that is one shorter.
FillFromLast(h, i) ==
  LET n == Len(h.heap)
  IN  [h EXCEPT !.heap = SubSeq([h.heap EXCEPT ![i] = h.heap[n]], 1, n - 1),
                !.index[h.heap[n]] = i]

Drop(h, t) == [h EXCEPT !.index[t] = 0]
DropLast(h) == [h EXCEPT !.heap = SubSeq(h.heap, 1, Len(h.heap) - 1)]

Pushed(h, t) ==
  LET n == Len(h.heap) + 1
  IN  BubbleUp([h EXCEPT !.heap = Append(h.heap, t), !.index[t] = n], n)

PoppedMin(h) ==
  LET top == h.heap[1]
      g == Drop(h, top)
  IN  IF Len(h.heap) = 1 THEN DropLast(g) ELSE BubbleDown(FillFromLast(g, 1), 1)

\* Bug: the timer moved into the hole is only moved down.
RemovedDownOnly(h, t) ==
  LET i == h.index[t]
      g == Drop(h, t)
  IN  IF i = 0 THEN h
      ELSE IF i = Len(h.heap) THEN DropLast(g)
      ELSE BubbleDown(FillFromLast(g, i), i)

\* A timer that is not in the heap is left alone.
Removed(h, t) ==
  LET i == h.index[t]
      g == Drop(h, t)
  IN  IF i = 0 \/ i > Len(h.heap) THEN h
      ELSE IF i = Len(h.heap) THEN DropLast(g)
      ELSE BubbleUp(BubbleDown(FillFromLast(g, i), i), i)

\* The deadline is set first, then a timer already in the heap is moved.
Inserted(h, t, d) ==
  LET g == [h EXCEPT !.dl[t] = d]
  IN  Pushed(IF g.index[t] # 0 THEN Removed(g, t) ELSE g, t)

-----------------------------------------------------------------------------
Becomes(h) == heap' = h.heap /\ index' = h.index /\ dl' = h.dl

Insert(t, d) == Becomes(Inserted(Heap, t, d))

\* The array cannot grow: the deadline is set and the timer stays outside.  A timer that was
\* in the array finds its room again.
InsertNoMem(t, d) ==
  /\ index[t] = 0
  /\ dl' = [dl EXCEPT ![t] = d] /\ UNCHANGED <<heap, index>>

PopMin == heap # <<>> /\ Becomes(PoppedMin(Heap))
Remove(t) == Becomes(Removed(Heap, t))

Next ==
  \/ PopMin
  \/ \E t \in Timers : Remove(t) \/ \E d \in Deadlines : Insert(t, d) \/ InsertNoMem(t, d)

Spec == Init /\ [][Next]_vars

-----------------------------------------------------------------------------
(* Properties                                                              *)

InHeap == {heap[i] : i \in 1 .. Len(heap)}

\* Every timer knows its place and the timers outside the heap know that they
\* are: a removal by heap_index never takes out another timer, and no timer is
\* in the array twice (poller_timer.c:36-43, 86-118).
IndexExact ==
  /\ \A i \in 1 .. Len(heap) : index[heap[i]] = i
  /\ \A t \in Timers : t \notin InHeap => index[t] = 0

\* The heap is a set of timers, and pop_min takes an earliest one of them,
\* through any mixture of insertions, re-insertions, pops and removals from
\* the middle (poller_timer.c:86-118, 150-158).  The second conjunct is needed
\* because TimerSet also lets any timer be disarmed.
Set == INSTANCE TimerSet WITH armed <- InHeap
Refines ==
  /\ Set!Spec
  /\ [][PopMin => \E t \in Timers : Set!TakeMin(t)]_vars
=============================================================================
