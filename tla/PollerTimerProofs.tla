-------------------------- MODULE PollerTimerProofs --------------------------
(***************************************************************************)
(* Proofs about PollerTimer, for any number of timers, any delays and any  *)
(* flush limit: every timer has one owner, a cancelled timer stays quiet,  *)
(* and the loop does not oversleep.                                        *)
(***************************************************************************)
EXTENDS PollerTimer, SequenceTheorems, WellFoundedInduction, TLAPS

\* The timers the tasks of s name for op.
Names(s, op) == {s[i].timer : i \in {j \in 1 .. Len(s) : s[j].op = op}}

\* No timer is to be inserted twice by the tasks of s.
Singly(s) ==
  \A i, j \in 1 .. Len(s) :
    s[i].op = "insert" /\ s[j].op = "insert" /\ s[i].timer = s[j].timer => i = j

Typed ==
  /\ armed \in SUBSET Timers /\ dl \in [Timers -> Nat]
  /\ mem \in [Timers -> {"none", "live", "freed"}] /\ cancelled \in [Timers -> BOOLEAN]
  /\ tasks \in Seq(Task) /\ batch \in Seq(Task)
  /\ now \in Nat /\ stamp \in Nat /\ req \in Nat \cup {Forever}
  /\ cur \in Timers \cup {NoTimer} /\ quiet \in SUBSET Timers

\* A timer is out of every list only while its callback runs, and tasks are walked only
\* where drain_tasks walks them.
Places ==
  /\ pc = "callback" => cur # NoTimer
  /\ cur # NoTimer => pc \in {"callback", "undefined"}
  /\ pc \notin {"tasks", "fini", "undefined"} => batch = <<>>

\* No timer is inserted twice, be it by tasks waiting or by tasks being run.
InsertedOnce ==
  /\ Singly(tasks) /\ Singly(batch)
  /\ Names(tasks, "insert") \cap Names(batch, "insert") = {}

\* Whatever acts on a cancellation, the flag is set before.
Flagged ==
  \A t \in Timers :
    t \in marking \cup Names(tasks, "cancel") \cup Names(batch, "cancel") \cup quiet => cancelled[t]

\* The timeout of a wait was computed from the heap as it still is.
Sleep ==
  pc = "wait" =>
    /\ until \in Nat \cup {Forever} /\ asleep \in Nat
    /\ \A t \in armed : until # Forever /\ (until <= dl[t] + asleep - stamp \/ until = asleep)

\* The timers on their way into the heap.
Coming == Names(tasks, "insert") \cup Names(batch, "insert")

\* Timer t is in the heap, in its callback or on its way into the heap, in one of them, and
\* live then; if it is live it is there, unless it was cancelled or found no memory.
Home(t) ==
  /\ ~(t \in armed /\ cur = t) /\ ~(t \in armed /\ t \in Coming) /\ ~(cur = t /\ t \in Coming)
  /\ t \in armed \/ cur = t \/ t \in Coming => mem[t] = "live"
  /\ mem[t] = "live" /\ ~cancelled[t] /\ t \notin dropped =>
       t \in armed \/ cur = t \/ t \in Coming
Homes == \A t \in Timers : Home(t)

TimerInv == Typed /\ Places /\ InsertedOnce /\ Flagged /\ Homes /\ cur \notin quiet /\ Sleep

-----------------------------------------------------------------------------
(* Lists of tasks                                                          *)

LEMMA NamesIn ==
  ASSUME NEW s \in Seq(Task), NEW op
  PROVE  Names(s, op) \subseteq Timers
<1>1. \A i \in 1 .. Len(s) : s[i] \in Task
  OBVIOUS
<1>2. \A i \in 1 .. Len(s) : s[i].timer \in Timers
  BY <1>1 DEF Task
<1> QED
  BY <1>2 DEF Names

LEMMA NamesNone == \A op : Names(<<>>, op) = {}
  BY DEF Names

\* An insertion is put in front.
LEMMA NamesCons ==
  ASSUME NEW s \in Seq(Task), NEW e \in Task, e.op = "insert",
         Singly(s), e.timer \notin Names(s, "insert")
  PROVE  /\ <<e>> \o s \in Seq(Task) /\ Singly(<<e>> \o s)
         /\ Names(<<e>> \o s, "insert") = Names(s, "insert") \cup {e.timer}
         /\ Names(<<e>> \o s, "cancel") = Names(s, "cancel")
<1> DEFINE u == <<e>> \o s
<1>1. /\ u \in Seq(Task) /\ Len(u) = Len(s) + 1 /\ u[1] = e /\ Len(s) \in Nat
      /\ \A i \in 2 .. Len(u) : i - 1 \in 1 .. Len(s) /\ u[i] = s[i - 1]
      /\ \A i \in 1 .. Len(s) : i + 1 \in 2 .. Len(u) /\ u[i + 1] = s[i]
  OBVIOUS
<1> HIDE DEF u
<1>2. \A i \in 1 .. Len(u) : i = 1 \/ i \in 2 .. Len(u)
  BY <1>1
<1>3. 1 \in 1 .. Len(u) /\ \A i \in 2 .. Len(u) : i \in 1 .. Len(u)
  BY <1>1
<1>4. \A i \in 2 .. Len(u) : u[i].op = "insert" => u[i].timer # e.timer
  BY <1>1 DEF Names
<1>5. Singly(u)
  <2> SUFFICES ASSUME NEW i \in 1 .. Len(u), NEW j \in 1 .. Len(u),
                      u[i].op = "insert", u[j].op = "insert", u[i].timer = u[j].timer
               PROVE  i = j
    BY DEF Singly
  <2>1. CASE i = 1 \/ j = 1
    BY <1>1, <1>2, <1>4, <2>1
  <2>2. CASE i \in 2 .. Len(u) /\ j \in 2 .. Len(u)
    <3>1. i - 1 = j - 1
      BY <1>1, <2>2 DEF Singly
    <3> QED
      BY <3>1
  <2> QED
    BY <1>2, <2>1, <2>2
<1>6. ASSUME NEW op \in {"insert", "cancel"}
      PROVE  Names(u, op) = Names(s, op) \cup (IF op = "insert" THEN {e.timer} ELSE {})
  <2>1. ASSUME NEW i \in 1 .. Len(u), u[i].op = op
        PROVE  u[i].timer \in Names(s, op) \cup (IF op = "insert" THEN {e.timer} ELSE {})
    BY <1>1, <1>2, <2>1 DEF Names
  <2>2. ASSUME NEW i \in 1 .. Len(s), s[i].op = op
        PROVE  s[i].timer \in Names(u, op)
    BY <1>1, <1>3, <2>2 DEF Names
  <2>3. op = "insert" => e.timer \in Names(u, op)
    BY <1>1, <1>3 DEF Names
  <2>4. \A x \in Names(u, op) : x \in Names(s, op) \cup (IF op = "insert" THEN {e.timer} ELSE {})
    BY <2>1 DEF Names
  <2>5. \A x \in Names(s, op) : x \in Names(u, op)
    BY <2>2 DEF Names
  <2> QED
    BY <2>3, <2>4, <2>5
<1> QED
  BY <1>1, <1>5, <1>6 DEF u

\* A cancellation is put at the end.
LEMMA NamesAppend ==
  ASSUME NEW s \in Seq(Task), NEW e \in Task, e.op = "cancel", Singly(s)
  PROVE  /\ Append(s, e) \in Seq(Task) /\ Singly(Append(s, e))
         /\ Names(Append(s, e), "insert") = Names(s, "insert")
         /\ Names(Append(s, e), "cancel") = Names(s, "cancel") \cup {e.timer}
<1> DEFINE u == Append(s, e)
<1>1. /\ u \in Seq(Task) /\ Len(u) = Len(s) + 1 /\ u[Len(s) + 1] = e /\ Len(s) \in Nat
      /\ \A i \in 1 .. Len(s) : i \in 1 .. Len(u) /\ u[i] = s[i]
  OBVIOUS
<1> HIDE DEF u
<1>2. (\A i \in 1 .. Len(u) : i = Len(s) + 1 \/ i \in 1 .. Len(s)) /\ Len(s) + 1 \in 1 .. Len(u)
  BY <1>1
<1>3. Singly(u)
  BY <1>1, <1>2 DEF Singly
<1>4. Names(u, "insert") = Names(s, "insert")
  <2>1. \A x \in Names(u, "insert") : x \in Names(s, "insert")
    BY <1>1, <1>2 DEF Names
  <2>2. \A x \in Names(s, "insert") : x \in Names(u, "insert")
    BY <1>1 DEF Names
  <2> QED
    BY <2>1, <2>2
<1>5. Names(u, "cancel") = Names(s, "cancel") \cup {e.timer}
  <2>1. \A x \in Names(u, "cancel") : x \in Names(s, "cancel") \cup {e.timer}
    BY <1>1, <1>2 DEF Names
  <2>2. \A x \in Names(s, "cancel") : x \in Names(u, "cancel")
    BY <1>1 DEF Names
  <2>3. e.timer \in Names(u, "cancel")
    BY <1>1, <1>2 DEF Names
  <2> QED
    BY <2>1, <2>2, <2>3
<1> QED
  BY <1>1, <1>3, <1>4, <1>5 DEF u

\* The first task is taken.
LEMMA NamesTail ==
  ASSUME NEW s \in Seq(Task), s # <<>>, Singly(s)
  PROVE  /\ Head(s) \in Task /\ Tail(s) \in Seq(Task) /\ Singly(Tail(s))
         /\ Head(s).timer \in Names(s, Head(s).op)
         /\ Names(Tail(s), "cancel") \subseteq Names(s, "cancel")
         /\ Head(s).op = "insert" => Names(Tail(s), "insert") = Names(s, "insert") \ {Head(s).timer}
         /\ Head(s).op = "cancel" => Names(Tail(s), "insert") = Names(s, "insert")
<1> DEFINE u == Tail(s)
<1>1. /\ u \in Seq(Task) /\ Len(u) = Len(s) - 1 /\ Len(s) \in Nat \ {0} /\ Head(s) = s[1]
      /\ \A i \in 1 .. Len(u) : u[i] = s[i + 1]
  BY HeadTailProperties, EmptySeq
<1> HIDE DEF u
<1>2. \A i \in 1 .. Len(u) : i + 1 \in 1 .. Len(s) /\ i + 1 # 1
  BY <1>1
<1>3. 1 \in 1 .. Len(s) /\ \A i \in 1 .. Len(s) : i # 1 => i - 1 \in 1 .. Len(u) /\ u[i - 1] = s[i]
  BY <1>1
<1>4. Singly(u)
  <2> SUFFICES ASSUME NEW i \in 1 .. Len(u), NEW j \in 1 .. Len(u),
                      u[i].op = "insert", u[j].op = "insert", u[i].timer = u[j].timer
               PROVE  i = j
    BY DEF Singly
  <2>1. i + 1 = j + 1
    BY <1>1, <1>2 DEF Singly
  <2> QED
    BY <2>1
<1>5. Head(s) \in Task /\ Head(s).timer \in Names(s, Head(s).op)
  BY <1>1, <1>3 DEF Names
<1>6. ASSUME NEW op
      PROVE  \A x \in Names(u, op) : x \in Names(s, op)
  <2> SUFFICES ASSUME NEW i \in 1 .. Len(u), u[i].op = op
               PROVE  u[i].timer \in Names(s, op)
    BY DEF Names
  <2>1. s[i + 1].op = op /\ s[i + 1].timer = u[i].timer /\ i + 1 \in 1 .. Len(s)
    BY <1>1, <1>2
  <2> QED
    BY <2>1 DEF Names
<1>7. \A op : \A x \in Names(s, op) : x \in Names(u, op) \/ (Head(s).op = op /\ x = Head(s).timer)
  BY <1>1, <1>3 DEF Names
<1>8. Head(s).op = "insert" => Head(s).timer \notin Names(u, "insert")
  BY <1>1, <1>2, <1>3 DEF Names, Singly
<1>9. Head(s).op = "insert" => Names(u, "insert") = Names(s, "insert") \ {Head(s).timer}
  BY <1>6, <1>7, <1>8
<1>10. Head(s).op = "cancel" => Names(u, "insert") = Names(s, "insert")
  <2> SUFFICES ASSUME Head(s).op = "cancel"
               PROVE  \A x \in Names(s, "insert") : x \in Names(u, "insert")
    BY <1>6
  <2>1. Head(s).op # "insert"
    OBVIOUS
  <2> QED
    BY <1>7, <2>1
<1> QED
  BY <1>1, <1>4, <1>5, <1>6, <1>9, <1>10 DEF u

-----------------------------------------------------------------------------
(* Steps that move no timer                                                *)

USE DEF heapVars, timerVars, taskVars, flushVars, waitVars, histVars

LEMMA NothingMoves ==
  ASSUME TimerInv, UNCHANGED <<armed, mem, cancelled, tasks, batch, cur, dropped, quiet>>,
         marking' \subseteq marking
  PROVE  InsertedOnce' /\ Flagged' /\ Homes' /\ cur' \notin quiet'
<1>1. Coming' = Coming
  BY DEF Coming, Names
<1>2. InsertedOnce'
  <2>1. Names(tasks, "insert")' = Names(tasks, "insert") /\ Names(batch, "insert")' = Names(batch, "insert")
    BY DEF Names
  <2>2. Singly(tasks)' = Singly(tasks) /\ Singly(batch)' = Singly(batch)
    BY DEF Singly
  <2> QED
    BY <2>1, <2>2 DEF TimerInv, InsertedOnce
<1>3. Names(tasks, "cancel")' = Names(tasks, "cancel") /\ Names(batch, "cancel")' = Names(batch, "cancel")
  BY DEF Names
<1>4. Flagged'
  BY <1>3 DEF TimerInv, Flagged
<1>5. Homes'
  BY <1>1 DEF TimerInv, Homes, Home
<1> QED
  BY <1>2, <1>4, <1>5 DEF TimerInv

\* The heap has an earliest timer unless it is empty.
LEMMA EarliestExists ==
  ASSUME Typed, armed # {}
  PROVE  Heap!Earliest # {}
<1> DEFINE S == {dl[t] : t \in armed}
           R == {ss \in Nat \X Nat : ss[1] < ss[2]}
<1>1. S \in SUBSET Nat /\ S # {}
  BY DEF Typed
<1>2. IsWellFoundedOn(R, Nat)
  BY NatLessThanWellFounded, Zenon DEF OpToRel
<1> HIDE DEF R
<1>3. PICK d \in S : \A y \in S : ~(<<y, d>> \in R)
  <2> HIDE DEF S
  <2> QED
    BY <1>1, <1>2, WFMin
<1>4. \A y \in S : d <= y
  <2> HIDE DEF S
  <2>1. \A y \in S : ~(y < d)
    BY <1>1, <1>3 DEF R
  <2> QED
    BY <1>1, <2>1
<1>5. PICK m \in armed : dl[m] = d
  BY <1>3
<1> QED
  BY <1>4, <1>5 DEF Heap!Earliest

\* The timeout is no longer than the time to the earliest deadline.
LEMMA TimeoutShort ==
  ASSUME Typed
  PROVE  /\ Timeout \in Nat \cup {Forever}
         /\ armed # {} => Timeout # Forever
         /\ \A t \in armed : Timeout <= dl[t] - stamp \/ Timeout = 0
<1>1. CASE armed = {}
  BY <1>1 DEF Timeout, Delay, Typed, Forever
<1>2. CASE armed # {}
  <2> DEFINE m == CHOOSE t \in Heap!Earliest : TRUE
  <2>1. m \in Heap!Earliest
    BY <1>2, EarliestExists
  <2>2. m \in armed /\ \A t \in armed : dl[m] <= dl[t]
    BY <2>1 DEF Heap!Earliest
  <2>3. Delay = IF dl[m] > stamp THEN dl[m] - stamp ELSE 0
    BY <1>2 DEF Delay
  <2> HIDE DEF m
  <2>4. dl[m] \in Nat /\ (\A t \in armed : dl[t] \in Nat) /\ stamp \in Nat
    BY <2>2 DEF Typed
  <2>5. Delay \in Nat /\ (\A t \in armed : Delay <= dl[t] - stamp \/ Delay = 0)
    BY <2>2, <2>3, <2>4
  <2>6. Timeout = IF req = Forever THEN Delay ELSE IF Delay < req THEN Delay ELSE req
    BY <2>5 DEF Timeout, Forever, Typed
  <2>7. Timeout \in Nat /\ Timeout <= Delay
    BY <2>5, <2>6 DEF Typed, Forever
  <2> QED
    BY <2>4, <2>5, <2>7 DEF Forever
<1> QED
  BY <1>1, <1>2

LEMMA FlushEndOK ==
  ASSUME TimerInv, FlushEnd
  PROVE  TimerInv'
<1>1. InsertedOnce' /\ Flagged' /\ Homes' /\ cur' \notin quiet'
  BY NothingMoves DEF FlushEnd
<1>2. /\ Timeout \in Nat \cup {Forever}
      /\ armed # {} => Timeout # Forever
      /\ \A t \in armed : Timeout <= dl[t] - stamp \/ Timeout = 0
  BY TimeoutShort DEF TimerInv
<1>3. Typed'
  <2>1. req' \in Nat \cup {Forever} /\ stamp' \in Nat
    BY <1>2 DEF FlushEnd, Resolve, TimerInv, Typed
  <2> QED
    BY <2>1 DEF FlushEnd, TimerInv, Typed
<1>4. Places'
  BY DEF FlushEnd, Resolve, TimerInv, Places
<1>5. Sleep'
  <2>1. CASE last
    <3>1. /\ until' = IF Timeout = Forever THEN Forever ELSE now + Timeout
          /\ asleep' = now /\ stamp' = stamp /\ armed' = armed /\ dl' = dl
      BY <2>1 DEF FlushEnd
    <3>2. now \in Nat /\ stamp \in Nat /\ \A t \in armed : dl[t] \in Nat
      BY DEF TimerInv, Typed
    <3>3. until' \in Nat \cup {Forever} /\ asleep' \in Nat
      BY <1>2, <3>1, <3>2
    <3>4. ASSUME NEW t \in armed
          PROVE  until' # Forever /\ (until' <= dl[t] + asleep' - stamp \/ until' = asleep')
      <4>1. Timeout \in Nat /\ Timeout # Forever /\ (Timeout <= dl[t] - stamp \/ Timeout = 0)
        BY <1>2
      <4> QED
        BY <3>1, <3>2, <4>1 DEF Forever
    <3> QED
      BY <3>1, <3>3, <3>4 DEF Sleep
  <2>2. CASE ~last
    BY <2>2 DEF FlushEnd, Resolve, Sleep
  <2> QED
    BY <2>1, <2>2
<1> QED
  BY <1>1, <1>3, <1>4, <1>5 DEF TimerInv

\* The other steps of this kind.
LEMMA StillSteps ==
  ASSUME TimerInv,
         \/ \E r \in {PollMs, Forever} : TurnBegins(r)
         \/ WaitOver \/ WaitFd \/ TasksDone \/ StartLoop \/ StopLoop \/ Tick
         \/ \E t \in Timers : RemoteNoMem(t)
         \/ UNCHANGED vars
  PROVE  TimerInv'
<1> USE DEF TurnBegins, Resolve, WaitOver, WaitFd, EventsBegin, TasksDone, StartLoop, StopLoop,
            Tick, RemoteNoMem, vars
<1>1. /\ UNCHANGED <<armed, mem, cancelled, tasks, batch, cur, dropped, quiet>>
      /\ marking' \subseteq marking
  OBVIOUS
<1>2. InsertedOnce' /\ Flagged' /\ Homes' /\ cur' \notin quiet'
  BY <1>1, NothingMoves
<1>3. dl' = dl /\ now' \in Nat /\ stamp' \in Nat /\ req' \in Nat \cup {Forever}
  BY PollerTimerAssumption DEF TimerInv, Typed
<1>4. Typed'
  BY <1>1, <1>3 DEF TimerInv, Typed
<1>5. Places'
  BY <1>1 DEF TimerInv, Places
<1>6. pc' = "wait" => UNCHANGED <<pc, until, asleep, stamp>>
  OBVIOUS
<1>7. Sleep'
  BY <1>1, <1>3, <1>6 DEF TimerInv, Sleep
<1> QED
  BY <1>2, <1>4, <1>5, <1>7 DEF TimerInv

-----------------------------------------------------------------------------
(* Calls of other threads                                                  *)

LEMMA RemoteDelayOK ==
  ASSUME TimerInv, NEW t \in Timers, NEW d \in Delays, RemoteDelay(t, d)
  PROVE  TimerInv'
<1>1. PICK e \in Task : e = [op |-> "insert", timer |-> t, at |-> now + d]
  <2>1. now + d \in 0 .. MaxNow
    BY PollerTimerAssumption DEF RemoteDelay, TimerInv, Typed
  <2>2. [op |-> "insert", timer |-> t, at |-> now + d] \in Task
    BY <2>1 DEF Task
  <2> QED
    BY <2>2
<1>2. /\ mem[t] = "none" /\ mem' = [mem EXCEPT ![t] = "live"] /\ tasks' = <<e>> \o tasks
      /\ UNCHANGED <<armed, dl, cancelled, marking, batch, now, pc, req, last, stamp, left, cur,
                     until, asleep, dropped, quiet>>
  BY <1>1 DEF RemoteDelay
<1>3. e.op = "insert" /\ e.timer = t
  BY <1>1
<1>4. t \notin Coming /\ t \notin armed /\ cur # t
  BY <1>2 DEF TimerInv, Homes, Home
<1>5. tasks \in Seq(Task) /\ Singly(tasks) /\ t \notin Names(tasks, "insert")
  BY <1>4 DEF TimerInv, Typed, InsertedOnce, Coming
<1>6. /\ tasks' \in Seq(Task) /\ Singly(tasks')
      /\ Names(tasks', "insert") = Names(tasks, "insert") \cup {t}
      /\ Names(tasks', "cancel") = Names(tasks, "cancel")
  BY <1>2, <1>3, <1>5, NamesCons
<1>7. Typed'
  BY <1>2, <1>6 DEF TimerInv, Typed
<1>8. Places'
  BY <1>2 DEF TimerInv, Places
<1>9. InsertedOnce'
  <2>1. t \notin Names(batch, "insert")
    BY <1>4 DEF Coming
  <2>2. Singly(batch') /\ Names(batch', "insert") = Names(batch, "insert")
    BY <1>2 DEF TimerInv, InsertedOnce
  <2> QED
    BY <1>6, <2>1, <2>2 DEF TimerInv, InsertedOnce
<1>10. Flagged'
  BY <1>2, <1>6 DEF TimerInv, Flagged
<1>11. Coming' = Coming \cup {t}
  BY <1>2, <1>6 DEF Coming
<1>12. Homes'
  <2>1. mem'[t] = "live" /\ \A u \in Timers : u # t => mem'[u] = mem[u]
    BY <1>2 DEF TimerInv, Typed
  <2>2. Home(t)'
    BY <1>2, <1>4, <1>11, <2>1 DEF Home
  <2>3. \A u \in Timers : u # t => Home(u)'
    BY <1>2, <1>11, <2>1 DEF TimerInv, Homes, Home
  <2> QED
    BY <2>2, <2>3 DEF Homes
<1>13. Sleep' /\ cur' \notin quiet'
  BY <1>2 DEF TimerInv, Sleep
<1> QED
  BY <1>7, <1>8, <1>9, <1>10, <1>12, <1>13 DEF TimerInv

LEMMA RemoteMarkOK ==
  ASSUME TimerInv, NEW t \in Timers, RemoteMark(t)
  PROVE  TimerInv'
<1>1. /\ cancelled' = [cancelled EXCEPT ![t] = TRUE] /\ marking' = marking \cup {t}
      /\ UNCHANGED <<armed, dl, mem, tasks, batch, now, pc, req, last, stamp, left, cur,
                     until, asleep, dropped, quiet>>
  BY DEF RemoteMark
<1>2. /\ cancelled' \in [Timers -> BOOLEAN] /\ cancelled'[t]
      /\ \A u \in Timers : u # t => cancelled'[u] = cancelled[u]
  BY <1>1 DEF TimerInv, Typed
<1>3. Typed' /\ Places'
  BY <1>1, <1>2 DEF TimerInv, Typed, Places
<1>4. InsertedOnce'
  BY <1>1 DEF TimerInv, InsertedOnce
<1>5. Coming' = Coming
  BY <1>1 DEF Coming, Names
<1>6. Names(tasks, "cancel")' = Names(tasks, "cancel") /\ Names(batch, "cancel")' = Names(batch, "cancel")
  BY <1>1 DEF Names
<1>7. Flagged'
  BY <1>1, <1>2, <1>6, Zenon DEF TimerInv, Flagged
<1>8. Homes'
  <2> SUFFICES ASSUME NEW u \in Timers PROVE Home(u)'
    BY DEF Homes
  <2>1. ~cancelled'[u] => ~cancelled[u]
    BY <1>2, Zenon
  <2>2. Home(u)
    BY DEF TimerInv, Homes
  <2> QED
    BY <1>1, <1>5, <2>1, <2>2, Zenon DEF Home
<1>9. Sleep' /\ cur' \notin quiet'
  BY <1>1 DEF TimerInv, Sleep
<1> QED
  BY <1>3, <1>4, <1>7, <1>8, <1>9 DEF TimerInv

LEMMA RemotePostOK ==
  ASSUME TimerInv, NEW t \in Timers, RemotePost(t)
  PROVE  TimerInv'
<1>1. CASE mem[t] = "freed"
  <2>1. /\ UNCHANGED <<armed, dl, mem, cancelled, tasks, batch, now, req, stamp, cur, dropped, quiet>>
        /\ marking' \subseteq marking /\ pc' = "undefined"
    BY <1>1 DEF RemotePost
  <2>2. InsertedOnce' /\ Flagged' /\ Homes' /\ cur' \notin quiet'
    BY <2>1, NothingMoves
  <2> QED
    BY <2>1, <2>2 DEF TimerInv, Typed, Places, Sleep
<1>2. CASE mem[t] # "freed"
  <2>1. PICK e \in Task : e = [op |-> "cancel", timer |-> t, at |-> 0]
    <3>1. 0 \in 0 .. MaxNow
      BY PollerTimerAssumption
    <3>2. [op |-> "cancel", timer |-> t, at |-> 0] \in Task
      BY <3>1 DEF Task
    <3> QED
      BY <3>2
  <2>2. /\ t \in marking /\ marking' = marking \ {t} /\ tasks' = Append(tasks, e)
        /\ UNCHANGED <<armed, dl, mem, cancelled, batch, now, pc, req, last, stamp, left, cur,
                       until, asleep, dropped, quiet>>
    BY <1>2, <2>1 DEF RemotePost
  <2>3. e.op = "cancel" /\ e.timer = t
    BY <2>1
  <2>4. tasks \in Seq(Task) /\ Singly(tasks)
    BY DEF TimerInv, Typed, InsertedOnce
  <2>5. /\ tasks' \in Seq(Task) /\ Singly(tasks')
        /\ Names(tasks', "insert") = Names(tasks, "insert")
        /\ Names(tasks', "cancel") = Names(tasks, "cancel") \cup {t}
    BY <2>2, <2>3, <2>4, NamesAppend
  <2>6. Typed' /\ Places'
    BY <2>2, <2>5 DEF TimerInv, Typed, Places
  <2>7. InsertedOnce'
    BY <2>2, <2>5 DEF TimerInv, InsertedOnce
  <2>8. Flagged'
    BY <2>2, <2>5 DEF TimerInv, Flagged
  <2>9. Coming' = Coming
    BY <2>2, <2>5 DEF Coming
  <2>10. Homes'
    BY <2>2, <2>9 DEF TimerInv, Homes, Home
  <2>11. Sleep' /\ cur' \notin quiet'
    BY <2>2 DEF TimerInv, Sleep
  <2> QED
    BY <2>6, <2>7, <2>8, <2>10, <2>11 DEF TimerInv
<1> QED
  BY <1>1, <1>2

-----------------------------------------------------------------------------
(* The loop thread: timers enter and leave the heap                        *)

LEMMA ArmOrDropIs ==
  ASSUME Typed, NEW t \in Timers, NEW d \in Nat, ArmOrDrop(t, d)
  PROVE  /\ dl' \in [Timers -> Nat] /\ armed' \in SUBSET Timers
         /\ \/ armed' = armed \cup {t} /\ dropped' = dropped
            \/ armed' = armed /\ dropped' = dropped \cup {t}
BY DEF ArmOrDrop, Heap!Arm, Typed

\* Nothing about the lists changes where they do not.
LEMMA ListsStay ==
  ASSUME TimerInv, UNCHANGED <<tasks, batch>>
  PROVE  /\ InsertedOnce' /\ Coming' = Coming
         /\ Names(tasks, "cancel")' = Names(tasks, "cancel")
         /\ Names(batch, "cancel")' = Names(batch, "cancel")
BY DEF TimerInv, InsertedOnce, Coming

LEMMA LocalDelayOK ==
  ASSUME TimerInv, NEW t \in Timers, NEW d \in Delays, LocalDelay(t, d)
  PROVE  TimerInv'
<1>1. /\ pc = "events" /\ mem[t] = "none" /\ mem' = [mem EXCEPT ![t] = "live"]
      /\ UNCHANGED <<cancelled, marking, tasks, batch, now, pc, req, stamp, cur, quiet>>
  BY DEF LocalDelay
<1>2. now + d \in Nat /\ ArmOrDrop(t, now + d) /\ Typed
  BY PollerTimerAssumption DEF LocalDelay, TimerInv, Typed
<1>3. /\ dl' \in [Timers -> Nat] /\ armed' \in SUBSET Timers
      /\ \/ armed' = armed \cup {t} /\ dropped' = dropped
         \/ armed' = armed /\ dropped' = dropped \cup {t}
  BY <1>2, ArmOrDropIs
<1>4. Typed' /\ Places'
  BY <1>1, <1>3 DEF TimerInv, Typed, Places
<1>5. /\ InsertedOnce' /\ Coming' = Coming
      /\ Names(tasks, "cancel")' = Names(tasks, "cancel")
      /\ Names(batch, "cancel")' = Names(batch, "cancel")
  BY <1>1, ListsStay
<1>6. Flagged'
  BY <1>1, <1>5 DEF TimerInv, Flagged
<1>7. Homes'
  <2>1. mem'[t] = "live" /\ \A u \in Timers : u # t => mem'[u] = mem[u]
    BY <1>1, <1>2 DEF Typed
  <2>2. t \notin Coming /\ t \notin armed /\ cur # t
    BY <1>1 DEF TimerInv, Homes, Home
  <2>3. Home(t)'
    BY <1>1, <1>3, <1>5, <2>1, <2>2 DEF Home
  <2>4. \A u \in Timers : u # t => Home(u)'
    BY <1>1, <1>3, <1>5, <2>1 DEF TimerInv, Homes, Home
  <2> QED
    BY <2>3, <2>4 DEF Homes
<1>8. Sleep' /\ cur' \notin quiet'
  BY <1>1 DEF TimerInv, Sleep
<1> QED
  BY <1>4, <1>5, <1>6, <1>7, <1>8 DEF TimerInv

LEMMA LocalCancelOK ==
  ASSUME TimerInv, NEW t \in Timers, LocalCancel(t)
  PROVE  TimerInv'
<1>1. /\ pc = "events" /\ cancelled' = [cancelled EXCEPT ![t] = TRUE]
      /\ armed' = armed \ {t} /\ quiet' = quiet \cup {t}
      /\ UNCHANGED <<dl, mem, marking, tasks, batch, now, pc, req, stamp, cur, dropped>>
  BY DEF LocalCancel, Heap!Disarm
<1>2. /\ cancelled' \in [Timers -> BOOLEAN] /\ cancelled'[t]
      /\ \A u \in Timers : u # t => cancelled'[u] = cancelled[u]
  BY <1>1 DEF TimerInv, Typed
<1>3. Typed' /\ Places'
  BY <1>1, <1>2 DEF TimerInv, Typed, Places
<1>4. /\ InsertedOnce' /\ Coming' = Coming
      /\ Names(tasks, "cancel")' = Names(tasks, "cancel")
      /\ Names(batch, "cancel")' = Names(batch, "cancel")
  BY <1>1, ListsStay
<1>5. Flagged'
  BY <1>1, <1>2, <1>4, Zenon DEF TimerInv, Flagged
<1>6. Homes'
  <2>1. Home(t)'
    <3>1. Home(t)
      BY DEF TimerInv, Homes
    <3>2. t \notin armed'
      BY <1>1
    <3> QED
      BY <1>1, <1>2, <1>4, <3>1, <3>2, Zenon DEF Home
  <2>2. ASSUME NEW u \in Timers, u # t PROVE Home(u)'
    <3>1. Home(u) /\ (cancelled'[u] <=> cancelled[u])
      BY <1>2, <2>2 DEF TimerInv, Homes
    <3>2. u \in armed' <=> u \in armed
      BY <1>1, <2>2
    <3> QED
      BY <1>1, <1>4, <3>1, <3>2, Zenon DEF Home
  <2> QED
    BY <2>1, <2>2 DEF Homes
<1>7. Sleep' /\ cur' \notin quiet'
  BY <1>1, PollerTimerAssumption DEF TimerInv, Places, Sleep
<1> QED
  BY <1>3, <1>4, <1>5, <1>6, <1>7 DEF TimerInv

LEMMA FlushPopOK ==
  ASSUME TimerInv, NEW t \in Timers, FlushPop(t)
  PROVE  TimerInv'
<1>1. /\ pc = "flush" /\ t \in armed /\ armed' = armed \ {t}
      /\ UNCHANGED <<dl, cancelled, marking, tasks, batch, now, req, stamp, dropped, quiet>>
  BY DEF FlushPop, Heap!TakeMin, Heap!Earliest
<1>2. \/ cancelled[t] /\ mem' = [mem EXCEPT ![t] = "freed"] /\ pc' = pc /\ cur' = cur
      \/ ~cancelled[t] /\ mem' = mem /\ pc' = "callback" /\ cur' = t
  BY DEF FlushPop
<1>3. cur = NoTimer /\ batch = <<>> /\ t # NoTimer
  BY <1>1, PollerTimerAssumption DEF TimerInv, Places
<1>4. Typed' /\ Places'
  BY <1>1, <1>2, <1>3 DEF TimerInv, Typed, Places
<1>5. /\ InsertedOnce' /\ Coming' = Coming
      /\ Names(tasks, "cancel")' = Names(tasks, "cancel")
      /\ Names(batch, "cancel")' = Names(batch, "cancel")
  BY <1>1, ListsStay
<1>6. Flagged'
  BY <1>1, <1>5 DEF TimerInv, Flagged
<1>7. Homes'
  <2>1. Home(t) /\ t \notin armed' /\ cur # t
    BY <1>1, <1>3 DEF TimerInv, Homes
  <2>2. \/ cancelled[t] /\ mem'[t] = "freed" /\ cur' # t
        \/ ~cancelled[t] /\ mem'[t] = "live" /\ cur' = t
    BY <1>1, <1>2, <2>1 DEF TimerInv, Typed, Home
  <2>3. Home(t)'
    BY <1>1, <1>5, <2>1, <2>2, Zenon DEF Home
  <2>4. ASSUME NEW u \in Timers, u # t PROVE Home(u)'
    <3>1. Home(u) /\ mem'[u] = mem[u] /\ (u \in armed' <=> u \in armed)
      BY <1>1, <1>2, <2>4 DEF TimerInv, Typed, Homes
    <3>2. cur # u /\ cur' # u
      BY <1>2, <1>3, <2>4, PollerTimerAssumption
    <3> QED
      BY <1>1, <1>5, <3>1, <3>2, Zenon DEF Home
  <2> QED
    BY <2>3, <2>4 DEF Homes
<1>8. Sleep'
  BY <1>1, <1>2 DEF Sleep
<1>9. cur' \notin quiet'
  BY <1>1, <1>2 DEF TimerInv, Flagged
<1> QED
  BY <1>4, <1>5, <1>6, <1>7, <1>8, <1>9 DEF TimerInv

LEMMA CallbackEndOK ==
  ASSUME TimerInv, NEW next \in Delays, CallbackEnd(next)
  PROVE  TimerInv'
<1>1. PICK t \in Timers : t = cur
  BY DEF CallbackEnd, TimerInv, Typed, Places
<1>2. /\ pc = "callback" /\ pc' = "flush" /\ cur' = NoTimer /\ stamp + next \in Nat /\ Typed
      /\ UNCHANGED <<cancelled, marking, tasks, batch, now, req, stamp, quiet>>
  BY PollerTimerAssumption DEF CallbackEnd, TimerInv, Typed
<1>3. \/ ~cancelled[t] /\ ArmOrDrop(t, stamp + next) /\ mem' = mem
      \/ mem' = [mem EXCEPT ![t] = "freed"] /\ UNCHANGED <<armed, dl, dropped>>
  BY <1>1 DEF CallbackEnd
<1>4. /\ dl' \in [Timers -> Nat] /\ armed' \in SUBSET Timers
      /\ \/ /\ mem' = mem
            /\ \/ armed' = armed \cup {t} /\ dropped' = dropped
               \/ armed' = armed /\ dropped' = dropped \cup {t}
         \/ mem' = [mem EXCEPT ![t] = "freed"] /\ armed' = armed /\ dropped' = dropped
  <2>1. CASE ArmOrDrop(t, stamp + next) /\ mem' = mem
    BY <1>2, <2>1, ArmOrDropIs
  <2>2. CASE mem' = [mem EXCEPT ![t] = "freed"] /\ UNCHANGED <<armed, dl, dropped>>
    BY <1>2, <2>2 DEF Typed
  <2> QED
    BY <1>3, <2>1, <2>2
<1>5. Typed' /\ Places'
  BY <1>2, <1>4 DEF TimerInv, Typed, Places
<1>6. /\ InsertedOnce' /\ Coming' = Coming
      /\ Names(tasks, "cancel")' = Names(tasks, "cancel")
      /\ Names(batch, "cancel")' = Names(batch, "cancel")
  BY <1>2, ListsStay
<1>7. Flagged'
  BY <1>2, <1>6 DEF TimerInv, Flagged
<1>8. Homes'
  <2>1. t # NoTimer /\ Home(t)
    BY <1>1, PollerTimerAssumption DEF TimerInv, Homes
  <2>2. t \notin Coming /\ t \notin armed /\ mem[t] = "live"
    BY <1>1, <2>1 DEF Home
  <2>3. Home(t)'
    BY <1>2, <1>4, <1>6, <2>1, <2>2 DEF Home, Typed
  <2>4. ASSUME NEW u \in Timers, u # t PROVE Home(u)'
    <3>1. /\ Home(u) /\ mem'[u] = mem[u] /\ (u \in armed' <=> u \in armed)
          /\ (u \in dropped' <=> u \in dropped)
      BY <1>2, <1>4, <2>4 DEF TimerInv, Typed, Homes
    <3>2. cur # u /\ cur' # u
      BY <1>1, <1>2, <2>4, PollerTimerAssumption
    <3> QED
      BY <1>2, <1>6, <3>1, <3>2, Zenon DEF Home
  <2> QED
    BY <2>3, <2>4 DEF Homes
<1>9. Sleep' /\ cur' \notin quiet'
  BY <1>2, PollerTimerAssumption DEF Sleep, TimerInv, Typed
<1> QED
  BY <1>5, <1>6, <1>7, <1>8, <1>9 DEF TimerInv

LEMMA DrainOK ==
  ASSUME TimerInv, Drain
  PROVE  TimerInv'
<1>1. /\ pc = "events" /\ pc' = "tasks" /\ batch' = tasks /\ tasks' = <<>>
      /\ UNCHANGED <<armed, dl, mem, cancelled, marking, now, req, stamp, cur, dropped, quiet>>
  BY DEF Drain
<1>2. batch = <<>> /\ <<>> \in Seq(Task) /\ Singly(<<>>) /\ Names(<<>>, "insert") = {} /\ Names(<<>>, "cancel") = {}
  BY <1>1, NamesNone DEF TimerInv, Places, Singly
<1>3. Typed' /\ Places'
  BY <1>1, <1>2 DEF TimerInv, Typed, Places
<1>4. InsertedOnce'
  BY <1>1, <1>2 DEF TimerInv, InsertedOnce
<1>5. Coming' = Coming
  BY <1>1, <1>2 DEF Coming
<1>6. Flagged'
  BY <1>1, <1>2 DEF TimerInv, Flagged
<1>7. Homes'
  BY <1>1, <1>5 DEF TimerInv, Homes, Home
<1>8. Sleep' /\ cur' \notin quiet'
  BY <1>1 DEF TimerInv, Sleep
<1> QED
  BY <1>3, <1>4, <1>6, <1>7, <1>8 DEF TimerInv

\* Destroy frees what is in the heap and detaches the tasks.
LEMMA DestroyOK ==
  ASSUME TimerInv, Destroy
  PROVE  TimerInv'
<1>1. /\ pc = "off" /\ pc' = "fini" /\ batch' = tasks /\ tasks' = <<>> /\ armed' = {}
      /\ mem' = [t \in Timers |-> IF t \in armed THEN "freed" ELSE mem[t]]
      /\ UNCHANGED <<dl, cancelled, marking, now, req, stamp, cur, dropped, quiet>>
  BY DEF Destroy
<1>2. batch = <<>> /\ <<>> \in Seq(Task) /\ Singly(<<>>) /\ Names(<<>>, "insert") = {} /\ Names(<<>>, "cancel") = {}
  BY <1>1, NamesNone DEF TimerInv, Places, Singly
<1>3. Typed' /\ Places'
  BY <1>1, <1>2 DEF TimerInv, Typed, Places
<1>4. InsertedOnce'
  BY <1>1, <1>2 DEF TimerInv, InsertedOnce
<1>5. Coming' = Coming
  BY <1>1, <1>2 DEF Coming
<1>6. Flagged'
  BY <1>1, <1>2 DEF TimerInv, Flagged
<1>7. Homes'
  BY <1>1, <1>5 DEF TimerInv, Homes, Home
<1>8. Sleep' /\ cur' \notin quiet'
  BY <1>1 DEF TimerInv, Sleep
<1> QED
  BY <1>3, <1>4, <1>6, <1>7, <1>8 DEF TimerInv

LEMMA RunTaskOK ==
  ASSUME TimerInv, RunTask
  PROVE  TimerInv'
<1>1. batch \in Seq(Task) /\ batch # <<>> /\ Singly(batch)
  BY DEF RunTask, TimerInv, Typed, InsertedOnce
<1>2. PICK e \in Task : e = Head(batch)
  BY <1>1, NamesTail
<1>3. PICK t \in Timers : t = e.timer /\ e.op \in {"insert", "cancel"} /\ e.at \in Nat
  BY PollerTimerAssumption DEF Task
<1>4. /\ pc \in {"tasks", "fini"} /\ batch' = Tail(batch) /\ Typed
      /\ UNCHANGED <<mem, cancelled, marking, tasks, now, req, stamp, cur>>
  BY DEF RunTask, TimerInv
<1>5. /\ batch' \in Seq(Task) /\ Singly(batch')
      /\ t \in Names(batch, e.op)
      /\ Names(batch', "cancel") \subseteq Names(batch, "cancel")
      /\ e.op = "insert" => Names(batch', "insert") = Names(batch, "insert") \ {t}
      /\ e.op = "cancel" => Names(batch', "insert") = Names(batch, "insert")
  BY <1>1, <1>2, <1>3, <1>4, NamesTail
<1>6. Names(tasks', "cancel") = Names(tasks, "cancel") /\ Names(tasks', "insert") = Names(tasks, "insert")
  BY <1>4
<1>7. InsertedOnce'
  BY <1>3, <1>4, <1>5, <1>6 DEF TimerInv, InsertedOnce
<1>8. cur = NoTimer /\ \A u \in Timers : cur # u
  BY <1>4, PollerTimerAssumption DEF TimerInv, Places
<1>9. CASE e.op = "insert"
  <2>1. ArmOrDrop(t, e.at) /\ pc' = pc /\ quiet' = quiet
    BY <1>2, <1>3, <1>9 DEF RunTask
  <2>2. /\ dl' \in [Timers -> Nat] /\ armed' \in SUBSET Timers
        /\ \/ armed' = armed \cup {t} /\ dropped' = dropped
           \/ armed' = armed /\ dropped' = dropped \cup {t}
    BY <1>3, <1>4, <2>1, ArmOrDropIs
  <2>3. Typed' /\ Places' /\ Sleep' /\ cur' \notin quiet'
    BY <1>4, <1>5, <1>8, <2>1, <2>2 DEF TimerInv, Typed, Places, Sleep
  <2>4. Flagged'
    BY <1>4, <1>5, <1>6, <2>1 DEF TimerInv, Flagged
  <2>5. t \in Coming /\ Coming' = Coming \ {t}
    BY <1>5, <1>6, <1>9 DEF Coming, TimerInv, InsertedOnce
  <2>6. Home(t)'
    BY <1>4, <1>8, <2>2, <2>5 DEF TimerInv, Homes, Home
  <2>7. \A u \in Timers : u # t => Home(u)'
    BY <1>4, <1>8, <2>2, <2>5 DEF TimerInv, Homes, Home
  <2> QED
    BY <1>7, <2>3, <2>4, <2>6, <2>7 DEF TimerInv, Homes
<1>10. CASE e.op = "cancel"
  <2>1. Coming' = Coming
    BY <1>5, <1>6, <1>10 DEF Coming
  <2>2. cancelled[t]
    BY <1>5, <1>10 DEF TimerInv, Flagged
  <2>3. \/ /\ armed' = armed \ {t} /\ dl' = dl /\ quiet' = quiet \cup {t} /\ pc' = pc
           /\ dropped' = dropped
        \/ UNCHANGED <<armed, dl, quiet, dropped>> /\ pc' = "undefined"
    BY <1>2, <1>3, <1>10 DEF RunTask, Heap!Disarm
  <2>4. Typed' /\ Places' /\ Sleep' /\ cur' \notin quiet'
    BY <1>4, <1>5, <1>8, <2>3 DEF TimerInv, Typed, Places, Sleep
  <2>5. Flagged'
    BY <1>4, <1>5, <1>6, <2>2, <2>3 DEF TimerInv, Flagged
  <2>6. Homes'
    BY <1>4, <1>8, <2>1, <2>2, <2>3 DEF TimerInv, Homes, Home
  <2> QED
    BY <1>7, <2>4, <2>5, <2>6 DEF TimerInv
<1> QED
  BY <1>3, <1>9, <1>10

-----------------------------------------------------------------------------
(* The theorems                                                            *)

LEMMA TimerInvInit == Init => TimerInv
<1> SUFFICES ASSUME Init PROVE TimerInv
  OBVIOUS
<1>1. tasks = <<>> /\ batch = <<>> /\ <<>> \in Seq(Task) /\ Singly(<<>>)
  BY DEF Init, Singly
<1>2. Names(<<>>, "insert") = {} /\ Names(<<>>, "cancel") = {}
  BY NamesNone
<1>3. Typed /\ Places /\ Sleep /\ cur \notin quiet
  BY <1>1 DEF Init, Heap!Init, Typed, Places, Sleep
<1>4. InsertedOnce /\ Coming = {}
  BY <1>1, <1>2 DEF InsertedOnce, Coming
<1>5. Flagged
  BY <1>1, <1>2 DEF Init, Flagged
<1>6. Homes
  BY <1>4, PollerTimerAssumption DEF Init, Heap!Init, Homes, Home
<1> QED
  BY <1>3, <1>4, <1>5, <1>6 DEF TimerInv

LEMMA TimerInvNext == TimerInv /\ [Next]_vars => TimerInv'
<1> SUFFICES ASSUME TimerInv, [Next]_vars PROVE TimerInv'
  OBVIOUS
<1>1. CASE \/ \E r \in {PollMs, Forever} : TurnBegins(r)
           \/ WaitOver \/ WaitFd \/ TasksDone \/ StartLoop \/ StopLoop \/ Tick
           \/ \E t \in Timers : RemoteNoMem(t)
           \/ UNCHANGED vars
  BY <1>1, StillSteps
<1>2. CASE FlushEnd
  BY <1>2, FlushEndOK
<1>3. CASE \E t \in Timers, d \in Delays : RemoteDelay(t, d)
  BY <1>3, RemoteDelayOK
<1>4. CASE \E t \in Timers : RemoteMark(t)
  BY <1>4, RemoteMarkOK
<1>5. CASE \E t \in Timers : RemotePost(t)
  BY <1>5, RemotePostOK
<1>6. CASE \E t \in Timers, d \in Delays : LocalDelay(t, d)
  BY <1>6, LocalDelayOK
<1>7. CASE \E t \in Timers : LocalCancel(t)
  BY <1>7, LocalCancelOK
<1>8. CASE \E t \in Timers : FlushPop(t)
  BY <1>8, FlushPopOK
<1>9. CASE \E next \in Delays : CallbackEnd(next)
  BY <1>9, CallbackEndOK
<1>10. CASE Drain
  BY <1>10, DrainOK
<1>11. CASE RunTask
  BY <1>11, RunTaskOK
<1>12. CASE Destroy
  BY <1>12, DestroyOK
<1> QED
  BY <1>1, <1>2, <1>3, <1>4, <1>5, <1>6, <1>7, <1>8, <1>9, <1>10, <1>11, <1>12
  DEF Next, Remote, Local, LoopStep, Over

LEMMA TimerInvHolds == Spec => []TimerInv
  BY TimerInvInit, TimerInvNext, PTL DEF Spec

\* Every timer of every poller has one owner at every moment, the heap, its callback or the
\* task that will arm it, and is live while it has one; so flush_expired_timers, destroy and
\* the tasks never free a timer twice, call one that is freed, or lose one
\* (poller_timer.c:160-208, 229-305).
THEOREM TimersHaveOneOwner == Spec => []SingleOwner
<1>1. TimerInv => SingleOwner
  <2> SUFFICES ASSUME TimerInv PROVE SingleOwner
    OBVIOUS
  <2>1. Named("insert") = Coming
    BY DEF Named, Coming, Names
  <2>2. tasks \in Seq(Task) /\ batch \in Seq(Task) /\ armed \subseteq Timers /\ cur \in Timers \cup {NoTimer}
    BY DEF TimerInv, Typed
  <2>3. Coming \subseteq Timers
    BY <2>2, NamesIn DEF Coming
  <2>4. Calling \subseteq Timers /\ \A t \in Timers : t \in Calling <=> cur = t
    BY <2>2, PollerTimerAssumption DEF Calling
  <2>5. \A t \in Timers : Home(t)
    BY DEF TimerInv, Homes
  <2>6. armed \cap Calling = {} /\ armed \cap Coming = {} /\ Calling \cap Coming = {}
    BY <2>2, <2>3, <2>4, <2>5 DEF Home
  <2>7. \A t \in armed \cup Calling \cup Coming : mem[t] = "live"
    BY <2>2, <2>3, <2>4, <2>5 DEF Home
  <2>8. \A t \in Timers :
          mem[t] = "live" /\ ~cancelled[t] /\ t \notin dropped => t \in armed \cup Calling \cup Coming
    BY <2>4, <2>5 DEF Home
  <2> QED
    BY <2>1, <2>6, <2>7, <2>8 DEF SingleOwner
<1> QED
  BY <1>1, TimerInvHolds, PTL

\* No callback is called for a timer whose cancellation has taken effect on the loop thread,
\* whichever thread asked for it and whether or not its insertion was still waiting
\* (poller_timer.c:185, 272-305).
THEOREM CancelledStaysQuiet == Spec => []QuietAfterCancel
<1>1. TimerInv => QuietAfterCancel
  BY DEF TimerInv, QuietAfterCancel, Calling
<1> QED
  BY <1>1, TimerInvHolds, PTL

\* A waiting loop oversleeps no armed timer by more than its last flush took, for every timeout
\* asked for and every limit on the timers of one flush (poller_timer.c:176-227).
THEOREM NoOversleep == Spec => []SleepBounded
<1>1. TimerInv => SleepBounded
  BY DEF TimerInv, Sleep, SleepBounded
<1> QED
  BY <1>1, TimerInvHolds, PTL
=============================================================================
