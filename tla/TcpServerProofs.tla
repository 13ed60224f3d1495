--------------------------- MODULE TcpServerProofs ---------------------------
(***************************************************************************)
(* Proofs about TcpServer: the life of the sessions, the manager walk, and *)
(* stop, for any number of pollers and connections and whatever poller a   *)
(* session is given to.                                                    *)
(***************************************************************************)
EXTENDS TcpServer, SequenceTheorems, WellFoundedInduction, TLAPS

\* The types of the variables the proofs are about.
Shape ==
  /\ backlog \subseteq Conns /\ fresh \subseteq Conns
  /\ mem \in [Conns -> {"none", "live", "freed"}]
  /\ home \in [Conns -> Pollers \cup {None}]
  /\ sessions \in Seq(Conns)
  /\ pc \in [Pollers -> Places] /\ ret \in [Pollers -> {"poll", "recv", "managed"}]
  /\ cur \in [Pollers -> Conns \cup {None}] /\ subj \in [Pollers -> Conns \cup {None}]
  /\ target \in [Pollers -> Pollers \cup {None}]
  /\ idx \in [Pollers -> Nat \ {0}]

\* Loop threads run handlers only while the pool is on.
Quiet == pool = "off" => \A p \in Pollers : pc[p] = "poll"

\* A connection that has not been accepted has no session, and cannot be opened twice.
NotYet ==
  /\ fresh \cap backlog = {}
  /\ \A c \in fresh \cup backlog : mem[c] = "none"

\* The session a thread is removing is its own: it exists, and the thread's poller delivers
\* its events.
OwnCur ==
  \A p \in Pollers : pc[p] \in Removing =>
    cur[p] \in Conns /\ mem[cur[p]] = "live" /\ home[cur[p]] = p

\* The session a thread is creating is no other thread's new session.  Its poller may have
\* freed it, if that is another one.
NewCur ==
  \A p \in Pollers : pc[p] = "created" =>
    /\ cur[p] \in Conns /\ target[p] \in Pollers
    /\ \/ mem[cur[p]] = "live" /\ home[cur[p]] = target[p]
       \/ mem[cur[p]] = "freed" /\ target[p] # p
    /\ \A q \in Pollers \ {p} : pc[q] = "created" => cur[q] # cur[p]

\* It is not yet, or no longer, in the list.
Unlisted ==
  \A p \in Pollers : pc[p] \in {"created", "free"} => cur[p] \notin Range(sessions)

\* The session whose on_recv runs is not freed under it: what on_recv closes is another.
OwnSubj ==
  \A p \in Pollers : pc[p] = "recv" \/ (pc[p] \in Removing /\ ret[p] = "recv") =>
    /\ subj[p] \in Conns /\ mem[subj[p]] = "live" /\ home[subj[p]] = p
    /\ pc[p] # "recv" => subj[p] # cur[p]

Listed == IsInjective(sessions) /\ \A c \in Range(sessions) : mem[c] = "live"

Found ==
  \A c \in Conns : mem[c] = "live" =>
    \/ c \in Range(sessions)
    \/ \E p \in Pollers : cur[p] = c /\ pc[p] \in {"created", "free"}

HomeInv ==
  Shape /\ Quiet /\ NotYet /\ OwnCur /\ NewCur /\ Unlisted /\ OwnSubj /\ Listed /\ Found

\* A session gets into use after it was freed only where it was given to another poller.
HarmOK == harm = "session" => \E p \in Pollers : pc[p] = "created" /\ target[p] # p

\* What keeps stop's promise: but for the timers that failed starts left, the timers armed
\* are those the bindings know; and only pollers that the running start has reached, or that
\* the running stop has not, know the listening fd.
Arming ==
  /\ armed \in [Pollers -> Nat] /\ handle \in [Pollers -> BOOLEAN]
  /\ reg \subseteq Pollers /\ at \in 1 .. NPollers + 1 /\ left \subseteq Pollers
  /\ app \in {"idle", "add", "arm", "cancel", "del"}
  /\ \A p \in Pollers : handle[p] => armed[p] > 0
  /\ \A p \in Pollers \ left : armed[p] = IF handle[p] THEN 1 ELSE 0
  /\ app = "idle" /\ ~started =>
       (~halfway => reg = {}) /\ \A p \in Pollers \ left : ~handle[p]
  /\ app = "add" => /\ ~started /\ \A p \in reg : p < at
                    /\ \A p \in Pollers \ left : handle[p] => p < at
  /\ app = "arm" => /\ ~started /\ at <= NPollers /\ \A p \in reg : p <= at
                    /\ \A p \in Pollers \ left : handle[p] => p < at
  /\ app = "cancel" => /\ \A p \in reg : p >= at
                       /\ \A p \in Pollers : handle[p] => p >= at
  /\ app = "del" => /\ at <= NPollers /\ \A p \in reg : p >= at
                    /\ \A p \in Pollers : handle[p] => p > at

\* Where thread p is in its walk: the walk itself, on_manager, or a removal made by it.
InVisit(p) == pc[p] = "managed" \/ (pc[p] \in Removing /\ ret[p] = "managed")
InWalk(p) == pc[p] = "walk" \/ InVisit(p)

\* The next place of the list the walk has not yet come to.
Ahead(p) == IF InVisit(p) THEN idx[p] + 1 ELSE idx[p]

WalkShape ==
  /\ closing \subseteq Conns
  /\ seen \in [Pollers -> SUBSET Conns] /\ due \in [Pollers -> SUBSET Conns]
  /\ moved \in [Pollers -> BOOLEAN]

\* A session that was visited is behind the walk, wherever removals moved it, or gone.
BehindAt(p) ==
  \A c \in seen[p] :
    /\ InWalk(p) /\ mem[c] # "none"
    /\ \A i \in 1 .. Len(sessions) : sessions[i] = c => i < Ahead(p)
    /\ \A q \in Pollers : pc[q] = "created" => cur[q] # c

\* As long as nothing was removed, a session that was due and has not been visited is ahead,
\* and only this thread could be about to remove it.
WaitingAt(p) ==
  /\ \A c \in due[p] : mem[c] # "none"
  /\ InWalk(p) /\ ~moved[p] =>
       /\ pc[p] # "free"
       /\ \A c \in due[p] \ seen[p] :
            /\ \E i \in Ahead(p) .. Len(sessions) : sessions[i] = c
            /\ home[c] = p /\ (c \in closing => pc[p] = "unlink" /\ cur[p] = c)

WalkInv == WalkShape /\ \A p \in Pollers : BehindAt(p) /\ WaitingAt(p)

-----------------------------------------------------------------------------
(* The list                                                                *)

\* A sequence of sessions, its entries and its length.
LEMMA ListFacts ==
  ASSUME NEW s \in Seq(Conns)
  PROVE  /\ Len(s) \in Nat /\ DOMAIN s = 1 .. Len(s)
         /\ Range(s) = {s[i] : i \in 1 .. Len(s)}
         /\ Range(s) \subseteq Conns
<1>1. Len(s) \in Nat /\ DOMAIN s = 1 .. Len(s) /\ \A i \in 1 .. Len(s) : s[i] \in Conns
  OBVIOUS
<1>2. Range(s) = {s[i] : i \in 1 .. Len(s)}
  BY <1>1 DEF Range
<1> QED
  BY <1>1, <1>2

\* session_list_add puts a session that is not listed at the end.
LEMMA AppendOK ==
  ASSUME NEW s \in Seq(Conns), IsInjective(s), NEW c \in Conns, c \notin Range(s)
  PROVE  /\ Append(s, c) \in Seq(Conns) /\ IsInjective(Append(s, c))
         /\ Range(Append(s, c)) = Range(s) \cup {c}
<1> DEFINE u == Append(s, c)
<1>1. /\ u \in Seq(Conns) /\ Len(u) = Len(s) + 1 /\ u[Len(s) + 1] = c
      /\ \A i \in 1 .. Len(s) : u[i] = s[i]
  BY AppendProperties
<1> HIDE DEF u
<1>2. /\ Len(s) \in Nat /\ DOMAIN s = 1 .. Len(s) /\ DOMAIN u = 1 .. Len(s) + 1
      /\ Range(s) = {s[i] : i \in 1 .. Len(s)}
      /\ Range(u) = {u[i] : i \in 1 .. Len(s) + 1}
  BY <1>1, ListFacts
<1>3. \A i \in 1 .. Len(s) + 1 : i \in 1 .. Len(s) \/ i = Len(s) + 1
  BY <1>2
<1>4. \A i \in 1 .. Len(s) : s[i] # c
  BY <1>2
<1>5. IsInjective(u)
  BY <1>1, <1>2, <1>3, <1>4 DEF IsInjective
<1>6. Range(u) = Range(s) \cup {c}
  <2>1. Len(s) + 1 \in 1 .. Len(s) + 1 /\ 1 .. Len(s) \subseteq 1 .. Len(s) + 1
    BY <1>2
  <2> QED
    BY <1>1, <1>2, <1>3, <2>1
<1> QED
  BY <1>1, <1>5, <1>6 DEF u

\* session_list_remove takes exactly one session out, and no other gets a later place.
LEMMA WithoutOK ==
  ASSUME sessions \in Seq(Conns), IsInjective(sessions), NEW c \in Range(sessions)
  PROVE  /\ Without(c) \in Seq(Conns) /\ IsInjective(Without(c))
         /\ Range(Without(c)) = Range(sessions) \ {c}
         /\ Len(Without(c)) = Len(sessions) - 1
         /\ \A i \in 1 .. Len(Without(c)) :
              \E j \in i .. Len(sessions) : Without(c)[i] = sessions[j]
<1> DEFINE n == Len(sessions)
           k == CHOOSE j \in 1 .. n : sessions[j] = c
           u == [sessions EXCEPT ![k] = sessions[n]]
           w == SubSeq(u, 1, n - 1)
<1>1. n \in Nat /\ DOMAIN sessions = 1 .. n /\ Range(sessions) = {sessions[i] : i \in 1 .. n}
      /\ \A i \in 1 .. n : sessions[i] \in Conns
  BY ListFacts
<1>2. k \in 1 .. n /\ sessions[k] = c
  BY <1>1
<1>3. Without(c) = w
  BY DEF Without
<1> HIDE DEF k
<1>4. \A i \in 1 .. n : u[i] = IF i = k THEN sessions[n] ELSE sessions[i]
  BY <1>1
<1> HIDE DEF u, n
<1>5. n \in 1 .. n /\ n - 1 \in Nat
  BY <1>1, <1>2
<1>6. \A i \in 1 .. n - 1 : u[i] \in Conns
  BY <1>1, <1>4, <1>5
<1>7. /\ w \in Seq(Conns) /\ Len(w) = n - 1
      /\ \A i \in 1 .. n - 1 : w[i] = u[i]
  BY <1>5, <1>6, SubSeqProperties
<1> HIDE DEF w
<1>8. \A i \in 1 .. n - 1 : i \in 1 .. n /\ w[i] = IF i = k THEN sessions[n] ELSE sessions[i]
  BY <1>1, <1>4, <1>7
<1>9. DOMAIN w = 1 .. n - 1 /\ Range(w) = {w[i] : i \in 1 .. n - 1}
  BY <1>7, ListFacts
<1>10. \A i, j \in 1 .. n : sessions[i] = sessions[j] => i = j
  BY <1>1 DEF IsInjective
<1>11. IsInjective(w)
  <2> SUFFICES ASSUME NEW i \in 1 .. n - 1, NEW j \in 1 .. n - 1, w[i] = w[j]
               PROVE  i = j
    BY <1>9 DEF IsInjective
  <2>1. i # n /\ j # n
    BY <1>1
  <2> QED
    BY <1>5, <1>8, <1>10, <2>1
<1>12. Range(w) = Range(sessions) \ {c}
  <2>1. ASSUME NEW x \in Range(w)
        PROVE  x \in Range(sessions) \ {c}
    <3>1. PICK i \in 1 .. n - 1 : x = w[i]
      BY <1>9
    <3>2. i # n
      BY <1>1
    <3> QED
      BY <1>1, <1>2, <1>5, <1>8, <1>10, <3>1, <3>2
  <2>2. ASSUME NEW x \in Range(sessions) \ {c}
        PROVE  x \in Range(w)
    <3>1. PICK i \in 1 .. n : x = sessions[i] /\ i # k
      BY <1>1, <1>2
    <3>2. CASE i = n
      <4>1. k \in 1 .. n - 1 /\ w[k] = x
        BY <1>1, <1>2, <1>8, <3>1, <3>2
      <4> QED
        BY <1>9, <4>1
    <3>3. CASE i # n
      <4>1. i \in 1 .. n - 1 /\ w[i] = x
        BY <1>1, <1>8, <3>1, <3>3
      <4> QED
        BY <1>9, <4>1
    <3> QED
      BY <3>2, <3>3
  <2> QED
    BY <2>1, <2>2
<1>13. \A i \in 1 .. n - 1 : \E j \in i .. n : w[i] = sessions[j]
  <2> SUFFICES ASSUME NEW i \in 1 .. n - 1
               PROVE  \E j \in i .. n : w[i] = sessions[j]
    OBVIOUS
  <2>1. n \in i .. n /\ i \in i .. n
    BY <1>1
  <2> QED
    BY <1>8, <2>1
<1> QED
  BY <1>3, <1>7, <1>11, <1>12, <1>13 DEF n

\* The walk's next entry exists and is the first one.
LEMMA MinOK ==
  ASSUME NEW S \in SUBSET Nat, S # {}
  PROVE  Min(S) \in S /\ \A x \in S : Min(S) <= x
<1> DEFINE R == {ss \in Nat \X Nat : ss[1] < ss[2]}
<1>1. IsWellFoundedOn(R, Nat)
  BY NatLessThanWellFounded, Zenon DEF OpToRel
<1> HIDE DEF R
<1>2. PICK m \in S : \A y \in S : ~(<<y, m>> \in R)
  BY <1>1, WFMin
<1>3. \A y \in S : ~(y < m)
  BY <1>2 DEF R
<1>4. \E x \in S : \A y \in S : x <= y
  BY <1>3
<1> QED
  BY <1>4 DEF Min

-----------------------------------------------------------------------------
(* The life of a session                                                   *)

\* Steps that leave sessions and loop threads alone.
LEMMA HomeFrame ==
  ASSUME HomeInv, UNCHANGED <<sessVars, cur, ret, target, subj, idx>>, Shape', Quiet',
         \A q \in Pollers : pc'[q] = pc[q] \/ pc'[q] \in {"closed", "stale"},
         \A q \in Pollers : pc[q] \in {"created", "free"} => pc'[q] = pc[q],
         backlog' \subseteq backlog, fresh' = fresh
  PROVE  HomeInv'
<1> USE DEF sessVars
<1>1. NotYet'
  BY DEF HomeInv, Shape, NotYet
<1>2. OwnCur' /\ NewCur' /\ Unlisted' /\ OwnSubj'
  BY DEF HomeInv, OwnCur, NewCur, Unlisted, OwnSubj, Removing
<1>3. Listed' /\ Found'
  BY DEF HomeInv, Listed, Found
<1> QED
  BY <1>1, <1>2, <1>3 DEF HomeInv

\* The steps of the application's thread.
LEMMA HomeApplication ==
  ASSUME HomeInv, Application \/ StopReturns
  PROVE  HomeInv'
<1> USE DEF appVars, regVars, sessVars, loopVars, walkVars, netVars
<1>1. CASE PoolStart \/ PoolStop
  <2>1. UNCHANGED <<sessVars, loopVars>> /\ backlog' = backlog /\ fresh' = fresh
    BY <1>1 DEF PoolStart, PoolStop
  <2>2. Quiet'
    BY <1>1 DEF PoolStart, PoolStop, Quiet
  <2>3. Shape'
    BY <2>1 DEF HomeInv, Shape
  <2> QED
    BY <2>1, <2>2, <2>3, HomeFrame
<1>2. CASE StartAdd \/ StartArm \/ StartFails \/ StartDone \/ Stop \/ StopCancel \/ StopDone
  <2>1. UNCHANGED <<sessVars, loopVars, pool, fresh, backlog>>
    BY <1>2 DEF StartAdd, StartArm, StartFails, StartDone, Stop, StopCancel, StopDone
  <2>2. Quiet' /\ Shape'
    BY <2>1 DEF HomeInv, Quiet, Shape
  <2> QED
    BY <2>1, <2>2, HomeFrame
<1>3. CASE Destroy
  <2>1. /\ UNCHANGED <<pool, fresh, loopVars>> /\ sessions' = <<>> /\ backlog' = {}
        /\ mem' = [c \in Conns |-> IF c \in Range(sessions) THEN "freed" ELSE mem[c]]
        /\ home' = [c \in Conns |-> IF c \in Range(sessions) THEN None ELSE home[c]]
        /\ \A p \in Pollers : pc[p] = "poll"
    BY <1>3 DEF Destroy, HomeInv, Quiet
  <2>2. Range(sessions') = {} /\ IsInjective(sessions')
    BY <2>1 DEF Range, IsInjective
  <2>3. Shape' /\ Quiet'
    BY <2>1 DEF HomeInv, Shape, Quiet
  <2>4. NotYet'
    BY <2>1 DEF HomeInv, Shape, NotYet, Listed
  <2>5. OwnCur' /\ NewCur' /\ Unlisted' /\ OwnSubj'
    BY <2>1 DEF HomeInv, OwnCur, NewCur, Unlisted, OwnSubj, Removing
  <2>6. Listed'
    BY <2>1, <2>2 DEF Listed
  <2>7. Found'
    <3> SUFFICES ASSUME NEW c \in Conns, mem'[c] = "live"
                 PROVE  FALSE
      BY DEF Found
    <3>1. c \notin Range(sessions) /\ mem[c] = "live"
      BY <2>1
    <3> QED
      BY <2>1, <3>1 DEF HomeInv, Found
  <2> QED
    BY <2>3, <2>4, <2>5, <2>6, <2>7 DEF HomeInv
<1>4. CASE StopDel \/ \E ok \in ListenResults : StartListen(ok)
  <2>1. /\ UNCHANGED <<sessVars, cur, ret, target, subj, idx, pool, fresh>>
        /\ backlog' \subseteq backlog /\ pc' \in [Pollers -> Places]
        /\ \A q \in Pollers : pc'[q] = pc[q] \/ pc[q] \in {"found", "closed"}
        /\ \A q \in Pollers : pc'[q] = pc[q] \/ pc'[q] \in {"closed", "stale"}
    <3>1. CASE StopDel
      BY <3>1 DEF StopDel, HomeInv, Shape, Places
    <3>2. CASE \E ok \in ListenResults : StartListen(ok)
      BY <3>2 DEF StartListen, Relisten, HomeInv, Shape, Places
    <3> QED
      BY <1>4, <3>1, <3>2
  <2>2. Quiet' /\ Shape'
    BY <2>1 DEF HomeInv, Quiet, Shape
  <2> QED
    BY <2>1, <2>2, HomeFrame
<1> QED
  BY <1>1, <1>2, <1>3, <1>4 DEF Application, StopReturns

\* A step of thread p, as far as the other threads go.
Moves(p) ==
  /\ Shape' /\ pool' = pool
  /\ \A q \in Pollers \ {p} :
       /\ pc'[q] = pc[q] /\ cur'[q] = cur[q] /\ ret'[q] = ret[q]
       /\ subj'[q] = subj[q] /\ idx'[q] = idx[q] /\ target'[q] = target[q]

\* on_recv has returned: thread p goes on to remove the session, or back to its poller.
LEMMA RecvEndsIs ==
  ASSUME HomeInv, NEW p \in Pollers, NEW eof \in BOOLEAN, RecvEnds(p, eof)
  PROVE  /\ Moves(p) /\ subj'[p] = None /\ pc[p] = "recv"
         /\ \/ pc'[p] = "mark" /\ ret'[p] = "poll" /\ cur'[p] = subj[p]
            \/ pc'[p] = "poll"
<1> USE DEF appVars, regVars, sessVars, loopVars, walkVars, netVars, Goto
<1>1. PICK d \in Conns \cup {None} : d = subj[p]
  BY DEF HomeInv, Shape
<1>2. /\ pc[p] = "recv" /\ subj' = [subj EXCEPT ![p] = None]
      /\ UNCHANGED <<target, idx, pool, mem, home, sessions, fresh, backlog>>
  BY DEF RecvEnds
<1>3. CASE eof
  <2>1. /\ cur' = [cur EXCEPT ![p] = d] /\ ret' = [ret EXCEPT ![p] = "poll"]
        /\ pc' = [pc EXCEPT ![p] = "mark"]
    BY <1>1, <1>3 DEF RecvEnds, SessionRemove
  <2> QED
    BY <1>1, <1>2, <2>1 DEF HomeInv, Shape, Moves, Places
<1>4. CASE ~eof
  <2>1. pc' = [pc EXCEPT ![p] = "poll"] /\ UNCHANGED <<cur, ret>>
    BY <1>4 DEF RecvEnds
  <2> QED
    BY <1>2, <2>1 DEF HomeInv, Shape, Moves, Places
<1> QED
  BY <1>3, <1>4

\* Steps of thread p that only move it and set what it works on.
LEMMA HomeMove ==
  ASSUME HomeInv, NEW p \in Pollers, pool # "off", Moves(p),
         UNCHANGED <<mem, home, sessions, fresh, backlog>>,
         pc[p] \notin {"created", "free"}, pc'[p] \notin {"created", "free"},
         pc'[p] \in Removing => cur'[p] \in Conns /\ mem[cur'[p]] = "live" /\ home[cur'[p]] = p,
         pc'[p] = "recv" \/ (pc'[p] \in Removing /\ ret'[p] = "recv") =>
           /\ subj'[p] \in Conns /\ mem[subj'[p]] = "live" /\ home[subj'[p]] = p
           /\ pc'[p] # "recv" => subj'[p] # cur'[p]
  PROVE  HomeInv'
<1> USE DEF HomeInv, Moves
<1>1. Shape' /\ Quiet' /\ NotYet' /\ Listed'
  BY DEF Quiet, NotYet, Listed
<1>2. OwnCur' /\ NewCur' /\ Unlisted'
  BY DEF OwnCur, NewCur, Unlisted, Removing
<1>3. OwnSubj'
  BY DEF OwnSubj, Removing
<1>4. Found'
  BY DEF Found
<1> QED
  BY <1>1, <1>2, <1>3, <1>4

\* The walk stops at an entry of the list.
LEMMA VisitedEntry ==
  ASSUME sessions \in Seq(Conns), idx \in [Pollers -> Nat \ {0}],
         NEW p \in Pollers, ToVisit(p) # {}
  PROVE  LET i == Min(ToVisit(p)) IN
         /\ i \in idx[p] .. Len(sessions) /\ i \in 1 .. Len(sessions)
         /\ sessions[i] \in Conns /\ sessions[i] \notin closing /\ home[sessions[i]] = p
         /\ \A j \in ToVisit(p) : i <= j
<1>1. ToVisit(p) \in SUBSET Nat /\ idx[p] \in Nat \ {0} /\ Len(sessions) \in Nat
  BY DEF ToVisit
<1> DEFINE i == Min(ToVisit(p))
<1>2. i \in ToVisit(p) /\ \A j \in ToVisit(p) : i <= j
  BY <1>1, MinOK
<1> HIDE DEF i
<1>3. /\ i \in idx[p] .. Len(sessions) /\ i \in 1 .. Len(sessions)
      /\ sessions[i] \notin closing /\ home[sessions[i]] = p
  BY <1>1, <1>2 DEF ToVisit
<1>4. sessions[i] \in Conns
  BY <1>3
<1> QED
  BY <1>2, <1>3, <1>4 DEF i

\* A thread that is in a handler runs in a pool that is on.
LEMMA Running ==
  ASSUME HomeInv, NEW p \in Pollers, pc[p] # "poll"
  PROVE  pool # "off"
BY DEF HomeInv, Quiet

\* The steps at which a loop thread takes up an event.
LEMMA HomeEvent ==
  ASSUME HomeInv, NEW p \in Pollers, Event(p)
  PROVE  HomeInv'
<1> USE DEF appVars, regVars, sessVars, loopVars, walkVars, netVars, Goto
<1>1. CASE AcceptEvent(p)
  <2>1. /\ Moves(p)
        /\ UNCHANGED <<mem, home, sessions, fresh, backlog>>
        /\ pc'[p] = "found" /\ pool # "off" /\ pc[p] = "poll"
    BY <1>1 DEF AcceptEvent, Polling, HomeInv, Shape, Moves, Places
  <2> QED
    BY <2>1, HomeMove DEF Removing
<1>2. CASE ManagerEvent(p)
  <2>1. /\ Moves(p)
        /\ UNCHANGED <<mem, home, sessions, fresh, backlog>>
        /\ pc'[p] = "timer" /\ pool # "off" /\ pc[p] = "poll"
    BY <1>2 DEF ManagerEvent, Polling, HomeInv, Shape, Moves, Places
  <2> QED
    BY <2>1, HomeMove DEF Removing
<1>3. ASSUME NEW c \in Conns, SessionFails(p, c)
      PROVE  HomeInv'
  <2>1. /\ Moves(p)
        /\ UNCHANGED <<mem, home, sessions, fresh, backlog>>
        /\ pc'[p] = "mark" /\ pool # "off" /\ pc[p] = "poll"
        /\ cur'[p] = c /\ ret'[p] = "poll"
        /\ mem[c] = "live" /\ home[c] = p
    BY <1>3 DEF SessionFails, SessionRemove, Polling, HomeInv, Shape, Moves, Places
  <2> QED
    BY <2>1, HomeMove DEF Removing
<1>4. ASSUME NEW c \in Conns, SessionReads(p, c)
      PROVE  HomeInv'
  <2>1. /\ Moves(p)
        /\ UNCHANGED <<mem, home, sessions, fresh, backlog>>
        /\ pc'[p] = "recv" /\ pool # "off" /\ pc[p] = "poll"
        /\ subj'[p] = c /\ mem[c] = "live" /\ home[c] = p
    BY <1>4 DEF SessionReads, Polling, HomeInv, Shape, Moves, Places
  <2> QED
    BY <2>1, HomeMove DEF Removing
<1> QED
  BY <1>1, <1>2, <1>3, <1>4 DEF Event

\* The steps of a handler that change no session.
LEMMA HomeHandlerMoves ==
  ASSUME HomeInv, NEW p \in Pollers,
         \/ AcceptNone(p) \/ Mark(p) \/ Visit(p) \/ Visited(p) \/ WalkEnds(p)
         \/ ManagerCall(p) \/ \E same \in BOOLEAN : AcceptCall(p, same)
         \/ \E d \in Conns : RecvCloses(p, d) \/ ManagerCloses(p, d)
         \/ \E eof \in BOOLEAN : RecvEnds(p, eof)
  PROVE  HomeInv'
<1> USE DEF appVars, regVars, sessVars, loopVars, walkVars, netVars, Goto
<1>1. CASE AcceptNone(p)
  <2>1. /\ Moves(p)
        /\ UNCHANGED <<mem, home, sessions, fresh, backlog>>
        /\ pc'[p] = "poll" /\ pc[p] = "accept"
    BY <1>1 DEF AcceptNone, HomeInv, Shape, Moves, Places
  <2> QED
    BY <2>1, HomeMove, Running DEF Removing
<1>9. ASSUME NEW same \in BOOLEAN, AcceptCall(p, same)
      PROVE  HomeInv'
  <2>1. /\ Moves(p)
        /\ UNCHANGED <<mem, home, sessions, fresh, backlog>>
        /\ pc'[p] \in {"accept", "poll"} /\ pc[p] \in {"found", "closed", "stale"}
    BY <1>9 DEF AcceptCall, HomeInv, Shape, Moves, Places
  <2> QED
    BY <2>1, HomeMove, Running DEF Removing
<1>10. CASE ManagerCall(p)
  <2>1. /\ Moves(p)
        /\ UNCHANGED <<mem, home, sessions, fresh, backlog>>
        /\ pc'[p] = "walk" /\ pc[p] = "timer"
    BY <1>10 DEF ManagerCall, HomeInv, Shape, Moves, Places
  <2> QED
    BY <2>1, HomeMove, Running DEF Removing
<1>8. CASE WalkEnds(p)
  <2>1. /\ Moves(p)
        /\ UNCHANGED <<mem, home, sessions, fresh, backlog>>
        /\ pc'[p] = "poll" /\ pc[p] = "walk"
    BY <1>8 DEF WalkEnds, HomeInv, Shape, Moves, Places
  <2> QED
    BY <2>1, HomeMove, Running DEF Removing
<1>2. CASE Mark(p)
  <2>1. /\ Moves(p)
        /\ UNCHANGED <<mem, home, sessions, fresh, backlog>>
        /\ pc'[p] = "unlink" /\ pc[p] = "mark"
        /\ cur'[p] = cur[p] /\ ret'[p] = ret[p] /\ subj'[p] = subj[p]
    BY <1>2 DEF Mark, HomeInv, Shape, Moves, Places
  <2>2. cur[p] \in Conns /\ mem[cur[p]] = "live" /\ home[cur[p]] = p
    BY <2>1 DEF HomeInv, OwnCur, Removing
  <2>3. ret[p] = "recv" =>
          subj[p] \in Conns /\ mem[subj[p]] = "live" /\ home[subj[p]] = p /\ subj[p] # cur[p]
    BY <2>1 DEF HomeInv, OwnSubj, Removing
  <2> QED
    BY <2>1, <2>2, <2>3, HomeMove, Running DEF Removing
<1>3. CASE Visit(p)
  <2> DEFINE i == Min(ToVisit(p))
  <2>1. /\ Moves(p)
        /\ UNCHANGED <<mem, home, sessions, fresh, backlog>>
        /\ pc'[p] = "managed" /\ pc[p] = "walk" /\ ToVisit(p) # {}
        /\ subj'[p] = sessions[i]
    BY <1>3, VisitedEntry DEF Visit, HomeInv, Shape, Moves, Places
  <2>2. sessions[i] \in Conns
    BY <1>3, VisitedEntry DEF Visit, HomeInv, Shape, Moves, Places
  <2> HIDE DEF i
  <2> QED
    BY <2>1, <2>2, HomeMove, Running DEF Removing
<1>4. CASE Visited(p)
  <2>1. /\ Moves(p)
        /\ UNCHANGED <<mem, home, sessions, fresh, backlog>>
        /\ pc'[p] = "walk" /\ pc[p] = "managed"
        /\ subj'[p] = None
    BY <1>4 DEF Visited, HomeInv, Shape, Moves, Places
  <2> QED
    BY <2>1, HomeMove, Running DEF Removing
<1>5. ASSUME NEW d \in Conns, RecvCloses(p, d)
      PROVE  HomeInv'
  <2>1. /\ Moves(p)
        /\ UNCHANGED <<mem, home, sessions, fresh, backlog>>
        /\ pc'[p] = "mark" /\ pc[p] = "recv"
        /\ cur'[p] = d /\ ret'[p] = "recv" /\ subj'[p] = subj[p]
        /\ d # subj[p] /\ mem[d] = "live" /\ home[d] = p
    BY <1>5 DEF RecvCloses, SessionRemove, HomeInv, Shape, Moves, Places
  <2>2. subj[p] \in Conns /\ mem[subj[p]] = "live" /\ home[subj[p]] = p
    BY <2>1 DEF HomeInv, OwnSubj
  <2> QED
    BY <2>1, <2>2, HomeMove, Running DEF Removing
<1>6. ASSUME NEW d \in Conns, ManagerCloses(p, d)
      PROVE  HomeInv'
  <2>1. /\ Moves(p)
        /\ UNCHANGED <<mem, home, sessions, fresh, backlog>>
        /\ pc'[p] = "mark" /\ pc[p] = "managed"
        /\ cur'[p] = d /\ ret'[p] = "managed"
        /\ mem[d] = "live" /\ home[d] = p
    BY <1>6 DEF ManagerCloses, SessionRemove, HomeInv, Shape, Moves, Places
  <2> QED
    BY <2>1, HomeMove, Running DEF Removing
<1>7. ASSUME NEW eof \in BOOLEAN, RecvEnds(p, eof)
      PROVE  HomeInv'
  <2>1. /\ Moves(p)
        /\ UNCHANGED <<mem, home, sessions, fresh, backlog>>
        /\ subj'[p] = None /\ pc[p] = "recv"
        /\ \/ /\ pc'[p] = "mark" /\ ret'[p] = "poll"
              /\ cur'[p] = subj[p]
           \/ pc'[p] = "poll"
    <3>1. UNCHANGED <<mem, home, sessions, fresh, backlog>>
      BY <1>7 DEF RecvEnds
    <3> QED
      BY <1>7, <3>1, RecvEndsIs
  <2>2. subj[p] \in Conns /\ mem[subj[p]] = "live" /\ home[subj[p]] = p
    BY <2>1 DEF HomeInv, OwnSubj
  <2> QED
    BY <2>1, <2>2, HomeMove, Running DEF Removing
<1> QED
  BY <1>1, <1>2, <1>3, <1>4, <1>5, <1>6, <1>7, <1>8, <1>9, <1>10

\* An accepted connection gets its session on the poller chosen for it.
LEMMA HomeCreate ==
  ASSUME HomeInv, NEW p \in Pollers, NEW c \in Conns, NEW r \in Pollers, AcceptCreate(p, c, r)
  PROVE  HomeInv'
<1> USE DEF appVars, regVars, sessVars, loopVars, walkVars, netVars, Goto
<1>1. /\ pc[p] = "accept" /\ c \in backlog /\ backlog' = backlog \ {c} /\ fresh' = fresh
      /\ home' = [home EXCEPT ![c] = r] /\ mem' = [mem EXCEPT ![c] = "live"]
      /\ target' = [target EXCEPT ![p] = r]
      /\ cur' = [cur EXCEPT ![p] = c] /\ pc' = [pc EXCEPT ![p] = "created"]
      /\ UNCHANGED <<pool, sessions, ret, subj, idx>>
  BY DEF AcceptCreate, Accepted
<1>2. mem[c] = "none" /\ c \notin fresh /\ c \notin Range(sessions)
  BY <1>1 DEF HomeInv, NotYet, Listed
<1>3. Shape' /\ Moves(p) /\ pc'[p] = "created" /\ cur'[p] = c /\ target'[p] = r
  BY <1>1 DEF HomeInv, Shape, Moves, Places
<1>4. /\ mem'[c] = "live" /\ home'[c] = r
      /\ \A d \in Conns \ {c} : mem'[d] = mem[d] /\ home'[d] = home[d]
  BY <1>1 DEF HomeInv, Shape
<1>5. Quiet' /\ NotYet'
  BY <1>1, <1>2, <1>3, <1>4, Running DEF HomeInv, Quiet, NotYet, Moves, Shape
<1>6. OwnCur' /\ Unlisted'
  BY <1>1, <1>2, <1>3, <1>4 DEF HomeInv, OwnCur, Unlisted, Moves, Removing
<1>10. NewCur'
  <2> SUFFICES ASSUME NEW q \in Pollers, pc'[q] = "created"
               PROVE  /\ cur'[q] \in Conns /\ target'[q] \in Pollers
                      /\ \/ mem'[cur'[q]] = "live" /\ home'[cur'[q]] = target'[q]
                         \/ mem'[cur'[q]] = "freed" /\ target'[q] # q
                      /\ \A t \in Pollers \ {q} : pc'[t] = "created" => cur'[t] # cur'[q]
    BY DEF NewCur
  <2>1. \A t \in Pollers \ {p} : pc[t] = "created" => cur[t] \in Conns \ {c}
    BY <1>2 DEF HomeInv, NewCur
  <2>2. CASE q = p
    BY <1>3, <1>4, <2>1, <2>2 DEF Moves
  <2>3. CASE q # p
    <3>1. pc[q] = "created" /\ cur[q] \in Conns \ {c} /\ cur'[q] = cur[q] /\ target'[q] = target[q]
      BY <1>3, <2>1, <2>3 DEF Moves
    <3>2. /\ target[q] \in Pollers
          /\ \/ mem[cur[q]] = "live" /\ home[cur[q]] = target[q]
             \/ mem[cur[q]] = "freed" /\ target[q] # q
          /\ \A t \in Pollers \ {q} : pc[t] = "created" => cur[t] # cur[q]
      BY <3>1 DEF HomeInv, NewCur
    <3> QED
      BY <1>3, <1>4, <3>1, <3>2 DEF Moves
  <2> QED
    BY <2>2, <2>3
<1>7. OwnSubj'
  BY <1>1, <1>2, <1>3, <1>4 DEF HomeInv, OwnSubj, Moves, Removing
<1>8. Listed'
  BY <1>1, <1>2, <1>4, ListFacts DEF HomeInv, Listed, Shape
<1>9. Found'
  <2> SUFFICES ASSUME NEW d \in Conns, mem'[d] = "live", d \notin Range(sessions)
               PROVE  \E q \in Pollers : cur'[q] = d /\ pc'[q] \in {"created", "free"}
    BY <1>1 DEF Found
  <2>1. CASE d = c
    BY <1>3, <2>1
  <2>2. CASE d # c
    <3>1. PICK q \in Pollers : cur[q] = d /\ pc[q] \in {"created", "free"}
      BY <1>4, <2>2 DEF HomeInv, Found
    <3> QED
      BY <1>1, <1>3, <3>1 DEF Moves
  <2> QED
    BY <2>1, <2>2
<1> QED
  BY <1>3, <1>5, <1>6, <1>7, <1>8, <1>9, <1>10 DEF HomeInv

\* The session just created is listed, or freed while nobody else works on it.
LEMMA HomeListAdd ==
  ASSUME HomeInv, NEW p \in Pollers, NEW ok \in BOOLEAN, ListAdd(p, ok)
  PROVE  HomeInv'
<1> USE DEF appVars, regVars, sessVars, loopVars, walkVars, netVars, Goto
<1> DEFINE c == cur[p]
<1>1. /\ pc[p] = "created" /\ ~UsedEarly(c, ok)
      /\ sessions' = (IF ok THEN Append(sessions, c) ELSE sessions)
      /\ mem' = [mem EXCEPT ![c] = IF ok THEN @ ELSE "freed"]
      /\ home' = [home EXCEPT ![c] = IF ok THEN @ ELSE None]
      /\ cur' = [cur EXCEPT ![p] = None] /\ target' = [target EXCEPT ![p] = None]
      /\ pc' = [pc EXCEPT ![p] = "accept"]
      /\ UNCHANGED <<pool, ret, subj, idx, fresh, backlog>>
  BY DEF ListAdd
<1>2. /\ c \in Conns /\ mem[c] = "live" /\ c \notin Range(sessions)
      /\ \A q \in Pollers \ {p} : pc[q] = "created" => cur[q] # c
  BY <1>1 DEF HomeInv, NewCur, Unlisted, UsedEarly
<1>6. \A q \in Pollers \ {p} :
        /\ ok /\ pc[q] = "free" => cur[q] # c
        /\ ~ok => ~(pc[q] \in Removing /\ cur[q] = c) /\ ~InRecv(q, c)
  BY <1>1 DEF UsedEarly
<1> HIDE DEF c
<1>3. sessions' \in Seq(Conns) /\ IsInjective(sessions')
      /\ Range(sessions') = IF ok THEN Range(sessions) \cup {c} ELSE Range(sessions)
  BY <1>1, <1>2, AppendOK DEF HomeInv, Shape, Listed
<1>4. /\ mem'[c] = IF ok THEN "live" ELSE "freed"
      /\ mem' \in [Conns -> {"none", "live", "freed"}]
      /\ home' \in [Conns -> Pollers \cup {None}] /\ (ok => home' = home)
      /\ \A d \in Conns \ {c} : mem'[d] = mem[d] /\ home'[d] = home[d]
  BY <1>1, <1>2 DEF HomeInv, Shape
<1>5. Shape' /\ Moves(p) /\ pc'[p] = "accept"
  BY <1>1, <1>3, <1>4 DEF HomeInv, Shape, Moves, Places
<1>7. Quiet' /\ NotYet'
  BY <1>1, <1>2, <1>4, <1>5, Running DEF HomeInv, Quiet, NotYet, Moves, Shape
<1>8. OwnCur'
  <2> SUFFICES ASSUME NEW q \in Pollers, pc'[q] \in Removing
               PROVE  cur'[q] \in Conns /\ mem'[cur'[q]] = "live" /\ home'[cur'[q]] = q
    BY DEF OwnCur
  <2>1. q # p /\ pc[q] \in Removing /\ cur'[q] = cur[q]
    BY <1>5 DEF Moves, Removing
  <2>2. cur[q] \in Conns /\ mem[cur[q]] = "live" /\ home[cur[q]] = q
    BY <2>1 DEF HomeInv, OwnCur
  <2> QED
    BY <1>4, <1>6, <2>1, <2>2
<1>9. Unlisted'
  <2> SUFFICES ASSUME NEW q \in Pollers, pc'[q] \in {"created", "free"}
               PROVE  cur'[q] \notin Range(sessions')
    BY DEF Unlisted
  <2>1. q # p /\ pc[q] = pc'[q] /\ cur'[q] = cur[q]
    BY <1>5 DEF Moves
  <2>2. cur[q] \notin Range(sessions)
    BY <2>1 DEF HomeInv, Unlisted
  <2> QED
    BY <1>2, <1>3, <1>6, <2>1, <2>2
<1>13. NewCur'
  <2> SUFFICES ASSUME NEW q \in Pollers, pc'[q] = "created"
               PROVE  /\ cur'[q] \in Conns /\ target'[q] \in Pollers
                      /\ \/ mem'[cur'[q]] = "live" /\ home'[cur'[q]] = target'[q]
                         \/ mem'[cur'[q]] = "freed" /\ target'[q] # q
                      /\ \A t \in Pollers \ {q} : pc'[t] = "created" => cur'[t] # cur'[q]
    BY DEF NewCur
  <2>1. q # p /\ pc[q] = "created" /\ cur'[q] = cur[q] /\ target'[q] = target[q]
    BY <1>5 DEF Moves
  <2>2. /\ cur[q] \in Conns \ {c} /\ target[q] \in Pollers
        /\ \/ mem[cur[q]] = "live" /\ home[cur[q]] = target[q]
           \/ mem[cur[q]] = "freed" /\ target[q] # q
        /\ \A t \in Pollers \ {q} : pc[t] = "created" => cur[t] # cur[q]
    BY <1>2, <2>1 DEF HomeInv, NewCur
  <2> QED
    BY <1>4, <1>5, <2>1, <2>2 DEF Moves
<1>10. OwnSubj'
  <2> SUFFICES ASSUME NEW q \in Pollers,
                      pc'[q] = "recv" \/ (pc'[q] \in Removing /\ ret'[q] = "recv")
               PROVE  /\ subj'[q] \in Conns /\ mem'[subj'[q]] = "live" /\ home'[subj'[q]] = q
                      /\ pc'[q] # "recv" => subj'[q] # cur'[q]
    BY DEF OwnSubj
  <2>1. q # p /\ pc'[q] = pc[q] /\ ret'[q] = ret[q] /\ subj'[q] = subj[q] /\ cur'[q] = cur[q]
    BY <1>5 DEF Moves, Removing
  <2>2. /\ subj[q] \in Conns /\ mem[subj[q]] = "live" /\ home[subj[q]] = q
        /\ pc[q] # "recv" => subj[q] # cur[q]
    BY <2>1 DEF HomeInv, OwnSubj
  <2>3. ~ok => subj[q] # c
    BY <1>6, <2>1 DEF InRecv
  <2> QED
    BY <1>4, <2>1, <2>2, <2>3
<1>11. Listed'
  BY <1>2, <1>3, <1>4, ListFacts DEF HomeInv, Listed, Shape
<1>12. Found'
  <2> SUFFICES ASSUME NEW d \in Conns, mem'[d] = "live", d \notin Range(sessions')
               PROVE  \E q \in Pollers : cur'[q] = d /\ pc'[q] \in {"created", "free"}
    BY DEF Found
  <2>1. d # c /\ mem[d] = "live" /\ d \notin Range(sessions)
    BY <1>3, <1>4
  <2>2. PICK q \in Pollers : cur[q] = d /\ pc[q] \in {"created", "free"}
    BY <2>1 DEF HomeInv, Found
  <2>3. q # p
    BY <2>1, <2>2 DEF c
  <2> QED
    BY <1>5, <2>2, <2>3 DEF Moves
<1> QED
  BY <1>5, <1>7, <1>8, <1>9, <1>10, <1>11, <1>12, <1>13 DEF HomeInv

\* The session being removed leaves the list, if it has come to it.
LEMMA HomeUnlink ==
  ASSUME HomeInv, NEW p \in Pollers, Unlink(p)
  PROVE  /\ HomeInv' /\ sessions' = Without(cur[p]) /\ pc' = [pc EXCEPT ![p] = "free"]
<1> USE DEF appVars, regVars, sessVars, loopVars, walkVars, netVars, Goto
<1> DEFINE c == cur[p]
<1>1. /\ pc[p] = "unlink" /\ sessions' = Without(c) /\ pc' = [pc EXCEPT ![p] = "free"]
      /\ UNCHANGED <<pool, mem, home, cur, ret, target, subj, idx, fresh, backlog>>
  BY DEF Unlink
<1>2. c \in Conns /\ mem[c] = "live" /\ home[c] = p
  BY <1>1 DEF HomeInv, OwnCur, Removing
<1>4. /\ sessions' \in Seq(Conns) /\ IsInjective(sessions')
      /\ Range(sessions') = Range(sessions) \ {c}
  <2>1. CASE c \in Range(sessions)
    BY <1>1, <2>1, WithoutOK DEF HomeInv, Shape, Listed
  <2>2. CASE c \notin Range(sessions)
    BY <1>1, <2>2 DEF HomeInv, Shape, Listed, Without
  <2> QED
    BY <2>1, <2>2
<1>5. Shape' /\ Moves(p) /\ pc'[p] = "free" /\ cur'[p] = c
  BY <1>1, <1>4 DEF HomeInv, Shape, Moves, Places
<1>6. Quiet' /\ NotYet' /\ Listed'
  BY <1>1, <1>4, <1>5, Running DEF HomeInv, Quiet, NotYet, Moves, Listed
<1>7. OwnCur' /\ NewCur' /\ Unlisted'
  BY <1>1, <1>4, <1>5 DEF HomeInv, OwnCur, NewCur, Unlisted, Moves, Removing
<1>8. OwnSubj'
  BY <1>1, <1>5 DEF HomeInv, OwnSubj, Moves, Removing
<1>9. Found'
  <2> SUFFICES ASSUME NEW d \in Conns, mem[d] = "live", d \notin Range(sessions')
               PROVE  \E q \in Pollers : cur'[q] = d /\ pc'[q] \in {"created", "free"}
    BY <1>1 DEF Found
  <2>1. CASE d = c
    BY <1>5, <2>1
  <2>2. CASE d # c
    <3>1. PICK q \in Pollers : cur[q] = d /\ pc[q] \in {"created", "free"}
      BY <1>4, <2>2 DEF HomeInv, Found
    <3> QED
      BY <1>1, <1>5, <3>1 DEF Moves
  <2> QED
    BY <2>1, <2>2
<1> QED
  BY <1>1, <1>5, <1>6, <1>7, <1>8, <1>9 DEF HomeInv

\* The removed session is freed, and the thread goes on where the removal was called.
LEMMA HomeFree ==
  ASSUME HomeInv, NEW p \in Pollers, Free(p)
  PROVE  HomeInv'
<1> USE DEF appVars, regVars, sessVars, loopVars, walkVars, netVars, Goto
<1> DEFINE c == cur[p]
<1>1. /\ pc[p] = "free" /\ pc' = [pc EXCEPT ![p] = ret[p]]
      /\ mem' = [mem EXCEPT ![c] = "freed"] /\ home' = [home EXCEPT ![c] = None]
      /\ cur' = [cur EXCEPT ![p] = None] /\ ret' = [ret EXCEPT ![p] = "poll"]
      /\ UNCHANGED <<pool, sessions, target, subj, idx, fresh, backlog>>
  BY DEF Free
<1>2. c \in Conns /\ mem[c] = "live" /\ home[c] = p /\ c \notin Range(sessions)
  BY <1>1 DEF HomeInv, OwnCur, Unlisted, Removing
<1> HIDE DEF c
<1>3. /\ mem'[c] = "freed" /\ mem' \in [Conns -> {"none", "live", "freed"}]
      /\ home' \in [Conns -> Pollers \cup {None}]
      /\ \A d \in Conns \ {c} : mem'[d] = mem[d] /\ home'[d] = home[d]
  BY <1>1, <1>2 DEF HomeInv, Shape
<1>4. /\ Shape' /\ Moves(p) /\ pc'[p] = ret[p] /\ ret[p] \in {"poll", "recv", "managed"}
      /\ subj'[p] = subj[p]
  BY <1>1, <1>3 DEF HomeInv, Shape, Moves, Places
<1>5. \A q \in Pollers \ {p} : home[c] # q
  BY <1>2
<1>6. Quiet' /\ NotYet' /\ Listed'
  BY <1>1, <1>2, <1>3, <1>4, Running, ListFacts DEF HomeInv, Quiet, NotYet, Moves, Shape, Listed
<1>7. OwnCur' /\ Unlisted'
  BY <1>1, <1>3, <1>4, <1>5 DEF HomeInv, OwnCur, Unlisted, Moves, Removing
<1>10. NewCur'
  <2> SUFFICES ASSUME NEW q \in Pollers, pc'[q] = "created"
               PROVE  /\ cur'[q] \in Conns /\ target'[q] \in Pollers
                      /\ \/ mem'[cur'[q]] = "live" /\ home'[cur'[q]] = target'[q]
                         \/ mem'[cur'[q]] = "freed" /\ target'[q] # q
                      /\ \A t \in Pollers \ {q} : pc'[t] = "created" => cur'[t] # cur'[q]
    BY DEF NewCur
  <2>1. q # p /\ pc[q] = "created" /\ cur'[q] = cur[q] /\ target'[q] = target[q]
    BY <1>4 DEF Moves
  <2>2. /\ cur[q] \in Conns /\ target[q] \in Pollers
        /\ \/ mem[cur[q]] = "live" /\ home[cur[q]] = target[q]
           \/ mem[cur[q]] = "freed" /\ target[q] # q
        /\ \A t \in Pollers \ {q} : pc[t] = "created" => cur[t] # cur[q]
    BY <2>1 DEF HomeInv, NewCur
  <2>3. \/ mem'[cur[q]] = "live" /\ home'[cur[q]] = target[q]
        \/ mem'[cur[q]] = "freed" /\ target[q] # q
    BY <1>2, <1>3, <2>1, <2>2
  <2> QED
    BY <1>4, <2>1, <2>2, <2>3 DEF Moves
<1>8. OwnSubj'
  <2>1. ret[p] = "recv" => subj[p] \in Conns /\ mem[subj[p]] = "live" /\ home[subj[p]] = p
                           /\ subj[p] # c
    BY <1>1 DEF HomeInv, OwnSubj, Removing, c
  <2> QED
    BY <1>1, <1>3, <1>4, <1>5, <2>1 DEF HomeInv, OwnSubj, Moves, Removing
<1>9. Found'
  <2> SUFFICES ASSUME NEW d \in Conns, mem'[d] = "live", d \notin Range(sessions)
               PROVE  \E q \in Pollers : cur'[q] = d /\ pc'[q] \in {"created", "free"}
    BY <1>1 DEF Found
  <2>1. d # c /\ mem[d] = "live"
    BY <1>3
  <2>2. PICK q \in Pollers : cur[q] = d /\ pc[q] \in {"created", "free"}
    BY <2>1 DEF HomeInv, Found
  <2>3. q # p
    BY <2>1, <2>2 DEF c
  <2> QED
    BY <1>4, <2>2, <2>3 DEF Moves
<1> QED
  BY <1>4, <1>6, <1>7, <1>8, <1>9, <1>10 DEF HomeInv

LEMMA HomeStep ==
  ASSUME HomeInv, [Next]_vars
  PROVE  HomeInv'
<1> USE DEF appVars, regVars, sessVars, loopVars, walkVars, netVars
<1>6. ASSUME UNCHANGED <<pool, sessVars, loopVars, fresh>>, backlog' \subseteq backlog
      PROVE  HomeInv'
  <2>1. Quiet' /\ Shape'
    BY <1>6 DEF HomeInv, Quiet, Shape
  <2> QED
    BY <1>6, <2>1, HomeFrame
<1>1. CASE Application \/ StopReturns
  BY <1>1, HomeApplication
<1>2. ASSUME NEW c \in Conns, Connect(c)
      PROVE  HomeInv'
  <2>1. /\ UNCHANGED <<pool, sessVars, loopVars>> /\ c \in fresh
        /\ fresh' = fresh \ {c} /\ backlog' = backlog \cup {c}
    BY <1>2 DEF Connect
  <2>2. Shape' /\ Quiet' /\ NotYet'
    BY <2>1 DEF HomeInv, Shape, Quiet, NotYet
  <2>3. OwnCur' /\ NewCur' /\ Unlisted' /\ OwnSubj'
    BY <2>1 DEF HomeInv, OwnCur, NewCur, Unlisted, OwnSubj
  <2>4. Listed' /\ Found'
    BY <2>1 DEF HomeInv, Listed, Found
  <2> QED
    BY <2>2, <2>3, <2>4 DEF HomeInv
<1>3. ASSUME NEW p \in Pollers, Event(p)
      PROVE  HomeInv'
  BY <1>3, HomeEvent
<1>4. ASSUME NEW p \in Pollers, Handler(p)
      PROVE  HomeInv'
  <2>1. ASSUME NEW c \in Conns, AcceptRefuse(p, c)
        PROVE  HomeInv'
    BY <1>6, <2>1 DEF AcceptRefuse, Accepted
  <2>2. ASSUME NEW ok \in BOOLEAN, ListLate(p, ok)
        PROVE  HomeInv'
    BY <1>6, <2>2 DEF ListLate
  <2>3. CASE UseStale(p)
    BY <1>6, <2>3 DEF UseStale
  <2>4. CASE AcceptTakes(p)
    BY <2>1, <2>4, HomeCreate DEF AcceptTakes, ChoosePoller
  <2> QED
    BY <1>4, <2>2, <2>3, <2>4, HomeHandlerMoves, HomeListAdd, HomeUnlink, HomeFree DEF Handler
<1>5. CASE UNCHANGED vars
  BY <1>5, <1>6 DEF vars
<1> QED
  BY <1>1, <1>2, <1>3, <1>4, <1>5 DEF Next

LEMMA HomeInit == Init => HomeInv
<1> SUFFICES ASSUME Init
             PROVE  HomeInv
  OBVIOUS
<1>1. Range(sessions) = {} /\ IsInjective(sessions)
  BY DEF Init, Range, IsInjective
<1>2. Shape /\ Quiet /\ NotYet
  BY DEF Init, Shape, Quiet, NotYet, Places
<1>3. OwnCur /\ NewCur /\ Unlisted /\ OwnSubj
  BY DEF Init, OwnCur, NewCur, Unlisted, OwnSubj, Removing
<1>4. Listed /\ Found
  BY <1>1 DEF Init, Listed, Found
<1> QED
  BY <1>2, <1>3, <1>4 DEF HomeInv

LEMMA HomeAlways == Spec => []HomeInv
BY HomeInit, HomeStep, PTL DEF Spec

\* Accept is overtaken only by the poller of a session given to another one: what its own
\* thread does to a session it does not do while it creates it.
LEMMA HarmStep ==
  ASSUME HomeInv, HarmOK, [Next]_vars
  PROVE  HarmOK'
<1> USE DEF appVars, regVars, sessVars, loopVars, walkVars, netVars
<1>1. ASSUME NEW p \in Pollers, NEW ok \in BOOLEAN, ListLate(p, ok)
      PROVE  HarmOK'
  <2>1. pc[p] = "created" /\ UsedEarly(cur[p], ok) /\ UNCHANGED <<pc, target>>
    BY <1>1 DEF ListLate
  <2>2. /\ cur[p] \in Conns /\ target[p] \in Pollers
        /\ \/ mem[cur[p]] = "live" /\ home[cur[p]] = target[p]
           \/ mem[cur[p]] = "freed" /\ target[p] # p
    BY <2>1 DEF HomeInv, NewCur
  <2>3. target[p] # p
    <3>1. CASE mem[cur[p]] = "freed"
      BY <2>2, <3>1
    <3>2. CASE mem[cur[p]] # "freed"
      <4>1. PICK q \in Pollers : \/ pc[q] \in Removing /\ cur[q] = cur[p]
                                 \/ InRecv(q, cur[p])
        BY <2>1, <3>2 DEF UsedEarly, Removing
      <4>2. home[cur[p]] = q /\ q # p
        BY <2>1, <4>1 DEF HomeInv, OwnCur, OwnSubj, InRecv, Removing
      <4> QED
        BY <2>2, <3>2, <4>2
    <3> QED
      BY <3>1, <3>2
  <2> QED
    BY <2>1, <2>3 DEF HarmOK
<1>2. CASE harm' # "session"
  BY <1>2 DEF HarmOK
<1>3. CASE UNCHANGED vars
  BY <1>3 DEF vars, HarmOK
<1>4. CASE Next /\ ~\E p \in Pollers, ok \in BOOLEAN : ListLate(p, ok)
  <2>1. harm = "none" /\ harm' # "session"
    <3>1. CASE Application \/ StopReturns \/ \E c \in Conns : harm = "none" /\ Connect(c)
      BY <3>1 DEF Application, StopReturns, PoolStart, PoolStop, StartListen, StartAdd, StartArm,
         StartFails, StartDone, Stop, StopCancel, StopDel, StopDone, Destroy, Connect
    <3>2. ASSUME NEW p \in Pollers, Event(p)
          PROVE  harm = "none" /\ harm' # "session"
      BY <3>2 DEF Event, AcceptEvent, SessionFails, SessionReads, ManagerEvent
    <3>3. ASSUME NEW p \in Pollers, Handler(p)
          PROVE  harm = "none" /\ harm' # "session"
      BY <1>4, <3>3 DEF Handler, AcceptCall, AcceptNone, AcceptTakes, AcceptCreate, AcceptRefuse,
         ListAdd, RecvCloses, ManagerCloses, RecvEnds, Mark, Unlink, Free, ManagerCall, Visit,
         Visited, WalkEnds, UseStale
    <3> QED
      BY <1>4, <3>1, <3>2, <3>3 DEF Next
  <2> QED
    BY <1>2, <2>1
<1> QED
  BY <1>1, <1>3, <1>4

\* Every session that exists is listed once, or a loop thread is about to list it or to free
\* it, and nothing freed is in srv->sessions, whatever the loop threads accept, close and
\* walk (listen_on_readable, session_remove, ztk_tcp_server_destroy) and whatever poller
\* choose_poller gives a session to.  listen_on_readable comes too late to list a session
\* only if that poller is not the accepting one.
THEOREM SessionsAccounted == Spec => []SessionHome
<1>1. HomeInv /\ HarmOK => SessionHome
  BY DEF HomeInv, HarmOK, Listed, Found, SessionHome
<1>2. Init => HarmOK
  BY DEF Init, HarmOK
<1>3. HomeInv /\ HarmOK /\ [Next]_vars => HarmOK'
  BY HarmStep
<1> QED
  BY <1>1, <1>2, <1>3, HomeAlways, PTL DEF Spec

-----------------------------------------------------------------------------
(* Stop                                                                    *)

\* Nothing but start, stop and destroy touches registrations and timers.
LEMMA ArmingFrame ==
  ASSUME Arming, UNCHANGED <<armed, handle, reg, at, halfway, left, app, started>>
  PROVE  Arming'
BY DEF Arming

LEMMA ArmingStep ==
  ASSUME Arming, [Next]_vars
  PROVE  Arming'
<1> USE DEF appVars, regVars, sessVars, loopVars, walkVars, netVars
<1>1. ASSUME NEW ok \in BOOLEAN, StartListen(ok)
      PROVE  Arming'
  BY <1>1, TcpServerAssumption DEF StartListen, Relisten, Arming, Pollers
<1>2. CASE StartAdd
  BY <1>2, TcpServerAssumption DEF StartAdd, Arming, Pollers
<1>3. CASE StartArm
  <2>1. /\ app = "arm" /\ app' = "add" /\ at' = at + 1 /\ UNCHANGED <<reg, left, halfway, started>>
        /\ armed' = [armed EXCEPT ![at] = IF manager THEN @ + 1 ELSE @]
        /\ handle' = [handle EXCEPT ![at] = @ \/ manager]
    BY <1>3 DEF StartArm
  <2>2. at \in Pollers /\ at \in Nat /\ (at \notin left => ~handle[at] /\ armed[at] = 0)
    BY <2>1, TcpServerAssumption DEF Arming, Pollers
  <2>3. /\ armed' \in [Pollers -> Nat] /\ handle' \in [Pollers -> BOOLEAN]
        /\ at' \in 1 .. NPollers + 1
    BY <2>1, <2>2, TcpServerAssumption DEF Arming, Pollers
  <2>4. /\ armed'[at] = (IF manager THEN armed[at] + 1 ELSE armed[at])
        /\ handle'[at] <=> (handle[at] \/ manager)
        /\ \A p \in Pollers \ {at} : armed'[p] = armed[p] /\ (handle'[p] <=> handle[p])
    BY <2>1, <2>2 DEF Arming
  <2>5. ASSUME NEW p \in Pollers
        PROVE  /\ handle'[p] => armed'[p] > 0
               /\ p \notin left => armed'[p] = (IF handle'[p] THEN 1 ELSE 0)
               /\ p \notin left /\ handle'[p] => p <= at
    <3>1. CASE p = at
      BY <2>2, <2>4, <3>1 DEF Arming
    <3>2. CASE p # at
      BY <2>1, <2>2, <2>4, <3>2 DEF Arming, Pollers
    <3> QED
      BY <3>1, <3>2
  <2>6. \A p \in reg : p < at'
    BY <2>1, <2>2 DEF Arming, Pollers
  <2>7. \A p \in Pollers : p <= at => p < at'
    BY <2>1, <2>2, TcpServerAssumption DEF Pollers
  <2> QED
    BY <2>1, <2>3, <2>5, <2>6, <2>7 DEF Arming
<1>13. CASE StartFails
  <2>1. /\ app \in {"add", "arm"} /\ app' = "idle" /\ at' = 1 /\ halfway' /\ ~started
        /\ UNCHANGED <<reg, armed, handle, started>>
        /\ left' = left \cup {p \in Pollers : handle[p]}
    BY <1>13 DEF StartFails, Arming
  <2>2. at' \in 1 .. NPollers + 1 /\ left' \subseteq Pollers
    BY <2>1, TcpServerAssumption DEF Arming
  <2> QED
    BY <2>1, <2>2 DEF Arming
<1>4. CASE StartDone
  BY <1>4, TcpServerAssumption DEF StartDone, Arming, Pollers
<1>12. CASE Stop
  BY <1>12, TcpServerAssumption DEF Stop, Arming, Pollers
<1>5. CASE StopCancel
  BY <1>5, TcpServerAssumption DEF StopCancel, Arming, Pollers
<1>14. CASE StopDel
  BY <1>14, TcpServerAssumption DEF StopDel, Arming, Pollers
<1>6. CASE StopDone
  BY <1>6, TcpServerAssumption DEF StopDone, Arming, Pollers
<1>7. CASE Destroy
  <2>1. /\ app = "idle" /\ app' = "idle" /\ ~started' /\ reg' = {}
        /\ UNCHANGED <<at, halfway, left>>
        /\ armed' = [p \in Pollers |-> IF started /\ handle[p] THEN armed[p] - 1 ELSE armed[p]]
        /\ handle' = [p \in Pollers |-> IF started THEN FALSE ELSE handle[p]]
    BY <1>7 DEF Destroy
  <2>2. armed' \in [Pollers -> Nat]
    BY <2>1 DEF Arming
  <2>3. handle' \in [Pollers -> BOOLEAN]
    BY <2>1 DEF Arming
  <2>4. ASSUME NEW p \in Pollers
        PROVE  /\ handle'[p] => armed'[p] > 0
               /\ p \notin left => ~handle'[p] /\ armed'[p] = 0
    <3>1. CASE started
      <4>1. ~handle'[p] /\ armed'[p] = IF handle[p] THEN armed[p] - 1 ELSE armed[p]
        BY <2>1, <3>1
      <4> QED
        BY <4>1 DEF Arming
    <3>2. CASE ~started
      <4>1. (handle'[p] <=> handle[p]) /\ armed'[p] = armed[p]
        BY <2>1, <3>2
      <4> QED
        BY <2>1, <3>2, <4>1 DEF Arming
    <3> QED
      BY <3>1, <3>2
  <2> QED
    BY <2>1, <2>2, <2>3, <2>4 DEF Arming
<1>8. CASE PoolStart \/ PoolStop
  BY <1>8, ArmingFrame DEF PoolStart, PoolStop
<1>9. ASSUME NEW p \in Pollers, Event(p)
      PROVE  Arming'
  BY <1>9, ArmingFrame DEF Event, AcceptEvent, SessionFails, SessionReads, ManagerEvent
<1>10. ASSUME NEW p \in Pollers, Handler(p)
       PROVE  Arming'
  BY <1>10, ArmingFrame DEF Handler, AcceptCall, AcceptNone, AcceptTakes, AcceptCreate,
     AcceptRefuse, ListAdd, ListLate, RecvCloses, ManagerCloses, RecvEnds, Mark, Unlink, Free,
     ManagerCall, Visit, Visited, WalkEnds, UseStale
<1>11. CASE UNCHANGED vars \/ \E c \in Conns : Connect(c)
  BY <1>11, ArmingFrame DEF vars, Connect
<1> QED
  BY <1>1, <1>2, <1>3, <1>4, <1>5, <1>6, <1>7, <1>8, <1>9, <1>10, <1>11, <1>12, <1>13, <1>14
  DEF Next, Application, StopReturns, ListenResults

\* The application's thread moves a loop thread only from a found entry to a closed or freed one.
LEMMA ApplicationPlaces ==
  ASSUME HomeInv, Application \/ StopReturns, NEW q \in Pollers
  PROVE  /\ pc'[q] = pc[q] \/ (pc[q] \in {"found", "closed"} /\ pc'[q] \in {"closed", "stale"})
         /\ UNCHANGED <<cur, ret, target, subj, idx>>
<1> USE DEF appVars, regVars, sessVars, loopVars, walkVars, netVars
<1>1. CASE StopDel \/ \E ok \in ListenResults : StartListen(ok)
  <2>1. CASE StopDel
    BY <2>1 DEF StopDel, HomeInv, Shape
  <2>2. CASE \E ok \in ListenResults : StartListen(ok)
    BY <2>2 DEF StartListen, Relisten, HomeInv, Shape
  <2> QED
    BY <1>1, <2>1, <2>2
<1>2. CASE ~(StopDel \/ \E ok \in ListenResults : StartListen(ok))
  BY <1>2 DEF Application, StopReturns, PoolStart, PoolStop, StartAdd, StartArm, StartFails,
     StartDone, Stop, StopCancel, StopDone, Destroy
<1> QED
  BY <1>1, <1>2

\* A handler moves its own thread only, and only from where it is in it.
LEMMA HandlerPlaces ==
  ASSUME HomeInv, NEW p \in Pollers, Handler(p)
  PROVE  pc[p] # "poll" /\ \A q \in Pollers \ {p} : pc'[q] = pc[q]
<1> USE DEF appVars, regVars, sessVars, loopVars, walkVars, netVars, Goto
<1>1. pc[p] # "poll" /\ (pc' = pc \/ \E to : pc' = [pc EXCEPT ![p] = to])
  BY DEF Handler, AcceptCall, AcceptNone, AcceptTakes, AcceptCreate, AcceptRefuse, ListAdd,
     ListLate, RecvCloses, ManagerCloses, RecvEnds, Mark, Unlink, Free, ManagerCall, Visit,
     Visited, WalkEnds, UseStale, SessionRemove
<1> QED
  BY <1>1 DEF HomeInv, Shape

\* What StopQuiet says of one step.
StopQuietStep ==
  app = "idle" /\ ~started =>
    \A p \in Pollers : pc[p] = "poll" =>
      /\ pc'[p] = "found" => halfway
      /\ pc'[p] = "timer" => p \in left

LEMMA QuietStep ==
  ASSUME Arming, HomeInv, [Next]_vars
  PROVE  StopQuietStep
<1> SUFFICES ASSUME app = "idle", ~started, NEW q \in Pollers, pc[q] = "poll"
             PROVE  (pc'[q] = "found" => halfway) /\ (pc'[q] = "timer" => q \in left)
  BY DEF StopQuietStep
<1> USE DEF appVars, regVars, sessVars, loopVars, walkVars, netVars, Goto
<1>1. (~halfway => reg = {}) /\ \A p \in Pollers \ left : armed[p] = 0
  BY DEF Arming
<1>2. CASE Application \/ StopReturns
  BY <1>2, ApplicationPlaces
<1>5. CASE UNCHANGED vars \/ \E c \in Conns : Connect(c)
  BY <1>5 DEF vars, Connect
<1>3. ASSUME NEW p \in Pollers, Event(p)
      PROVE  (pc'[q] = "found" => halfway) /\ (pc'[q] = "timer" => q \in left)
  <2>1. CASE AcceptEvent(p)
    BY <1>1, <2>1 DEF AcceptEvent, HomeInv, Shape
  <2>2. CASE ManagerEvent(p)
    BY <1>1, <2>2 DEF ManagerEvent, HomeInv, Shape
  <2>3. CASE \E c \in Conns : SessionFails(p, c) \/ SessionReads(p, c)
    BY <2>3 DEF SessionFails, SessionReads, SessionRemove, HomeInv, Shape
  <2> QED
    BY <1>3, <2>1, <2>2, <2>3 DEF Event
<1>4. ASSUME NEW p \in Pollers, Handler(p)
      PROVE  (pc'[q] = "found" => halfway) /\ (pc'[q] = "timer" => q \in left)
  BY <1>4, HandlerPlaces
<1> QED
  BY <1>2, <1>3, <1>4, <1>5 DEF Next

\* When ztk_tcp_server_stop has returned, or start was never called, no poller finds the
\* entry of the listening fd any more, unless the last start failed half way, and none takes
\* up a manager timer but one a failed start had armed: the bindings give back every
\* registration and every timer they know.
THEOREM StopIsQuiet == Spec => StopQuiet
<1>1. Init => Arming
  BY TcpServerAssumption DEF Init, Arming, Pollers
<1>2. Arming /\ [Next]_vars => Arming'
  BY ArmingStep
<1>3. Arming /\ HomeInv /\ [Next]_vars => StopQuietStep
  BY QuietStep
<1> QED
  BY <1>1, <1>2, <1>3, HomeAlways, PTL DEF Spec, StopQuiet, StopQuietStep

-----------------------------------------------------------------------------
(* The manager walk                                                        *)

\* Steps that leave the list, the marks and the walk of q alone.
LEMMA WalkFrame ==
  ASSUME WalkInv, HomeInv, NEW q \in Pollers,
         UNCHANGED <<sessions, closing, seen, due, moved>>,
         pc'[q] = pc[q], cur'[q] = cur[q], ret'[q] = ret[q], idx'[q] = idx[q],
         \A c \in Conns : mem[c] # "none" => mem'[c] # "none" /\ home'[c] = home[c],
         \A r \in Pollers : pc'[r] = "created" =>
           (pc[r] = "created" /\ cur'[r] = cur[r]) \/ (cur'[r] \in Conns /\ mem[cur'[r]] = "none")
  PROVE  BehindAt(q)' /\ WaitingAt(q)'
<1> USE DEF InWalk, InVisit, Ahead
<1>1. BehindAt(q) /\ WaitingAt(q) /\ seen[q] \subseteq Conns /\ due[q] \subseteq Conns
  BY DEF WalkInv, WalkShape
<1>2. BehindAt(q)'
  BY <1>1 DEF BehindAt
<1>3. WaitingAt(q)'
  BY <1>1 DEF WaitingAt
<1> QED
  BY <1>2, <1>3

\* A thread outside a walk has visited nothing; there is nothing to say of it.
LEMMA NotWalking ==
  ASSUME HomeInv, WalkInv, NEW p \in Pollers, ~InWalk(p), ~InWalk(p)',
         seen'[p] = seen[p], due'[p] = due[p],
         \A c \in Conns : mem[c] # "none" => mem'[c] # "none"
  PROVE  BehindAt(p)' /\ WaitingAt(p)'
<1>1. BehindAt(p) /\ WaitingAt(p) /\ due[p] \subseteq Conns
  BY DEF WalkInv, WalkShape
<1>2. seen[p] = {}
  BY <1>1 DEF BehindAt
<1> QED
  BY <1>1, <1>2 DEF BehindAt, WaitingAt

\* The steps of a thread that is not in a walk and changes neither list nor marks.
LEMMA WalkOutside ==
  ASSUME HomeInv, WalkInv, NEW p \in Pollers, Moves(p),
         UNCHANGED <<sessions, closing, seen, due, moved>>,
         pc[p] \in {"poll", "found", "closed", "stale", "accept", "recv"},
         pc'[p] \in {"poll", "found", "accept", "recv", "created", "timer"}
           \/ (pc'[p] = "mark" /\ ret'[p] \in {"poll", "recv"}),
         pc'[p] = "created" => cur'[p] \in Conns /\ mem[cur'[p]] = "none",
         \A c \in Conns : mem[c] # "none" => mem'[c] # "none" /\ home'[c] = home[c]
  PROVE  WalkInv'
<1>1. WalkShape'
  BY DEF WalkInv, WalkShape
<1>2. BehindAt(p)' /\ WaitingAt(p)'
  <2>1. ~InWalk(p) /\ ~InWalk(p)'
    BY DEF InWalk, InVisit, Removing
  <2> QED
    BY <2>1, NotWalking
<1>3. ASSUME NEW q \in Pollers \ {p}
      PROVE  BehindAt(q)' /\ WaitingAt(q)'
  BY WalkFrame DEF Moves
<1> QED
  BY <1>1, <1>2, <1>3 DEF WalkInv

\* A walk begins.
LEMMA WalkBegins ==
  ASSUME HomeInv, WalkInv, NEW p \in Pollers, ManagerCall(p)
  PROVE  WalkInv'
<1> USE DEF appVars, regVars, sessVars, loopVars, walkVars, netVars, Goto
<1> DEFINE D == {c \in Range(sessions) \ closing : home[c] = p}
<1>1. /\ UNCHANGED <<sessions, closing, seen, moved, mem, home, cur, ret>>
      /\ pc[p] = "timer" /\ pc' = [pc EXCEPT ![p] = "walk"]
      /\ idx' = [idx EXCEPT ![p] = 1] /\ due' = [due EXCEPT ![p] = D]
  BY DEF ManagerCall
<1>2. D \subseteq Conns /\ \A c \in D : mem[c] = "live"
  BY ListFacts DEF HomeInv, Shape, Listed
<1>3. /\ pc'[p] = "walk" /\ idx'[p] = 1 /\ due'[p] = D
      /\ \A q \in Pollers \ {p} : pc'[q] = pc[q] /\ idx'[q] = idx[q] /\ due'[q] = due[q]
  BY <1>1 DEF HomeInv, Shape, WalkInv, WalkShape
<1>4. WalkShape'
  BY <1>1, <1>2 DEF WalkInv, WalkShape
<1>5. seen[p] = {}
  BY <1>1 DEF WalkInv, BehindAt, InWalk, InVisit, Removing
<1>6. \A c \in D : \E i \in 1 .. Len(sessions) : sessions[i] = c
  <2>1. Range(sessions) = {sessions[i] : i \in 1 .. Len(sessions)}
    BY ListFacts DEF HomeInv, Shape
  <2> QED
    BY <2>1
<1> HIDE DEF D
<1>7. BehindAt(p)' /\ WaitingAt(p)'
  <2>1. BehindAt(p)'
    BY <1>1, <1>5 DEF BehindAt
  <2>2. WaitingAt(p)'
    BY <1>1, <1>2, <1>3, <1>6 DEF WaitingAt, Ahead, InVisit, Removing, D
  <2> QED
    BY <2>1, <2>2
<1>8. ASSUME NEW q \in Pollers \ {p}
      PROVE  BehindAt(q)' /\ WaitingAt(q)'
  <2>1. BehindAt(q) /\ WaitingAt(q)
    BY DEF WalkInv
  <2>2. BehindAt(q)'
    BY <1>1, <1>3, <2>1 DEF BehindAt, InWalk, InVisit, Ahead
  <2>3. WaitingAt(q)'
    BY <1>1, <1>3, <2>1 DEF WaitingAt, InWalk, InVisit, Ahead
  <2> QED
    BY <2>2, <2>3
<1> QED
  BY <1>4, <1>7, <1>8 DEF WalkInv

\* The walk comes to its next session: it has not visited it before, and it skips none
\* that is due.
LEMMA WalkVisits ==
  ASSUME HomeInv, WalkInv, NEW p \in Pollers, Visit(p)
  PROVE  WalkInv' /\ subj'[p] \notin seen[p]
<1> USE DEF appVars, regVars, sessVars, loopVars, walkVars, netVars, Goto
<1> DEFINE i == Min(ToVisit(p))
           x == sessions[i]
<1>1. /\ UNCHANGED <<sessions, closing, due, moved, mem, home, cur, ret>>
      /\ pc[p] = "walk" /\ pc' = [pc EXCEPT ![p] = "managed"] /\ ToVisit(p) # {}
      /\ idx' = [idx EXCEPT ![p] = i] /\ subj' = [subj EXCEPT ![p] = x]
      /\ seen' = [seen EXCEPT ![p] = @ \cup {x}]
  BY DEF Visit
<1>2. /\ i \in idx[p] .. Len(sessions) /\ i \in 1 .. Len(sessions)
      /\ x \in Conns /\ x \notin closing /\ home[x] = p
      /\ \A j \in ToVisit(p) : i <= j
  BY <1>1, VisitedEntry DEF HomeInv, Shape
<1> HIDE DEF i
<1>3. x \in Range(sessions) /\ mem[x] = "live"
  BY <1>2, ListFacts DEF HomeInv, Shape, Listed
<1>4. \A k \in 1 .. Len(sessions) : sessions[k] = x => k = i
  BY <1>2, ListFacts DEF HomeInv, Shape, Listed, IsInjective
<1>5. \A q \in Pollers : pc[q] = "created" => cur[q] # x
  BY <1>3 DEF HomeInv, Unlisted
<1> HIDE DEF x
<1>6. /\ pc'[p] = "managed" /\ idx'[p] = i /\ subj'[p] = x /\ seen'[p] = seen[p] \cup {x}
      /\ \A q \in Pollers \ {p} : pc'[q] = pc[q] /\ idx'[q] = idx[q] /\ seen'[q] = seen[q]
  BY <1>1 DEF HomeInv, Shape, WalkInv, WalkShape
<1>7. WalkShape'
  BY <1>1, <1>2 DEF WalkInv, WalkShape
<1>8. BehindAt(p) /\ WaitingAt(p) /\ idx[p] \in Nat \ {0} /\ Len(sessions) \in Nat
  BY DEF WalkInv, HomeInv, Shape
<1>9. x \notin seen[p]
  BY <1>1, <1>2, <1>8 DEF BehindAt, Ahead, InVisit, Removing, x
<1>10. BehindAt(p)'
  <2> SUFFICES ASSUME NEW c \in seen[p] \cup {x}
               PROVE  /\ mem[c] # "none"
                      /\ \A k \in 1 .. Len(sessions) : sessions[k] = c => k < i + 1
                      /\ \A q \in Pollers : pc'[q] = "created" => cur[q] # c
    BY <1>1, <1>6 DEF BehindAt, InWalk, InVisit, Ahead
  <2>1. CASE c = x
    BY <1>2, <1>3, <1>4, <1>5, <1>6, <2>1
  <2>2. CASE c \in seen[p]
    BY <1>1, <1>2, <1>6, <1>8, <2>2 DEF BehindAt, Ahead, InVisit, Removing
  <2> QED
    BY <2>1, <2>2
<1>11. WaitingAt(p)'
  <2> SUFFICES ASSUME ~moved[p], NEW c \in due[p] \ (seen[p] \cup {x})
               PROVE  /\ \E k \in i + 1 .. Len(sessions) : sessions[k] = c
                      /\ home[c] = p /\ c \notin closing
    BY <1>1, <1>6, <1>8 DEF WaitingAt, InWalk, InVisit, Ahead
  <2>1. /\ \E k \in idx[p] .. Len(sessions) : sessions[k] = c
        /\ home[c] = p /\ c \notin closing
    BY <1>1, <1>8 DEF WaitingAt, InWalk, InVisit, Ahead, Removing
  <2>2. PICK k \in idx[p] .. Len(sessions) : sessions[k] = c
    BY <2>1
  <2>3. k \in ToVisit(p)
    BY <2>1, <2>2 DEF ToVisit
  <2>4. i <= k /\ k # i
    BY <1>2, <2>2, <2>3 DEF x
  <2>5. k \in i + 1 .. Len(sessions)
    BY <1>2, <1>8, <2>2, <2>4
  <2> QED
    BY <2>1, <2>2, <2>5
<1>12. ASSUME NEW q \in Pollers \ {p}
       PROVE  BehindAt(q)' /\ WaitingAt(q)'
  <2>1. BehindAt(q) /\ WaitingAt(q)
    BY DEF WalkInv
  <2>2. BehindAt(q)'
    BY <1>1, <1>6, <2>1 DEF BehindAt, InWalk, InVisit, Ahead
  <2>3. WaitingAt(q)'
    BY <1>1, <1>6, <2>1 DEF WaitingAt, InWalk, InVisit, Ahead
  <2> QED
    BY <2>2, <2>3
<1> QED
  BY <1>6, <1>7, <1>9, <1>10, <1>11, <1>12 DEF WalkInv

\* on_manager returns or closes a session: the walk stands where it stood.
LEMMA WalkGoesOn ==
  ASSUME HomeInv, WalkInv, NEW p \in Pollers,
         Visited(p) \/ \E d \in Conns : ManagerCloses(p, d)
  PROVE  WalkInv'
<1> USE DEF appVars, regVars, sessVars, loopVars, walkVars, netVars, Goto
<1>1. /\ UNCHANGED <<sessions, closing, seen, due, moved, mem, home>> /\ Moves(p)
      /\ pc[p] = "managed"
      /\ \/ pc'[p] = "walk" /\ idx'[p] = idx[p] + 1
         \/ pc'[p] = "mark" /\ ret'[p] = "managed" /\ idx'[p] = idx[p]
  <2>1. CASE Visited(p)
    BY <2>1 DEF Visited, HomeInv, Shape, Moves, Places
  <2>2. CASE \E d \in Conns : ManagerCloses(p, d)
    BY <2>2 DEF ManagerCloses, SessionRemove, HomeInv, Shape, Moves, Places
  <2> QED
    BY <2>1, <2>2
<1>2. WalkShape'
  BY <1>1 DEF WalkInv, WalkShape
<1>3. BehindAt(p)' /\ WaitingAt(p)'
  <2>1. BehindAt(p) /\ WaitingAt(p)
    BY DEF WalkInv
  <2>2. InWalk(p) /\ InWalk(p)' /\ Ahead(p)' = Ahead(p) /\ Ahead(p) = idx[p] + 1
    BY <1>1 DEF InWalk, InVisit, Ahead, Removing
  <2>3. BehindAt(p)'
    BY <1>1, <2>1, <2>2 DEF BehindAt, Moves
  <2>4. WaitingAt(p)'
    BY <1>1, <2>1, <2>2 DEF WaitingAt
  <2> QED
    BY <2>3, <2>4
<1>4. ASSUME NEW q \in Pollers \ {p}
      PROVE  BehindAt(q)' /\ WaitingAt(q)'
  BY <1>1, WalkFrame DEF Moves
<1> QED
  BY <1>2, <1>3, <1>4 DEF WalkInv

\* The walk ends: whatever was due, and nothing removed meanwhile, was visited.
LEMMA WalkFinishes ==
  ASSUME HomeInv, WalkInv, NEW p \in Pollers, WalkEnds(p)
  PROVE  WalkInv' /\ (~moved[p] => due[p] \subseteq seen[p])
<1> USE DEF appVars, regVars, sessVars, loopVars, walkVars, netVars, Goto
<1>1. /\ UNCHANGED <<sessions, closing, mem, home, cur, ret>>
      /\ pc[p] = "walk" /\ ToVisit(p) = {} /\ pc' = [pc EXCEPT ![p] = "poll"]
      /\ idx' = [idx EXCEPT ![p] = 1]
      /\ due' = [due EXCEPT ![p] = {}] /\ seen' = [seen EXCEPT ![p] = {}]
      /\ moved' = [moved EXCEPT ![p] = FALSE]
  BY DEF WalkEnds
<1>2. /\ pc'[p] = "poll" /\ due'[p] = {} /\ seen'[p] = {}
      /\ \A q \in Pollers \ {p} : /\ pc'[q] = pc[q] /\ idx'[q] = idx[q] /\ seen'[q] = seen[q]
                                  /\ due'[q] = due[q] /\ (moved'[q] <=> moved[q])
  BY <1>1 DEF HomeInv, Shape, WalkInv, WalkShape
<1>3. WalkShape'
  BY <1>1 DEF WalkInv, WalkShape
<1>4. BehindAt(p)' /\ WaitingAt(p)'
  BY <1>2 DEF BehindAt, WaitingAt
<1>5. ASSUME NEW q \in Pollers \ {p}
      PROVE  BehindAt(q)' /\ WaitingAt(q)'
  <2>1. BehindAt(q) /\ WaitingAt(q)
    BY DEF WalkInv
  <2>2. BehindAt(q)'
    BY <1>1, <1>2, <2>1 DEF BehindAt, InWalk, InVisit, Ahead
  <2>3. WaitingAt(q)'
    BY <1>1, <1>2, <2>1 DEF WaitingAt, InWalk, InVisit, Ahead
  <2> QED
    BY <2>2, <2>3
<1>6. ASSUME ~moved[p], NEW c \in due[p], c \notin seen[p]
      PROVE  FALSE
  <2>1. /\ \E k \in idx[p] .. Len(sessions) : sessions[k] = c
        /\ home[c] = p /\ c \notin closing
    BY <1>1, <1>6 DEF WalkInv, WaitingAt, InWalk, InVisit, Ahead, Removing
  <2> QED
    BY <1>1, <2>1 DEF ToVisit
<1> QED
  BY <1>3, <1>4, <1>5, <1>6 DEF WalkInv

\* A session is listed: at the end, behind nobody's walk.
LEMMA WalkListAdd ==
  ASSUME HomeInv, WalkInv, NEW p \in Pollers, NEW ok \in BOOLEAN, ListAdd(p, ok)
  PROVE  WalkInv'
<1> USE DEF appVars, regVars, sessVars, loopVars, walkVars, netVars, Goto
<1> DEFINE x == cur[p]
<1>1. /\ UNCHANGED <<closing, seen, due, moved, ret, idx>>
      /\ home' = [home EXCEPT ![x] = IF ok THEN @ ELSE None]
      /\ pc[p] = "created" /\ ~UsedEarly(x, ok) /\ pc' = [pc EXCEPT ![p] = "accept"]
      /\ cur' = [cur EXCEPT ![p] = None]
      /\ sessions' = (IF ok THEN Append(sessions, x) ELSE sessions)
      /\ mem' = [mem EXCEPT ![x] = IF ok THEN @ ELSE "freed"]
  BY DEF ListAdd
<1>2. x \in Conns /\ mem[x] = "live" /\ x \notin Range(sessions)
  BY <1>1 DEF HomeInv, NewCur, Unlisted, UsedEarly
<1>9. /\ \A c \in Conns \ {x} : home'[c] = home[c]
      /\ \A i \in 1 .. Len(sessions) : sessions[i] \in Conns \ {x}
  BY <1>1, <1>2, ListFacts DEF HomeInv, Shape
<1>3. /\ pc'[p] = "accept"
      /\ \A q \in Pollers \ {p} : pc'[q] = pc[q] /\ cur'[q] = cur[q]
      /\ \A c \in Conns : mem[c] # "none" => mem'[c] # "none"
      /\ sessions \in Seq(Conns) /\ Len(sessions) \in Nat
  BY <1>1, <1>2 DEF HomeInv, Shape
<1>4. /\ Len(sessions') \in Len(sessions) .. Len(sessions) + 1
      /\ \A i \in 1 .. Len(sessions) : sessions'[i] = sessions[i]
      /\ \A i \in 1 .. Len(sessions') : i \in 1 .. Len(sessions) \/ sessions'[i] = x
  BY <1>1, <1>2, <1>3
<1>5. WalkShape'
  BY <1>1 DEF WalkInv, WalkShape
<1>6. \A q \in Pollers : x \notin seen[q]
  BY <1>1 DEF WalkInv, BehindAt
<1> HIDE DEF x
<1>7. BehindAt(p)' /\ WaitingAt(p)'
  <2>1. ~InWalk(p) /\ ~InWalk(p)'
    BY <1>1, <1>3 DEF InWalk, InVisit, Removing
  <2> QED
    BY <1>1, <1>3, <2>1, NotWalking
<1>8. ASSUME NEW q \in Pollers \ {p}
      PROVE  BehindAt(q)' /\ WaitingAt(q)'
  <2>1. BehindAt(q) /\ WaitingAt(q) /\ seen[q] \subseteq Conns /\ due[q] \subseteq Conns
        /\ idx[q] \in Nat \ {0}
    BY DEF WalkInv, WalkShape, HomeInv, Shape
  <2>2. (InWalk(q)' <=> InWalk(q)) /\ Ahead(q)' = Ahead(q) /\ Ahead(q) \in Nat \ {0}
    BY <1>1, <1>3, <2>1 DEF InWalk, InVisit, Ahead
  <2>3. BehindAt(q)'
    <3> SUFFICES ASSUME NEW c \in seen[q]
                 PROVE  /\ InWalk(q)' /\ mem'[c] # "none"
                        /\ \A i \in 1 .. Len(sessions') : sessions'[i] = c => i < Ahead(q)'
                        /\ \A r \in Pollers : pc'[r] = "created" => cur'[r] # c
      BY <1>1 DEF BehindAt
    <3>1. c \in Conns /\ c # x
      BY <1>6, <2>1
    <3> QED
      BY <1>3, <1>4, <2>1, <2>2, <3>1 DEF BehindAt
  <2>4. WaitingAt(q)'
    <3>1. \A c \in due[q] : mem'[c] # "none"
      BY <1>3, <2>1 DEF WaitingAt
    <3>2. \A c : (\E i \in Ahead(q) .. Len(sessions) : sessions[i] = c) =>
                 \E i \in Ahead(q) .. Len(sessions') : sessions'[i] = c
      <4>1. PICK a \in Nat \ {0}, n \in Nat, m \in Nat :
              a = Ahead(q) /\ n = Len(sessions) /\ m = Len(sessions') /\ n <= m
        BY <1>3, <1>4, <2>2
      <4>2. \A i \in a .. n : i \in a .. m /\ i \in 1 .. n
        BY <4>1
      <4> QED
        BY <1>4, <4>1, <4>2
    <3>3. \A c : (\E i \in Ahead(q) .. Len(sessions) : sessions[i] = c) => home'[c] = home[c]
      BY <1>3, <1>9, <2>2
    <3> QED
      BY <1>1, <1>3, <2>1, <2>2, <3>1, <3>2, <3>3, SMTT(30) DEF WaitingAt
  <2> QED
    BY <2>3, <2>4
<1> QED
  BY <1>5, <1>7, <1>8 DEF WalkInv

\* A session is marked: it is the marking thread's own, so no other walk waits for it.
LEMMA WalkMark ==
  ASSUME HomeInv, WalkInv, NEW p \in Pollers, Mark(p)
  PROVE  WalkInv'
<1> USE DEF appVars, regVars, sessVars, loopVars, walkVars, netVars, Goto
<1>1. /\ UNCHANGED <<sessions, seen, due, moved, mem, home, cur, ret, idx>>
      /\ pc[p] = "mark" /\ pc' = [pc EXCEPT ![p] = "unlink"]
      /\ closing' = closing \cup {cur[p]}
  BY DEF Mark
<1>2. cur[p] \in Conns /\ home[cur[p]] = p
  BY <1>1 DEF HomeInv, OwnCur, Removing
<1>3. pc'[p] = "unlink" /\ \A q \in Pollers \ {p} : pc'[q] = pc[q]
  BY <1>1 DEF HomeInv, Shape
<1>4. WalkShape'
  BY <1>1, <1>2 DEF WalkInv, WalkShape
<1>5. ASSUME NEW q \in Pollers
      PROVE  BehindAt(q)' /\ WaitingAt(q)'
  <2>1. BehindAt(q) /\ WaitingAt(q)
    BY DEF WalkInv
  <2>2. (InWalk(q)' <=> InWalk(q)) /\ Ahead(q)' = Ahead(q)
    BY <1>1, <1>3 DEF InWalk, InVisit, Ahead, Removing
  <2>3. BehindAt(q)'
    BY <1>1, <1>3, <2>1, <2>2 DEF BehindAt
  <2>4. WaitingAt(q)'
    BY <1>1, <1>2, <1>3, <2>1, <2>2 DEF WaitingAt
  <2> QED
    BY <2>3, <2>4
<1> QED
  BY <1>4, <1>5 DEF WalkInv

\* A session leaves the list: every walk under way knows that the list was disturbed, and
\* what it visited stays behind it.
LEMMA WalkUnlink ==
  ASSUME HomeInv, WalkInv, NEW p \in Pollers, Unlink(p)
  PROVE  WalkInv'
<1> USE DEF appVars, regVars, sessVars, loopVars, walkVars, netVars, Goto
<1>1. /\ UNCHANGED <<closing, seen, due, mem, home, cur, ret, idx>>
      /\ pc[p] = "unlink"
      /\ moved' = [q \in Pollers |-> pc[q] \in {"walk", "managed"} \/ ret[q] = "managed"]
  BY DEF Unlink
<1>2. sessions' = Without(cur[p]) /\ pc' = [pc EXCEPT ![p] = "free"]
  BY HomeUnlink
<1>3. /\ Len(sessions) \in Nat /\ Len(sessions') \in Nat
      /\ \A i \in 1 .. Len(sessions') : \E j \in i .. Len(sessions) : sessions'[i] = sessions[j]
  <2>1. sessions \in Seq(Conns) /\ IsInjective(sessions)
    BY DEF HomeInv, Shape, Listed
  <2>2. Len(sessions) \in Nat
    BY <2>1
  <2>3. CASE cur[p] \in Range(sessions)
    <3>1. Without(cur[p]) \in Seq(Conns)
      BY <2>1, <2>3, WithoutOK
    <3> QED
      BY <1>2, <2>1, <2>2, <2>3, <3>1, WithoutOK
  <2>4. CASE cur[p] \notin Range(sessions)
    <3>1. sessions' = sessions
      BY <1>2, <2>4 DEF Without
    <3>2. \A i \in 1 .. Len(sessions) : i \in i .. Len(sessions)
      BY <2>2
    <3> QED
      BY <2>2, <3>1, <3>2
  <2> QED
    BY <2>3, <2>4
<1>4. pc'[p] = "free" /\ \A q \in Pollers \ {p} : pc'[q] = pc[q]
  BY <1>2 DEF HomeInv, Shape
<1>5. WalkShape'
  BY <1>1 DEF WalkInv, WalkShape
<1>6. ASSUME NEW q \in Pollers
      PROVE  BehindAt(q)' /\ WaitingAt(q)'
  <2>1. BehindAt(q) /\ WaitingAt(q) /\ idx[q] \in Nat \ {0}
    BY DEF WalkInv, HomeInv, Shape
  <2>2. (InWalk(q)' <=> InWalk(q)) /\ Ahead(q)' = Ahead(q) /\ Ahead(q) \in Nat \ {0}
    BY <1>1, <1>4, <2>1 DEF InWalk, InVisit, Ahead, Removing
  <2>3. BehindAt(q)'
    <3>1. ASSUME NEW c \in seen[q], NEW i \in 1 .. Len(sessions'), sessions'[i] = c
          PROVE  i < Ahead(q)
      <4>1. PICK j \in i .. Len(sessions) : sessions[j] = c
        BY <1>3, <3>1
      <4>2. j \in 1 .. Len(sessions) /\ j < Ahead(q)
        BY <1>3, <2>1, <4>1 DEF BehindAt
      <4> QED
        BY <2>2, <4>1, <4>2
    <3> QED
      BY <1>1, <1>4, <2>1, <2>2, <3>1 DEF BehindAt
  <2>4. WaitingAt(q)'
    <3>1. InWalk(q) => moved'[q]
      BY <1>1 DEF InWalk, InVisit
    <3> QED
      BY <1>1, <2>1, <2>2, <3>1 DEF WaitingAt
  <2> QED
    BY <2>3, <2>4
<1> QED
  BY <1>5, <1>6 DEF WalkInv

\* A session is freed: it was unlinked before, so a walk of its thread knows.
LEMMA WalkFree ==
  ASSUME HomeInv, WalkInv, NEW p \in Pollers, Free(p)
  PROVE  WalkInv'
<1> USE DEF appVars, regVars, sessVars, loopVars, walkVars, netVars, Goto
<1>1. /\ UNCHANGED <<sessions, seen, due, moved, idx>>
      /\ home' = [home EXCEPT ![cur[p]] = None]
      /\ pc[p] = "free" /\ pc' = [pc EXCEPT ![p] = ret[p]]
      /\ mem' = [mem EXCEPT ![cur[p]] = "freed"] /\ closing' = closing \ {cur[p]}
      /\ cur' = [cur EXCEPT ![p] = None] /\ ret' = [ret EXCEPT ![p] = "poll"]
  BY DEF Free
<1>2. cur[p] \in Conns /\ ret[p] \in {"poll", "recv", "managed"}
  BY <1>1 DEF HomeInv, OwnCur, Shape, Removing
<1>6. /\ \A c \in Conns \ {cur[p]} : home'[c] = home[c]
      /\ \A i \in 1 .. Len(sessions) : sessions[i] \in Conns \ {cur[p]}
      /\ Len(sessions) \in Nat
  BY <1>1, <1>2, ListFacts DEF HomeInv, Shape, Unlisted
<1>3. /\ pc'[p] = ret[p]
      /\ \A q \in Pollers \ {p} : pc'[q] = pc[q] /\ cur'[q] = cur[q] /\ ret'[q] = ret[q]
      /\ \A c \in Conns : mem[c] # "none" => mem'[c] # "none"
  BY <1>1, <1>2 DEF HomeInv, Shape
<1>4. WalkShape'
  BY <1>1 DEF WalkInv, WalkShape
<1>5. ASSUME NEW q \in Pollers
      PROVE  BehindAt(q)' /\ WaitingAt(q)'
  <2>1. BehindAt(q) /\ WaitingAt(q) /\ seen[q] \subseteq Conns /\ due[q] \subseteq Conns
    BY DEF WalkInv, WalkShape
  <2>2. (InWalk(q)' <=> InWalk(q)) /\ (InWalk(q) => Ahead(q)' = Ahead(q))
    BY <1>1, <1>2, <1>3 DEF InWalk, InVisit, Ahead, Removing
  <2>3. BehindAt(q)'
    BY <1>1, <1>2, <1>3, <2>1, <2>2 DEF BehindAt
  <2>4. WaitingAt(q)'
    <3>1. InWalk(q) => Ahead(q) \in Nat \ {0}
      BY DEF Ahead, HomeInv, Shape
    <3>2. InWalk(q) => \A c : (\E i \in Ahead(q) .. Len(sessions) : sessions[i] = c) =>
                                home'[c] = home[c]
      BY <1>6, <3>1
    <3> QED
      BY <1>1, <1>2, <1>3, <2>1, <2>2, <3>2 DEF WaitingAt
  <2> QED
    BY <2>3, <2>4
<1> QED
  BY <1>4, <1>5 DEF WalkInv

LEMMA WalkStep ==
  ASSUME HomeInv, WalkInv, [Next]_vars
  PROVE  WalkInv'
<1> USE DEF appVars, regVars, sessVars, loopVars, walkVars, netVars
<1>1. CASE UNCHANGED <<sessVars, loopVars, walkVars>>
  <2>1. WalkShape'
    BY <1>1 DEF WalkInv, WalkShape
  <2>2. \A q \in Pollers : BehindAt(q)' /\ WaitingAt(q)'
    BY <1>1, WalkFrame
  <2> QED
    BY <2>1, <2>2 DEF WalkInv
<1>2. CASE (Application \/ StopReturns) /\ ~Destroy
  <2>1. UNCHANGED <<sessVars, walkVars>>
    BY <1>2 DEF Application, StopReturns, PoolStart, PoolStop, StartListen, StartAdd, StartArm,
       StartFails, StartDone, Stop, StopCancel, StopDel, StopDone
  <2>2. WalkShape'
    BY <2>1 DEF WalkInv, WalkShape
  <2>3. \A r \in Pollers :
          /\ pc'[r] = pc[r] \/ (pc[r] \in {"found", "closed"} /\ pc'[r] \in {"closed", "stale"})
          /\ UNCHANGED <<cur, ret, idx>>
    BY <1>2, ApplicationPlaces
  <2>4. ASSUME NEW q \in Pollers
        PROVE  BehindAt(q)' /\ WaitingAt(q)'
    <3>1. CASE pc'[q] = pc[q]
      BY <2>1, <2>3, <3>1, WalkFrame
    <3>2. CASE pc'[q] # pc[q]
      <4>1. ~InWalk(q) /\ ~InWalk(q)'
        BY <2>3, <3>2 DEF InWalk, InVisit, Removing
      <4> QED
        BY <2>1, <4>1, NotWalking
    <3> QED
      BY <3>1, <3>2
  <2> QED
    BY <2>2, <2>4 DEF WalkInv
<1>3. CASE Destroy
  <2>1. /\ UNCHANGED <<pc, ret, walkVars, closing>> /\ \A p \in Pollers : pc[p] = "poll"
        /\ mem' = [c \in Conns |-> IF c \in Range(sessions) THEN "freed" ELSE mem[c]]
    BY <1>3 DEF Destroy, HomeInv, Quiet
  <2>2. WalkShape'
    BY <2>1 DEF WalkInv, WalkShape
  <2>3. ASSUME NEW q \in Pollers
        PROVE  BehindAt(q)' /\ WaitingAt(q)'
    <3>1. ~InWalk(q) /\ ~InWalk(q)'
      BY <2>1 DEF InWalk, InVisit, Removing
    <3> QED
      BY <2>1, <3>1, NotWalking
  <2> QED
    BY <2>2, <2>3 DEF WalkInv
<1>4. ASSUME NEW p \in Pollers, Event(p)
      PROVE  WalkInv'
  <2> USE DEF Goto
  <2>1. CASE AcceptEvent(p)
    <3>1. Moves(p) /\ UNCHANGED <<sessVars, walkVars>> /\ pc[p] = "poll" /\ pc'[p] = "found"
      BY <2>1 DEF AcceptEvent, Polling, HomeInv, Shape, Moves, Places
    <3> QED
      BY <3>1, WalkOutside
  <2>2. ASSUME NEW c \in Conns, SessionFails(p, c)
        PROVE  WalkInv'
    <3>1. /\ Moves(p) /\ UNCHANGED <<sessVars, walkVars>> /\ pc[p] = "poll"
          /\ pc'[p] = "mark" /\ ret'[p] = "poll"
      BY <2>2 DEF SessionFails, SessionRemove, Polling, HomeInv, Shape, Moves, Places
    <3> QED
      BY <3>1, WalkOutside
  <2>3. ASSUME NEW c \in Conns, SessionReads(p, c)
        PROVE  WalkInv'
    <3>1. Moves(p) /\ UNCHANGED <<sessVars, walkVars>> /\ pc[p] = "poll" /\ pc'[p] = "recv"
      BY <2>3 DEF SessionReads, Polling, HomeInv, Shape, Moves, Places
    <3> QED
      BY <3>1, WalkOutside
  <2>4. CASE ManagerEvent(p)
    <3>1. Moves(p) /\ UNCHANGED <<sessVars, walkVars>> /\ pc[p] = "poll" /\ pc'[p] = "timer"
      BY <2>4 DEF ManagerEvent, Polling, HomeInv, Shape, Moves, Places
    <3> QED
      BY <3>1, WalkOutside
  <2> QED
    BY <1>4, <2>1, <2>2, <2>3, <2>4 DEF Event
<1>5. ASSUME NEW p \in Pollers, Handler(p)
      PROVE  WalkInv'
  <2> USE DEF Goto
  <2>1. CASE AcceptNone(p)
    <3>1. Moves(p) /\ UNCHANGED <<sessVars, walkVars>> /\ pc[p] = "accept" /\ pc'[p] = "poll"
      BY <2>1 DEF AcceptNone, HomeInv, Shape, Moves, Places
    <3> QED
      BY <3>1, WalkOutside
  <2>6. ASSUME NEW same \in BOOLEAN, AcceptCall(p, same)
        PROVE  WalkInv'
    <3>1. /\ Moves(p) /\ UNCHANGED <<sessVars, walkVars>>
          /\ pc[p] \in {"found", "closed", "stale"} /\ pc'[p] \in {"accept", "poll"}
      BY <2>6 DEF AcceptCall, HomeInv, Shape, Moves, Places
    <3> QED
      BY <3>1, WalkOutside
  <2>2. ASSUME NEW c \in Conns, NEW r \in Pollers, AcceptCreate(p, c, r)
        PROVE  WalkInv'
    <3>1. /\ UNCHANGED <<sessions, closing, walkVars>> /\ pc[p] = "accept"
          /\ c \in backlog /\ home' = [home EXCEPT ![c] = r] /\ mem' = [mem EXCEPT ![c] = "live"]
          /\ cur' = [cur EXCEPT ![p] = c] /\ pc' = [pc EXCEPT ![p] = "created"]
          /\ UNCHANGED <<pool, ret, subj, idx, fresh>> /\ backlog' = backlog \ {c}
          /\ target' = [target EXCEPT ![p] = r]
      BY <2>2 DEF AcceptCreate, Accepted
    <3>2. mem[c] = "none"
      BY <3>1 DEF HomeInv, NotYet
    <3>3. Moves(p) /\ pc'[p] = "created" /\ cur'[p] = c
      BY <3>1 DEF HomeInv, Shape, Moves, Places
    <3>4. \A d \in Conns : mem[d] # "none" => mem'[d] # "none" /\ home'[d] = home[d]
      BY <3>1, <3>2 DEF HomeInv, Shape
    <3> QED
      BY <3>1, <3>2, <3>3, <3>4, WalkOutside
  <2>3. ASSUME NEW c \in Conns, AcceptRefuse(p, c)
        PROVE  WalkInv'
    BY <1>1, <2>3 DEF AcceptRefuse
  <2>4. ASSUME NEW d \in Conns, RecvCloses(p, d)
        PROVE  WalkInv'
    <3>1. /\ Moves(p) /\ UNCHANGED <<sessVars, walkVars>> /\ pc[p] = "recv"
          /\ pc'[p] = "mark" /\ ret'[p] = "recv"
      BY <2>4 DEF RecvCloses, SessionRemove, HomeInv, Shape, Moves, Places
    <3> QED
      BY <3>1, WalkOutside
  <2>5. ASSUME NEW eof \in BOOLEAN, RecvEnds(p, eof)
        PROVE  WalkInv'
    <3>1. UNCHANGED <<sessVars, walkVars>>
      BY <2>5 DEF RecvEnds
    <3> QED
      BY <2>5, <3>1, RecvEndsIs, WalkOutside
  <2>7. ASSUME NEW ok \in BOOLEAN, ListLate(p, ok)
        PROVE  WalkInv'
    BY <1>1, <2>7 DEF ListLate
  <2>8. CASE UseStale(p)
    BY <1>1, <2>8 DEF UseStale
  <2>9. CASE AcceptTakes(p)
    BY <2>2, <2>3, <2>9 DEF AcceptTakes, ChoosePoller
  <2> QED
    BY <1>5, <2>1, <2>4, <2>5, <2>6, <2>7, <2>8, <2>9, WalkBegins, WalkListAdd, WalkMark, WalkUnlink,
       WalkFree, WalkVisits, WalkGoesOn, WalkFinishes
    DEF Handler
<1>6. CASE UNCHANGED vars \/ \E c \in Conns : Connect(c)
  BY <1>1, <1>6 DEF vars, Connect
<1> QED
  BY <1>2, <1>3, <1>4, <1>5, <1>6 DEF Next

\* What ManagerRound says of one step.
ManagerRoundStep ==
  \A p \in Pollers : pc[p] = "walk" =>
    /\ pc'[p] = "managed" => subj'[p] \notin seen[p]
    /\ pc'[p] = "poll" /\ ~moved[p] => due[p] \subseteq seen[p]

LEMMA RoundStep ==
  ASSUME HomeInv, WalkInv, [Next]_vars
  PROVE  ManagerRoundStep
<1> SUFFICES ASSUME NEW q \in Pollers, pc[q] = "walk"
             PROVE  /\ pc'[q] = "managed" => subj'[q] \notin seen[q]
                    /\ pc'[q] = "poll" /\ ~moved[q] => due[q] \subseteq seen[q]
  BY DEF ManagerRoundStep
<1> USE DEF appVars, regVars, sessVars, loopVars, walkVars, netVars, Goto
<1>1. CASE Visit(q) \/ WalkEnds(q)
  <2>1. CASE Visit(q)
    <3>1. pc'[q] = "managed"
      BY <2>1 DEF Visit, HomeInv, Shape
    <3> QED
      BY <2>1, <3>1, WalkVisits
  <2>2. CASE WalkEnds(q)
    <3>1. pc'[q] = "poll"
      BY <2>2 DEF WalkEnds, HomeInv, Shape
    <3> QED
      BY <2>2, <3>1, WalkFinishes
  <2> QED
    BY <1>1, <2>1, <2>2
<1>2. CASE ~(Visit(q) \/ WalkEnds(q))
  <2>1. pc'[q] = "walk"
    <3>1. CASE Application \/ StopReturns
      BY <3>1, ApplicationPlaces
    <3>4. CASE UNCHANGED vars \/ \E c \in Conns : Connect(c)
      BY <3>4 DEF vars, Connect
    <3>2. ASSUME NEW p \in Pollers, Event(p)
          PROVE  pc'[q] = "walk"
      BY <3>2 DEF Event, AcceptEvent, SessionFails, SessionReads, ManagerEvent, SessionRemove, Polling,
         HomeInv, Shape
    <3>3. ASSUME NEW p \in Pollers, Handler(p)
          PROVE  pc'[q] = "walk"
      <4>1. CASE p = q
        BY <1>2, <3>3, <4>1 DEF Handler, AcceptCall, AcceptNone, AcceptTakes, AcceptCreate,
           AcceptRefuse, ListAdd, ListLate, RecvCloses, ManagerCloses, RecvEnds, Mark, Unlink, Free,
           ManagerCall, Visited, UseStale
      <4>2. CASE p # q
        BY <3>3, <4>2, HandlerPlaces
      <4> QED
        BY <4>1, <4>2
    <3> QED
      BY <3>1, <3>2, <3>3, <3>4 DEF Next
  <2> QED
    BY <2>1
<1> QED
  BY <1>1, <1>2

\* One round of run_manager_on_poller calls on_manager at most once for a session, though the
\* mutex is dropped around the callback and removals move the last session into the hole; and
\* a round during which nothing was removed reaches every session its poller had.
THEOREM RoundsVisitOnce == Spec => ManagerRound
<1>1. Init => WalkInv
  <2>1. Init => WalkShape
    BY DEF Init, WalkShape
  <2>2. Init => \A p \in Pollers : BehindAt(p) /\ WaitingAt(p)
    BY DEF Init, BehindAt, WaitingAt
  <2> QED
    BY <2>1, <2>2 DEF WalkInv
<1>2. HomeInv /\ WalkInv /\ [Next]_vars => WalkInv'
  BY WalkStep
<1>3. HomeInv /\ WalkInv /\ [Next]_vars => ManagerRoundStep
  BY RoundStep
<1> QED
  BY <1>1, <1>2, <1>3, HomeAlways, PTL DEF Spec, ManagerRound, ManagerRoundStep
=============================================================================
