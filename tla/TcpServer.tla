------------------------------ MODULE TcpServer ------------------------------
(***************************************************************************)
(* ztk_tcp_server over a ztk_poller_pool: one listening socket registered  *)
(* with every poller, accept loops that race for its connections, the      *)
(* session list shared by the loop threads under srv->mutex, the periodic  *)
(* manager walk that drops the mutex around each callback, and start, stop *)
(* and destroy on the application's thread.                                *)
(*                                                                         *)
(* Every critical section of srv->mutex is one step, and so is every call  *)
(* of ztk_poller_add and ztk_poller_del, although the pollers' entry lists *)
(* have no lock.  A poller that has found the listening fd's entry, or a   *)
(* manager timer that is not cancelled, calls the handler in a later step. *)
(* What a session has to send is the subject of SessionOut (a flush        *)
(* changes nothing here), the task a cancel posts that of PollerTimer.     *)
(*                                                                         *)
(* A session may be given to any poller of the pool.  Where a freed        *)
(* session gets into use, or a freed entry whose memory was reused is      *)
(* called, the behaviour of the code is undefined: harm is set, and the    *)
(* model stops there.                                                      *)
(*                                                                         *)
(* The application is the one the code can serve: a callback closes its    *)
(* own session only from on_manager, sessions are closed on the thread of  *)
(* their poller, and the server is destroyed when the pool has stopped.    *)
(***************************************************************************)
EXTENDS Integers, Sequences, FiniteSets, SequencesExt, FiniteSetsExt

CONSTANTS
  NPollers,    \* size of the pool
  NConns,      \* bound: connections that clients open
  MaxStarts,   \* bound: calls of ztk_tcp_server_start
  None

Pollers == 1 .. NPollers

\* Connections, in the order in which they are made.
Conns == 1 .. NConns

ASSUME TcpServerAssumption ==
  /\ NPollers \in Nat \ {0} /\ NConns \in Nat /\ MaxStarts \in Nat
  /\ None \notin Conns

VARIABLES
  app, at,          \* the application's call in progress and its loop index
  started,          \* srv->started
  starts,           \* calls of start so far
  pool,             \* the loop threads: off, on
  alive,            \* srv is not freed
  manager,          \* on_manager is set and manager_interval_sec is positive
  listening,        \* listen_sock has a listening fd
  reg,              \* pollers whose epoll set has the listening fd
  armed, handle,    \* per poller: manager timers not cancelled; one is in the binding
  halfway, left,    \* history: the last start failed; pollers with a failed start's timer
  backlog, fresh,   \* connections to accept; connections never opened
  mem, home,        \* per connection: its ztk_tcp_session, session->poller
  closing,          \* sessions with session->closing set
  sessions,         \* srv->sessions, srv->session_count
  pc, cur, ret,     \* per loop thread: where it is, its session, where to return
  target,           \* per loop thread: the poller chosen for the session it creates
  subj, idx,        \* per loop thread: session whose callback runs, walk index
  due, seen, moved, \* history of the walk: to visit, visited, list disturbed
  harm              \* freed memory gets into use: none, a session, a poller's entry

appVars == <<app, at, started, starts, pool, alive, manager>>
regVars == <<listening, reg, armed, handle, halfway, left>>
sessVars == <<mem, home, closing, sessions>>
loopVars == <<pc, cur, ret, target, subj, idx>>
walkVars == <<due, seen, moved>>
netVars == <<backlog, fresh>>
vars == <<appVars, regVars, sessVars, loopVars, walkVars, netVars, harm>>

Places == {"poll", "found", "closed", "stale", "accept", "created", "recv",
           "timer", "walk", "managed", "mark", "unlink", "free"}
Removing == {"mark", "unlink", "free"}

TypeOK ==
  /\ app \in {"idle", "add", "arm", "cancel", "del"} /\ at \in 1 .. NPollers + 1
  /\ started \in BOOLEAN /\ alive \in BOOLEAN /\ manager \in BOOLEAN
  /\ starts \in 0 .. MaxStarts /\ pool \in {"off", "on"}
  /\ listening \in BOOLEAN /\ reg \subseteq Pollers
  /\ armed \in [Pollers -> Nat] /\ handle \in [Pollers -> BOOLEAN]
  /\ halfway \in BOOLEAN /\ left \subseteq Pollers
  /\ backlog \subseteq Conns /\ fresh \subseteq Conns
  /\ mem \in [Conns -> {"none", "live", "freed"}]
  /\ home \in [Conns -> Pollers \cup {None}] /\ closing \subseteq Conns
  /\ sessions \in Seq(Conns)
  /\ pc \in [Pollers -> Places] /\ ret \in [Pollers -> Places]
  /\ cur \in [Pollers -> Conns \cup {None}] /\ subj \in [Pollers -> Conns \cup {None}]
  /\ target \in [Pollers -> Pollers \cup {None}]
  /\ idx \in [Pollers -> Nat]
  /\ due \in [Pollers -> SUBSET Conns] /\ seen \in [Pollers -> SUBSET Conns]
  /\ moved \in [Pollers -> BOOLEAN]
  /\ harm \in {"none", "session", "entry"}

\* ztk_tcp_server_create has returned a server; the pool is not started.
Init ==
  /\ app = "idle" /\ at = 1 /\ started = FALSE /\ starts = 0
  /\ pool = "off" /\ alive = TRUE /\ manager \in BOOLEAN
  /\ listening = FALSE /\ reg = {} /\ halfway = FALSE /\ left = {}
  /\ armed = [p \in Pollers |-> 0] /\ handle = [p \in Pollers |-> FALSE]
  /\ backlog = {} /\ fresh = Conns
  /\ mem = [c \in Conns |-> "none"] /\ home = [c \in Conns |-> None]
  /\ closing = {} /\ sessions = <<>>
  /\ pc = [p \in Pollers |-> "poll"] /\ ret = [p \in Pollers |-> "poll"]
  /\ cur = [p \in Pollers |-> None] /\ subj = [p \in Pollers |-> None]
  /\ target = [p \in Pollers |-> None]
  /\ idx = [p \in Pollers |-> 1]
  /\ due = [p \in Pollers |-> {}] /\ seen = [p \in Pollers |-> {}]
  /\ moved = [p \in Pollers |-> FALSE] /\ harm = "none"

Goto(p, where) == pc' = [pc EXCEPT ![p] = where]

-----------------------------------------------------------------------------
(* The application's thread                                                *)

PoolStart ==
  /\ alive /\ pool = "off" /\ app = "idle"
  /\ pool' = "on"
  /\ UNCHANGED <<app, at, started, starts, alive, manager>>
  /\ UNCHANGED <<regVars, sessVars, loopVars, walkVars, netVars, harm>>

\* stop flags, then join: every loop thread finishes its handler first.
PoolStop ==
  /\ pool = "on" /\ app = "idle" /\ \A p \in Pollers : pc[p] = "poll"
  /\ pool' = "off"
  /\ UNCHANGED <<app, at, started, starts, alive, manager>>
  /\ UNCHANGED <<regVars, sessVars, loopVars, walkVars, netVars, harm>>

\* ztk_sockplat_listen: some address of the host could be bound and listened on, or none.
ListenResults == BOOLEAN

\* ztk_socket_listen closes the socket's fd and opens a new one: waiting clients of the
\* old one are reset, epoll forgets it, and an entry found for it is that of a closed fd.
Relisten(ok) ==
  /\ listening' = ok /\ reg' = {} /\ backlog' = {}
  /\ pc' = [p \in Pollers |-> IF pc[p] = "found" THEN "closed" ELSE pc[p]]

\* ztk_tcp_server_start up to the listening socket, the pool being started as tcp_server.h asks.
StartListen(ok) ==
  /\ alive /\ app = "idle" /\ pool = "on" /\ ~started /\ starts < MaxStarts
  /\ starts' = starts + 1 /\ halfway' = FALSE
  /\ Relisten(ok)
  /\ app' = (IF ok THEN "add" ELSE "idle") /\ at' = 1
  /\ UNCHANGED <<started, pool, alive, manager, armed, handle, left, fresh>>
  /\ UNCHANGED <<cur, ret, target, subj, idx, sessVars, walkVars, harm>>

\* One poller: ztk_poller_add ...
StartAdd ==
  /\ app = "add" /\ at <= NPollers
  /\ reg' = reg \cup {at}
  /\ app' = "arm"
  /\ UNCHANGED <<at, started, starts, pool, alive, manager, listening, armed, handle, halfway, left>>
  /\ UNCHANGED <<sessVars, loopVars, walkVars, netVars, harm>>

\* ... then listen_attach_manager: the timer, if there is anything for it to call.
StartArm ==
  /\ app = "arm"
  /\ armed' = [armed EXCEPT ![at] = IF manager THEN @ + 1 ELSE @]
  /\ handle' = [handle EXCEPT ![at] = @ \/ manager]
  /\ app' = "add" /\ at' = at + 1
  /\ UNCHANGED <<started, starts, pool, alive, manager, listening, reg, halfway, left>>
  /\ UNCHANGED <<sessVars, loopVars, walkVars, netVars, harm>>

\* Registration or the timer fails.  The call of stop does nothing: started is 0.
StartFails ==
  /\ (app = "add" /\ at <= NPollers) \/ (app = "arm" /\ manager)
  /\ app' = "idle" /\ at' = 1
  /\ halfway' = TRUE /\ left' = left \cup {p \in Pollers : handle[p]}
  /\ UNCHANGED <<started, starts, pool, alive, manager, listening, reg, armed, handle>>
  /\ UNCHANGED <<sessVars, loopVars, walkVars, netVars, harm>>

StartDone ==
  /\ app = "add" /\ at > NPollers
  /\ started' = TRUE /\ app' = "idle" /\ at' = 1
  /\ UNCHANGED <<starts, pool, alive, manager, regVars, sessVars, loopVars, walkVars, netVars, harm>>

Stop ==
  /\ alive /\ app = "idle" /\ started
  /\ app' = "cancel" /\ at' = 1
  /\ UNCHANGED <<started, starts, pool, alive, manager, regVars>>
  /\ UNCHANGED <<sessVars, loopVars, walkVars, netVars, harm>>

\* One poller: ztk_poller_timer_cancel sets the flag of the timer the binding knows ...
StopCancel ==
  /\ app = "cancel" /\ at <= NPollers
  /\ armed' = [armed EXCEPT ![at] = IF handle[at] THEN @ - 1 ELSE @]
  /\ handle' = [handle EXCEPT ![at] = FALSE]
  /\ app' = "del"
  /\ UNCHANGED <<at, started, starts, pool, alive, manager, listening, reg, halfway, left>>
  /\ UNCHANGED <<sessVars, loopVars, walkVars, netVars, harm>>

\* ... then ztk_poller_del unlinks and frees the entry, which the poller may have found.
StopDel ==
  /\ app = "del"
  /\ reg' = reg \ {at}
  /\ pc' = [pc EXCEPT ![at] = IF @ \in {"found", "closed"} THEN "stale" ELSE @]
  /\ app' = "cancel" /\ at' = at + 1
  /\ UNCHANGED <<started, starts, pool, alive, manager, listening, armed, handle, halfway, left>>
  /\ UNCHANGED <<cur, ret, target, subj, idx, sessVars, walkVars, netVars, harm>>

\* Bug: the loop ends one poller early.
StopDoneEarly ==
  /\ app = "cancel" /\ at >= NPollers
  /\ started' = FALSE /\ app' = "idle" /\ at' = 1
  /\ UNCHANGED <<starts, pool, alive, manager, regVars, sessVars, loopVars, walkVars, netVars, harm>>

StopDone ==
  /\ app = "cancel" /\ at > NPollers
  /\ started' = FALSE /\ app' = "idle" /\ at' = 1
  /\ UNCHANGED <<starts, pool, alive, manager, regVars, sessVars, loopVars, walkVars, netVars, harm>>

\* ztk_tcp_server_destroy: stop, every listed session, the listening socket, the server.
Destroy ==
  /\ alive /\ app = "idle" /\ pool = "off"
  /\ alive' = FALSE /\ started' = FALSE /\ listening' = FALSE /\ backlog' = {}
  /\ reg' = {}
  /\ armed' = [p \in Pollers |-> IF started /\ handle[p] THEN armed[p] - 1 ELSE armed[p]]
  /\ handle' = [p \in Pollers |-> IF started THEN FALSE ELSE handle[p]]
  /\ mem' = [c \in Conns |-> IF c \in Range(sessions) THEN "freed" ELSE mem[c]]
  /\ home' = [c \in Conns |-> IF c \in Range(sessions) THEN None ELSE home[c]]
  /\ sessions' = <<>>
  /\ UNCHANGED <<app, at, starts, pool, manager, halfway, left, closing>>
  /\ UNCHANGED <<loopVars, walkVars, fresh, harm>>

-----------------------------------------------------------------------------
(* Clients, and the loop threads                                           *)

Connect(c) ==
  /\ listening /\ c \in fresh /\ \A d \in fresh : c <= d
  /\ fresh' = fresh \ {c} /\ backlog' = backlog \cup {c}
  /\ UNCHANGED <<appVars, regVars, sessVars, loopVars, walkVars, harm>>

Polling(p) == pool = "on" /\ pc[p] = "poll"

\* epoll_wait reports the listening fd, level triggered, and find_entry its entry.
AcceptEvent(p) ==
  /\ Polling(p) /\ p \in reg /\ backlog # {}
  /\ Goto(p, "found")
  /\ UNCHANGED <<cur, ret, target, subj, idx, appVars, regVars, sessVars, walkVars, netVars, harm>>

\* e->cb: listen_on_readable goes on if listen_sock has the fd the event was for.  A fd
\* opened since then may have the same number; an entry freed since then may be intact.
AcceptCall(p, same) ==
  /\ pc[p] \in {"found", "closed", "stale"}
  /\ pc[p] = "found" => same
  /\ same => listening
  /\ Goto(p, IF same THEN "accept" ELSE "poll")
  /\ UNCHANGED <<cur, ret, target, subj, idx, appVars, regVars, sessVars, walkVars, netVars, harm>>

\* ztk_sockplat_accept takes the connection that has waited longest.
Accepted(c) == c \in backlog /\ (\A d \in backlog : c <= d) /\ backlog' = backlog \ {c}

\* Bug: the poller stops watching when accept has nothing (left) for it.
AcceptNoneDrops(p) ==
  /\ pc[p] = "accept"
  /\ reg' = reg \ {p}
  /\ Goto(p, "poll")
  /\ UNCHANGED <<listening, armed, handle, halfway, left, cur, ret, target, subj, idx>>
  /\ UNCHANGED <<appVars, sessVars, walkVars, netVars, harm>>

\* ztk_socket_accept has no socket to give: nobody waits (any more), or accept fails.  The
\* accept loop is left.
AcceptNone(p) ==
  /\ pc[p] = "accept"
  /\ Goto(p, "poll")
  /\ UNCHANGED <<cur, ret, target, subj, idx, appVars, regVars, sessVars, walkVars, netVars, harm>>

\* choose_poller: the application's choice, the least loaded of the pool, or p itself.
ChoosePoller == Pollers

\* session_create: from here on the session's poller q delivers its events.
AcceptCreate(p, c, q) ==
  /\ pc[p] = "accept" /\ Accepted(c)
  /\ home' = [home EXCEPT ![c] = q] /\ target' = [target EXCEPT ![p] = q]
  /\ mem' = [mem EXCEPT ![c] = "live"]
  /\ cur' = [cur EXCEPT ![p] = c]
  /\ Goto(p, "created")
  /\ UNCHANGED <<closing, sessions, fresh, ret, subj, idx, appVars, regVars, walkVars, harm>>

\* No memory, or the poller refuses the fd: the client's socket is destroyed.
AcceptRefuse(p, c) ==
  /\ pc[p] = "accept" /\ Accepted(c)
  /\ UNCHANGED <<fresh, appVars, regVars, sessVars, loopVars, walkVars, harm>>

\* Thread q is in the on_recv of session c.
InRecv(q, c) == subj[q] = c /\ (pc[q] = "recv" \/ (pc[q] \in Removing /\ ret[q] = "recv"))

\* The poller of a session that is not listed yet has dealt with it: it is freed, or about to
\* be and past the list; or accept is about to free it while its poller works on it.
UsedEarly(c, ok) ==
  \/ mem[c] = "freed"
  \/ \E q \in Pollers :
       IF ok THEN pc[q] = "free" /\ cur[q] = c
       ELSE InRecv(q, c) \/ (pc[q] \in Removing /\ cur[q] = c)

\* session_list_add or, when it fails, session_destroy comes too late: a freed session is
\* listed or destroyed again, or the session's poller goes on with a freed one.
ListLate(p, ok) ==
  /\ pc[p] = "created" /\ UsedEarly(cur[p], ok)
  /\ harm' = "session"
  /\ UNCHANGED <<appVars, regVars, sessVars, loopVars, walkVars, netVars>>

\* Bug: a session that cannot be listed is forgotten instead of destroyed.
ListAddForgets(p, ok) ==
  /\ pc[p] = "created" /\ ~UsedEarly(cur[p], ok)
  /\ sessions' = (IF ok THEN Append(sessions, cur[p]) ELSE sessions)
  /\ Goto(p, "accept")
  /\ cur' = [cur EXCEPT ![p] = None] /\ target' = [target EXCEPT ![p] = None]
  /\ UNCHANGED <<mem, home, closing, ret, subj, idx, appVars, regVars, walkVars, netVars, harm>>

\* session_list_add; a session that cannot be listed is destroyed.
ListAdd(p, ok) ==
  /\ pc[p] = "created" /\ ~UsedEarly(cur[p], ok)
  /\ sessions' = (IF ok THEN Append(sessions, cur[p]) ELSE sessions)
  /\ mem' = [mem EXCEPT ![cur[p]] = IF ok THEN @ ELSE "freed"]
  /\ home' = [home EXCEPT ![cur[p]] = IF ok THEN @ ELSE None]
  /\ Goto(p, "accept")
  /\ cur' = [cur EXCEPT ![p] = None] /\ target' = [target EXCEPT ![p] = None]
  /\ UNCHANGED <<closing, ret, subj, idx, appVars, regVars, walkVars, netVars, harm>>

\* session_remove(d) called from place `back`.
SessionRemove(p, d, back) ==
  /\ cur' = [cur EXCEPT ![p] = d] /\ ret' = [ret EXCEPT ![p] = back]
  /\ Goto(p, "mark")

\* ERR, HUP, end of stream or a failing recv.
SessionFails(p, c) ==
  /\ Polling(p) /\ mem[c] = "live" /\ home[c] = p
  /\ SessionRemove(p, c, "poll")
  /\ UNCHANGED <<target, subj, idx, appVars, regVars, sessVars, walkVars, netVars, harm>>

\* on_recv runs; the application may close other sessions of this thread.
SessionReads(p, c) ==
  /\ Polling(p) /\ mem[c] = "live" /\ home[c] = p
  /\ subj' = [subj EXCEPT ![p] = c]
  /\ Goto(p, "recv")
  /\ UNCHANGED <<cur, ret, target, idx, appVars, regVars, sessVars, walkVars, netVars, harm>>

RecvCloses(p, d) ==
  /\ pc[p] = "recv" /\ d # subj[p] /\ mem[d] = "live" /\ home[d] = p
  /\ SessionRemove(p, d, "recv")
  /\ UNCHANGED <<target, subj, idx, appVars, regVars, sessVars, walkVars, netVars, harm>>

\* Nothing more to read, or the stream has ended under the same event.
RecvEnds(p, eof) ==
  /\ pc[p] = "recv"
  /\ IF eof THEN SessionRemove(p, subj[p], "poll") ELSE Goto(p, "poll") /\ UNCHANGED <<cur, ret>>
  /\ subj' = [subj EXCEPT ![p] = None]
  /\ UNCHANGED <<target, idx, appVars, regVars, sessVars, walkVars, netVars, harm>>

\* The first half of session_remove: nobody else may start removing it.
Mark(p) ==
  /\ pc[p] = "mark"
  /\ closing' = closing \cup {cur[p]}
  /\ Goto(p, "unlink")
  /\ UNCHANGED <<mem, home, sessions, cur, ret, target, subj, idx, appVars, regVars, walkVars, netVars, harm>>

\* The last session takes the place of the removed one.
Without(c) ==
  LET last == Len(sessions)
      i == CHOOSE j \in 1 .. last : sessions[j] = c
  IN  IF c \in Range(sessions) THEN SubSeq([sessions EXCEPT ![i] = sessions[last]], 1, last - 1)
      ELSE sessions

Unlink(p) ==
  /\ pc[p] = "unlink"
  /\ sessions' = Without(cur[p])
  /\ moved' = [q \in Pollers |-> pc[q] \in {"walk", "managed"} \/ ret[q] = "managed"]
  /\ Goto(p, "free")
  /\ UNCHANGED <<mem, home, closing, cur, ret, target, subj, idx, due, seen>>
  /\ UNCHANGED <<appVars, regVars, netVars, harm>>

\* on_error has returned: session_destroy detaches, drops the queue, frees.
Free(p) ==
  /\ pc[p] = "free"
  /\ mem' = [mem EXCEPT ![cur[p]] = "freed"] /\ home' = [home EXCEPT ![cur[p]] = None]
  /\ closing' = closing \ {cur[p]}
  /\ Goto(p, ret[p])
  /\ cur' = [cur EXCEPT ![p] = None] /\ ret' = [ret EXCEPT ![p] = "poll"]
  /\ UNCHANGED <<sessions, target, subj, idx, appVars, regVars, walkVars, netVars, harm>>

-----------------------------------------------------------------------------
(* run_manager_on_poller                                                   *)

\* flush_expired_timers has popped a manager timer that is not cancelled ...
ManagerEvent(p) ==
  /\ Polling(p) /\ armed[p] > 0
  /\ Goto(p, "timer")
  /\ UNCHANGED <<cur, ret, target, subj, idx, appVars, regVars, sessVars, walkVars, netVars, harm>>

\* ... and calls it: run_manager_on_poller takes the mutex.
ManagerCall(p) ==
  /\ pc[p] = "timer"
  /\ Goto(p, "walk") /\ idx' = [idx EXCEPT ![p] = 1]
  /\ due' = [due EXCEPT ![p] = {c \in Range(sessions) \ closing : home[c] = p}]
  /\ UNCHANGED <<cur, ret, target, subj, seen, moved, appVars, regVars, sessVars, netVars, harm>>

\* Entries the walk stops at, from its index on.
ToVisit(p) ==
  {i \in idx[p] .. Len(sessions) : sessions[i] \notin closing /\ home[sessions[i]] = p}

\* With the mutex held up to the next session: flush it, unlock, call on_manager.
Visit(p) ==
  /\ pc[p] = "walk" /\ ToVisit(p) # {}
  /\ LET i == Min(ToVisit(p)) IN
       /\ idx' = [idx EXCEPT ![p] = i]
       /\ subj' = [subj EXCEPT ![p] = sessions[i]]
       /\ seen' = [seen EXCEPT ![p] = @ \cup {sessions[i]}]
  /\ Goto(p, "managed")
  /\ UNCHANGED <<cur, ret, target, due, moved, appVars, regVars, sessVars, netVars, harm>>

\* on_manager closes a session of this thread, its own included.
ManagerCloses(p, d) ==
  /\ pc[p] = "managed" /\ mem[d] = "live" /\ home[d] = p
  /\ SessionRemove(p, d, "managed")
  /\ UNCHANGED <<target, subj, idx, appVars, regVars, sessVars, walkVars, netVars, harm>>

\* Bug: the index is not advanced when the list got shorter during the callback.
VisitedStays(p) ==
  /\ pc[p] = "managed"
  /\ idx' = [idx EXCEPT ![p] = IF moved[p] THEN @ ELSE @ + 1]
  /\ subj' = [subj EXCEPT ![p] = None]
  /\ Goto(p, "walk")
  /\ UNCHANGED <<cur, ret, target, appVars, regVars, sessVars, walkVars, netVars, harm>>

\* on_manager returns; lock, ++i.
Visited(p) ==
  /\ pc[p] = "managed"
  /\ idx' = [idx EXCEPT ![p] = @ + 1]
  /\ subj' = [subj EXCEPT ![p] = None]
  /\ Goto(p, "walk")
  /\ UNCHANGED <<cur, ret, target, appVars, regVars, sessVars, walkVars, netVars, harm>>

\* The walk ends and the timer is set again.
WalkEnds(p) ==
  /\ pc[p] = "walk" /\ ToVisit(p) = {}
  /\ Goto(p, "poll") /\ idx' = [idx EXCEPT ![p] = 1]
  /\ due' = [due EXCEPT ![p] = {}] /\ seen' = [seen EXCEPT ![p] = {}]
  /\ moved' = [moved EXCEPT ![p] = FALSE]
  /\ UNCHANGED <<cur, ret, target, subj, appVars, regVars, sessVars, netVars, harm>>

\* A thread calls through an entry that has been freed and whose memory has been reused.
UseStale(p) ==
  /\ pc[p] = "stale"
  /\ harm' = "entry"
  /\ UNCHANGED <<appVars, regVars, sessVars, loopVars, walkVars, netVars>>

-----------------------------------------------------------------------------
StopReturns == harm = "none" /\ (StopCancel \/ StopDel \/ StopDone)

Application ==
  /\ harm = "none"
  /\ \/ PoolStart \/ PoolStop
     \/ \E ok \in ListenResults : StartListen(ok)
     \/ StartAdd \/ StartArm \/ StartFails \/ StartDone
     \/ Stop \/ Destroy

Event(p) ==
  /\ harm = "none"
  /\ \/ AcceptEvent(p)
     \/ \E c \in Conns : SessionFails(p, c) \/ SessionReads(p, c)
     \/ ManagerEvent(p)

\* accept has a connection to give.
AcceptTakes(p) ==
  \E c \in Conns : AcceptRefuse(p, c) \/ \E q \in ChoosePoller : AcceptCreate(p, c, q)

\* What a loop thread does once it is in a handler.
Handler(p) ==
  /\ harm = "none"
  /\ \/ \E same \in BOOLEAN : AcceptCall(p, same)
     \/ AcceptNone(p)
     \/ AcceptTakes(p)
     \/ \E ok \in BOOLEAN : ListAdd(p, ok) \/ ListLate(p, ok)
     \/ \E d \in Conns : RecvCloses(p, d) \/ ManagerCloses(p, d)
     \/ \E eof \in BOOLEAN : RecvEnds(p, eof)
     \/ Mark(p) \/ Unlink(p) \/ Free(p)
     \/ ManagerCall(p) \/ Visit(p) \/ Visited(p) \/ WalkEnds(p)
     \/ UseStale(p)

Next ==
  \/ Application \/ StopReturns
  \/ \E c \in Conns : harm = "none" /\ Connect(c)
  \/ \E p \in Pollers : Event(p) \/ Handler(p)

Spec == Init /\ [][Next]_vars

\* Handlers and a call of stop return; if pollers keep finding the listening fd ready, one
\* dispatches it, since epoll reports every ready fd in turn; and accept does not fail every
\* time although a client waits.
FairSpec ==
  /\ Spec
  /\ WF_vars(StopReturns)
  /\ \A p \in Pollers : WF_vars(Handler(p))
  /\ SF_vars(harm = "none" /\ \E p \in Pollers : AcceptEvent(p))
  /\ SF_vars(harm = "none" /\ \E p \in Pollers : AcceptTakes(p))

-----------------------------------------------------------------------------
(* Properties                                                              *)

\* Every session that exists is in the list exactly once, or a loop thread is about to
\* list it or to free it; and nothing in the list has been freed: no manager walk of
\* run_manager_on_poller and no ztk_tcp_server_destroy meets a freed session, and destroy
\* leaks none.  The accept loop comes too late to list (or to give up) a session only when
\* choose_poller has given it to another poller than the accepting one: session_create
\* attaches before session_list_add lists.
SessionHome ==
  /\ IsInjective(sessions)
  /\ \A c \in Range(sessions) : mem[c] = "live"
  /\ \A c \in Conns : mem[c] = "live" =>
       \/ c \in Range(sessions)
       \/ \E p \in Pollers : cur[p] = c /\ pc[p] \in {"created", "free"}
  /\ harm = "session" => \E p \in Pollers : pc[p] = "created" /\ target[p] # p

\* One manager round never calls on_manager twice for a session, whatever is removed by the
\* callbacks and by other threads while the mutex is dropped; and a round during which
\* nothing was removed calls it for every session the poller had.  (A removal moves the
\* last session to the hole, where run_manager_on_poller may already have passed.)
ManagerRound ==
  [][\A p \in Pollers : pc[p] = "walk" =>
       /\ pc'[p] = "managed" => subj'[p] \notin seen[p]
       /\ pc'[p] = "poll" /\ ~moved[p] => due[p] \subseteq seen[p]]_vars

\* Once ztk_tcp_server_stop has returned no poller finds the listening fd's entry and none
\* takes up a manager timer: what still runs was found before.  After a start that failed
\* half way, for which stop does nothing, pollers go on serving the fd until the next start;
\* and a manager timer such a start had armed runs for ever, whatever is stopped later.
StopQuiet ==
  [][app = "idle" /\ ~started =>
       \A p \in Pollers : pc[p] = "poll" =>
         /\ pc'[p] = "found" => halfway
         /\ pc'[p] = "timer" => p \in left]_vars

\* A client that waits while the server runs is accepted, or refused for want of memory,
\* though the pollers steal connections from each other and accept may fail.
QueuedServed ==
  \A c \in Conns :
    (c \in backlog /\ started /\ pool = "on") ~>
      (c \notin backlog \/ ~started \/ pool = "off" \/ harm # "none")

=============================================================================
