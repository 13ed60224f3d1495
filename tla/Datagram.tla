------------------------------ MODULE Datagram ------------------------------
(***************************************************************************)
(* ztk_udp_server with one socket per poller, and a ztk_udp_client on the  *)
(* first poller, over the pollers' tables of registered fds: the epoll and *)
(* the select back end.  A table entry is found by fd number, and the      *)
(* kernel gives out the lowest free number, so what a failed start leaves  *)
(* behind meets later sockets.  Calls are made between callbacks, and each *)
(* add or del of a table entry is one step although the tables have no     *)
(* lock; a callback that runs on freed memory ends what is modelled.       *)
(***************************************************************************)
EXTENDS Integers, Sequences, SequencesExt, FiniteSets, FiniteSetsExt

CONSTANTS
  NPollers,    \* pollers of the pool
  NFds,        \* bound: fd numbers
  MaxStarts,   \* bound: starts of the server, and binds of the client
  MaxPackets   \* bound: datagrams

ASSUME DatagramAssumption ==
  /\ NPollers \in Nat \ {0} /\ NFds \in Nat /\ NFds > NPollers
  /\ MaxStarts \in Nat /\ MaxPackets \in Nat

\* The pollers of the pool, in the order of their slots.
Pollers == 1 .. NPollers
Fds == 1 .. NFds
Client == 0    \* the user of the client's entry; a server's slot is its poller
None == -1

VARIABLES
  backend,   \* epoll, select
  shared,    \* shared_fd_mode: no SO_REUSEPORT, one fd for every poller
  open,      \* fds in use
  inbox,     \* datagrams waiting at each fd; 0 stands for no fd
  table,     \* entries: per poller and fd, the user or None
  watch,     \* per poller, the fds in its epoll set
  batch,     \* per poller, reported events not yet dispatched, <<fd, user when reported>>
  dead,      \* pollers whose loop has ended with an error
  srv,       \* the server: at (idle, start, gone; undefined once a callback has run on
             \* freed memory, the client's too), slot being started, started, fds
  cli,       \* the client: fd, attached, started, peer, gone
  calls,     \* starts and binds so far
  packets    \* datagrams so far

udpVars == <<backend, shared, open, inbox, table, watch, batch, dead, srv, cli, calls, packets>>

UdpTypeOK ==
  /\ backend \in {"epoll", "select"} /\ shared \in BOOLEAN
  /\ open \subseteq Fds /\ inbox \in [0 .. NFds -> Seq({"data", "empty"})]
  /\ table \in [Pollers -> [Fds -> Pollers \cup {Client, None}]]
  /\ watch \in [Pollers -> SUBSET Fds]
  /\ batch \in [Pollers -> SUBSET (Fds \X (Pollers \cup {Client, None}))]
  /\ dead \subseteq Pollers
  /\ srv \in [at : {"idle", "start", "gone", "undefined"}, i : 1 .. NPollers + 1, started : BOOLEAN,
              fd : [Pollers -> 0 .. NFds]]
  /\ cli \in [fd : 0 .. NFds, attached : BOOLEAN, started : BOOLEAN, peer : BOOLEAN, gone : BOOLEAN]
  /\ calls \in 0 .. MaxStarts /\ packets \in 0 .. MaxPackets

\* ztk_poller_create, apart from the wake fd's own entry.
PollersInit ==
  /\ backend \in {"epoll", "select"}
  /\ table = [p \in Pollers |-> [f \in Fds |-> None]]
  /\ watch = [p \in Pollers |-> {}] /\ batch = [p \in Pollers |-> {}] /\ dead = {}

\* ztk_udp_client_create.
CliInit == cli = [fd |-> 0, attached |-> FALSE, started |-> FALSE, peer |-> FALSE, gone |-> FALSE]

\* ztk_udp_server_create.
SrvInit ==
  /\ shared \in BOOLEAN
  /\ srv = [at |-> "idle", i |-> 1, started |-> FALSE, fd |-> [p \in Pollers |-> 0]]

UdpInit ==
  /\ PollersInit /\ CliInit /\ SrvInit
  /\ open = {} /\ inbox = [f \in 0 .. NFds |-> <<>>]
  /\ calls = 0 /\ packets = 0

-----------------------------------------------------------------------------
(* The table of a poller, and the kernel's side of it                      *)

\* Closing a set of fds takes them out of every epoll set; entries stay.
Unwatched(fs) == [p \in Pollers |-> watch[p] \ fs]
Emptied(fs) == [f \in 0 .. NFds |-> IF f \in fs THEN <<>> ELSE inbox[f]]

\* ztk_sockplat_bind_udp: the number of the new fd when those in old are closed before.
NewFd(old) == Min(Fds \ (open \ old))

\* ztk_socket_bind_udp_ex: the old fd is closed; new is empty if there is none then.
Bound(old, new) == open' = (open \ old) \cup new /\ inbox' = Emptied(old)

\* Bug: the result of changing an entry's epoll registration is not looked at.
AddTrusting(tb, wt, p, f, u) ==
  {[ok |-> TRUE, table |-> [tb EXCEPT ![p][f] = u],
    watch |-> IF tb[p][f] # None THEN wt ELSE [wt EXCEPT ![p] = @ \cup {f}]]}

\* ztk_poller_add over epoll: an entry with this number is taken over, and epoll then
\* refuses to change a registration that closing the old fd has removed.
EpollAdd(tb, wt, p, f, u) ==
  IF tb[p][f] # None
  THEN {[ok |-> f \in wt[p], table |-> [tb EXCEPT ![p][f] = u], watch |-> wt]}
  ELSE {[ok |-> TRUE, table |-> [tb EXCEPT ![p][f] = u], watch |-> [wt EXCEPT ![p] = @ \cup {f}]],
        [ok |-> FALSE, table |-> tb, watch |-> wt]}

\* ztk_poller_add over select: only memory for a new entry may be wanting.
SelectAdd(tb, wt, p, f, u) ==
  {[ok |-> TRUE, table |-> [tb EXCEPT ![p][f] = u], watch |-> wt]}
    \cup (IF tb[p][f] = None THEN {[ok |-> FALSE, table |-> tb, watch |-> wt]} ELSE {})

Add(tb, wt, p, f, u) ==
  IF backend = "epoll" THEN EpollAdd(tb, wt, p, f, u) ELSE SelectAdd(tb, wt, p, f, u)

\* ztk_poller_del of each poller's fd in ds.
DelEntries(ds) == [p \in Pollers |-> [f \in Fds |-> IF <<p, f>> \in ds THEN None ELSE table[p][f]]]
DelWatch(ds) == [p \in Pollers |-> {f \in watch[p] : <<p, f>> \notin ds}]

\* What epoll_wait reports, each event with its fd only.
EpollReady(p) == {<<f, None>> : f \in {g \in watch[p] : inbox[g] # <<>>}}

\* What ztk_poller_poll collects from select: fd and user, before any callback.
SelectReady(p) == {<<f, table[p][f]>> : f \in {g \in Fds : table[p][g] # None /\ inbox[g] # <<>>}}

\* ztk_poller_poll: wait.  select fails on an entry whose fd is closed, and the loop ends.
UdpPoll(p) ==
  /\ srv.at # "undefined" /\ p \notin dead /\ batch[p] = {}
  /\ IF backend = "select" /\ \E f \in Fds \ open : table[p][f] # None
     THEN dead' = dead \cup {p} /\ UNCHANGED batch
     ELSE /\ batch' = [batch EXCEPT ![p] = IF backend = "epoll" THEN EpollReady(p) ELSE SelectReady(p)]
          /\ batch' # batch /\ UNCHANGED dead
  /\ UNCHANGED <<backend, shared, open, inbox, table, watch, srv, cli, calls, packets>>

\* Bug: the read loop leaves an empty datagram where it is.
AfterReadPeek(q) ==
  IF "empty" \in ToSet(q) THEN SubSeq(q, SelectInSeq(q, LAMBDA x : x = "empty"), Len(q)) ELSE <<>>

\* The read loop of a callback: on_packet until there is no more, or an empty datagram,
\* which recvfrom takes and the loop takes for its end.
AfterRead(q) ==
  IF "empty" \in ToSet(q) THEN SubSeq(q, SelectInSeq(q, LAMBDA x : x = "empty") + 1, Len(q)) ELSE <<>>

\* udp_on_readable of slot u for fd f: nothing if f is not the slot's own fd.
ServerReads(u, f) == u \in Pollers /\ srv.fd[u] = f

\* udp_client_on_readable through socket_poller_cb.
ClientReads(u, f) == u = Client /\ cli.fd = f

\* The user of an entry has been freed.
Freed(u) == (u \in Pollers /\ srv.at = "gone") \/ (u = Client /\ cli.gone)

\* ztk_poller_poll: one event.  epoll's build looks the entry up again, select's calls
\* what it has collected.  Neither knows that the user has been freed meanwhile.
UdpDispatch(p, e) ==
  /\ srv.at # "undefined" /\ e \in batch[p] /\ batch' = [batch EXCEPT ![p] = @ \ {e}]
  /\ LET u == IF backend = "epoll" THEN table[p][e[1]] ELSE e[2]
     IN  /\ inbox' = (IF ServerReads(u, e[1]) \/ ClientReads(u, e[1])
                      THEN [inbox EXCEPT ![e[1]] = AfterRead(@)] ELSE inbox)
         /\ srv' = (IF Freed(u) THEN [srv EXCEPT !.at = "undefined"] ELSE srv)
  /\ UNCHANGED <<backend, shared, open, table, watch, dead, cli, calls, packets>>

\* A datagram arrives.
Arrive(f, d) ==
  /\ srv.at # "undefined" /\ packets < MaxPackets /\ packets' = packets + 1
  /\ inbox' = [inbox EXCEPT ![f] = Append(@, d)]
  /\ UNCHANGED <<backend, shared, open, table, watch, batch, dead, srv, cli, calls>>

-----------------------------------------------------------------------------
(* ztk_udp_server                                                          *)

\* ztk_udp_server_start.
UdpStart ==
  /\ srv.at = "idle" /\ ~srv.started /\ calls < MaxStarts /\ calls' = calls + 1
  /\ srv' = [srv EXCEPT !.at = "start", !.i = 1]
  /\ UNCHANGED <<backend, shared, open, inbox, table, watch, batch, dead, cli, packets>>

\* The fd of poller p's slot, once bound.
SlotFd(p) == IF shared THEN srv.fd[1] ELSE srv.fd[p]

\* ztk_socket_bind_udp_ex fails: the old fd is closed, start gives up.  The stop it calls
\* does nothing, since started is not set.
BindFails ==
  /\ srv.at = "start" /\ (shared => srv.i = 1)
  /\ LET old == {srv.fd[srv.i]} IN Bound(old, {}) /\ watch' = Unwatched(old)
  /\ srv' = [srv EXCEPT !.at = "idle", !.fd[srv.i] = 0]
  /\ UNCHANGED <<backend, shared, table, batch, dead, cli, calls, packets>>

\* Slot i gets its socket, or with shared_fd_mode the first slot's, and is registered;
\* the last one makes the server started.
StartSlot ==
  /\ srv.at = "start"
  /\ LET i == srv.i
         binds == ~shared \/ i = 1
         old == IF binds THEN {srv.fd[i]} ELSE {}
         f == IF binds THEN NewFd(old) ELSE srv.fd[1]
     IN  /\ Bound(old, {f})
         /\ \E r \in Add(table, Unwatched(old), i, f, i) :
              /\ table' = r.table /\ watch' = r.watch
              /\ srv' = [srv EXCEPT !.fd[i] = IF binds THEN f ELSE @, !.i = i + 1,
                                    !.at = IF r.ok /\ i < NPollers THEN "start" ELSE "idle",
                                    !.started = r.ok /\ i = NPollers]
  /\ UNCHANGED <<backend, shared, batch, dead, cli, calls, packets>>

\* ztk_udp_server_stop: the entries go, the sockets stay open.
Slots == {<<p, SlotFd(p)>> : p \in Pollers}
UdpStop ==
  /\ srv.at = "idle" /\ srv.started
  /\ table' = DelEntries(Slots) /\ watch' = DelWatch(Slots)
  /\ srv' = [srv EXCEPT !.started = FALSE]
  /\ UNCHANGED <<backend, shared, open, inbox, batch, dead, cli, calls, packets>>

\* ztk_udp_server_destroy: entries go only with a started server; the sockets are closed.
UdpDestroy ==
  /\ srv.at = "idle"
  /\ LET old == {srv.fd[p] : p \in Pollers} IN
       /\ table' = (IF srv.started THEN DelEntries(Slots) ELSE table)
       /\ open' = open \ old /\ watch' = Unwatched(old) /\ inbox' = Emptied(old)
  /\ srv' = [srv EXCEPT !.at = "gone", !.started = FALSE, !.fd = [p \in Pollers |-> 0]]
  /\ UNCHANGED <<backend, shared, batch, dead, cli, calls, packets>>

-----------------------------------------------------------------------------
(* ztk_udp_client on poller 1                                              *)

CliUp == ~cli.gone /\ srv.at # "undefined"
Mine == IF cli.attached THEN {<<1, cli.fd>>} ELSE {}

\* ztk_udp_client_bind and _start whose bind fails: the client has no socket; started
\* keeps the value it had.  Only bind forgets the peer beforehand.
CliBindFails(keep) ==
  /\ CliUp /\ calls < MaxStarts /\ calls' = calls + 1
  /\ Bound({cli.fd}, {})
  /\ table' = DelEntries(Mine) /\ watch' = Unwatched({cli.fd})
  /\ cli' = [cli EXCEPT !.fd = 0, !.attached = FALSE, !.peer = keep /\ cli.peer]
  /\ UNCHANGED <<backend, shared, batch, dead, srv, packets>>

\* ztk_udp_client_bind, or with a peer ztk_udp_client_start.
CliBind(peer) ==
  /\ CliUp /\ calls < MaxStarts /\ calls' = calls + 1
  /\ LET f == NewFd({cli.fd}) IN
       /\ Bound({cli.fd}, {f})
       /\ \E r \in Add(DelEntries(Mine), Unwatched({cli.fd}), 1, f, Client) :
            /\ table' = r.table /\ watch' = r.watch
            /\ cli' = [cli EXCEPT !.fd = f, !.attached = r.ok, !.started = @ \/ r.ok,
                                  !.peer = peer /\ (r.ok \/ @)]
  /\ UNCHANGED <<backend, shared, batch, dead, srv, packets>>

\* ztk_udp_client_set_peer.
CliSetPeer ==
  /\ CliUp /\ ~cli.peer /\ cli' = [cli EXCEPT !.peer = TRUE]
  /\ UNCHANGED <<backend, shared, open, inbox, table, watch, batch, dead, srv, calls, packets>>

\* ztk_udp_client_destroy.
CliDestroy ==
  /\ CliUp
  /\ open' = open \ {cli.fd} /\ inbox' = Emptied({cli.fd})
  /\ table' = DelEntries(Mine) /\ watch' = Unwatched({cli.fd})
  /\ cli' = [cli EXCEPT !.fd = 0, !.attached = FALSE, !.started = FALSE, !.gone = TRUE]
  /\ UNCHANGED <<backend, shared, batch, dead, srv, calls, packets>>

UdpLoop(p) == UdpPoll(p) \/ \E e \in batch[p] : UdpDispatch(p, e)

UdpNext ==
  \/ UdpStart \/ BindFails \/ StartSlot \/ UdpStop \/ UdpDestroy
  \/ CliSetPeer \/ CliDestroy \/ \E b \in BOOLEAN : CliBind(b) \/ CliBindFails(b)
  \/ \E p \in Pollers : UdpLoop(p)
  \/ \E f \in open, d \in {"data", "empty"} : Arrive(f, d)

-----------------------------------------------------------------------------
(* Properties                                                              *)

Reaches(p, f, u) == f \in open /\ table[p][f] = u /\ (backend = "epoll" => f \in watch[p])

\* A started server is registered with every poller under the fd it listens on, and so is
\* a client that attached, whatever failed starts and rebinds have left in the tables
\* under the numbers the kernel gives out again (ztk_udp_server_start, ztk_poller_add,
\* udp_client_bind_and_attach).
UdpReachable ==
  /\ srv.started => \A p \in Pollers : Reaches(p, SlotFd(p), p)
  /\ cli.attached => Reaches(1, cli.fd, Client)

\* A datagram at a started server is read, empty datagrams before it or not, unless the
\* server is stopped, the loop of the poller that reads it has ended, or a callback has
\* run on freed memory (udp_on_readable, ztk_poller_poll).
UdpServed ==
  \A p \in Pollers :
    LET reader == IF shared THEN 1 ELSE p IN
      (srv.started /\ inbox[SlotFd(p)] # <<>>)
        ~> (~srv.started \/ inbox[SlotFd(p)] = <<>> \/ reader \in dead \/ srv.at = "undefined")

=============================================================================
