------------------------------- MODULE Socket -------------------------------
(***************************************************************************)
(* ztk_socket over the platform's sockets, as its users see it: an fd, its *)
(* registration with a poller, a connect in progress, and what the kernel  *)
(* makes of calls.  Connections fail at any point, writes are partial, and *)
(* the kernel's buffers may be full.                                       *)
(***************************************************************************)
EXTENDS Integers, Sequences, SequencesExt, FiniteSets, FiniteSetsExt

VARIABLES
  sk,     \* the socket: fd open, attached, connect_pending, POLL_OUT watched,
          \* and its connection in the kernel: none, syn, est, eof, lost
  wire,   \* history: the bytes the kernel has taken, as <<message, position>>
  sends   \* messages handed to a send function so far

NoSocket == [fd |-> FALSE, attached |-> FALSE, pending |-> FALSE, out |-> FALSE, net |-> "none"]

Sockets == [fd : BOOLEAN, attached : BOOLEAN, pending : BOOLEAN, out : BOOLEAN,
            net : {"none", "syn", "est", "eof", "lost"}]

\* ztk_socket_detach_poller.
Detach(s) == IF s.attached /\ s.fd THEN [s EXCEPT !.attached = FALSE] ELSE s

\* ztk_sockplat_connect, when some address of the host takes the call: in progress, or
\* connected at once.
PlatConnect == {"syn", "est"}

\* ztk_socket_connect: the old fd goes; the new one is absent, connecting or connected.
\* connect_pending is set with the new fd only.
ConnectResults(s) ==
  LET closed == [Detach(s) EXCEPT !.fd = FALSE, !.net = "none"]
  IN  {closed} \cup {[closed EXCEPT !.fd = TRUE, !.pending = (n = "syn"), !.net = n] : n \in PlatConnect}

\* default_poll_events: is POLL_OUT among them.
DefaultOut(s) == s.pending

\* ztk_socket_attach_poller.
Attach(s) == [Detach(s) EXCEPT !.attached = TRUE, !.out = DefaultOut(s)]

\* ztk_poller_mod of the socket's entry.
PollerMod(s, out) == [s EXCEPT !.out = out]

\* ztk_socket_mod_events: refused while not attached.
ModEvents(s, out) == IF s.attached THEN PollerMod(s, out) ELSE s

\* ztk_sockplat_check_connect, by getpeername and SO_ERROR.
PlatCheck(net) == IF net \in {"est", "eof"} THEN "OK" ELSE IF net = "syn" THEN "AGAIN" ELSE "ERR"

\* ztk_socket_check_connect.
CheckConnect(s) == IF s.pending THEN PlatCheck(s.net) ELSE "OK"

\* What epoll can report of the socket: errors unasked, IN for data or its end, and OUT
\* unless the send buffer is full, which it is not while connecting.
EventSets(s) ==
  IF ~s.attached \/ s.net \in {"none", "syn"} THEN {}
  ELSE IF s.net = "lost" THEN {{"err"}, {"err", "in"}}
  ELSE {e \in SUBSET {"in", "out"} :
          /\ e # {} /\ ("out" \in e => s.out)
          /\ (s.net = "eof" => "in" \in e) /\ (s.pending /\ s.out => "out" \in e)}

\* The first part of socket_poller_cb for a connected or connecting socket: a connect that
\* has come through is noted and POLL_OUT is given up.
Connected(s, e) ==
  IF "out" \in e /\ s.pending /\ CheckConnect(s) = "OK"
  THEN LET c == [s EXCEPT !.pending = FALSE] IN ModEvents(c, DefaultOut(c))
  ELSE s

\* ztk_sockplat_send, ztk_sockplat_sendv of n bytes in all: how many the kernel may take.
Taken(n) == 1 .. n

\* ztk_socket_send, ztk_socket_sendv: the results that are not errors.
Sent(s, n) == IF s.fd /\ s.net \in {"est", "eof"} THEN Taken(n) ELSE {}

\* ztk_sockplat_recv.
PlatRecv(net) ==
  CASE net = "est" -> {"data", "again"} [] net = "eof" -> {"data", "end"} [] OTHER -> {"error"}

\* ztk_socket_recv.
Recv(s) == IF s.fd THEN PlatRecv(s.net) ELSE {"error"}

\* The kernel's side: a connection is established or refused, ends, or breaks.
Network(s) ==
  CASE s.net = "syn" -> {"est", "lost"}
    [] s.net = "est" -> {"eof", "lost"}
    [] OTHER -> {}

Transport ==
  /\ \E n \in Network(sk) : sk' = [sk EXCEPT !.net = n]
  /\ UNCHANGED <<wire, sends>>

\* The bytes off+1 .. off+len of message m.
Bytes(m, off, len) == [i \in 1 .. len |-> <<m, off + i>>]

=============================================================================
