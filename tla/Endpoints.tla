----------------------------- MODULE Endpoints ------------------------------
(***************************************************************************)
(* The network side of the library, one part at a time, as one instance    *)
(* to check.  The first three are a connection and the code that drives    *)
(* it on the thread of its poller: the output side of a TCP server's       *)
(* session, a TCP client, a TLS client.  The others are UDP over the       *)
(* pollers' tables, the choice of a poller, and RTP port pairs.  The parts *)
(* share modules, not state: a behaviour is one of one part.               *)
(***************************************************************************)
EXTENDS SessionOut, TlsClient, Datagram, PollerPool, RtpPort

VARIABLES
  kind,     \* the part
  manager   \* the session's server has an on_manager and an interval: its timer is armed

partVars == <<kind, manager>>

Kinds == {"session", "tcp", "tls", "udp", "pool", "rtp"}

connVars == <<sk, wire, sends, outVars, clientVars, tlsVars>>
otherVars == <<udpVars, poolVars, rtpVars>>
vars == <<partVars, connVars, otherVars>>

TypeOK ==
  /\ kind \in Kinds /\ manager \in BOOLEAN /\ sk \in Sockets
  /\ sends \in 0 .. MaxSends /\ wire \in Seq((1 .. MaxSends) \X Nat)
  /\ SessionTypeOK /\ ClientTypeOK /\ TlsTypeOK /\ UdpTypeOK /\ PoolTypeOK

\* A session begins with an accepted socket attached to its poller.
Init ==
  /\ kind \in Kinds /\ manager \in BOOLEAN
  /\ sk = (IF kind = "session"
           THEN [NoSocket EXCEPT !.fd = TRUE, !.attached = TRUE, !.net = "est"] ELSE NoSocket)
  /\ wire = <<>> /\ sends = 0
  /\ SessionInit /\ ClientInit /\ TlsInit /\ UdpInit /\ PoolInit /\ RtpInit
  /\ (kind # "session" => ~manager) /\ (kind # "udp" => backend = "epoll" /\ ~shared) /\ (kind # "pool" => ~prefer)

Session == kind = "session" /\ SessionNext /\ UNCHANGED <<partVars, clientVars, tlsVars, otherVars>>
Tcp == kind = "tcp" /\ TcpNext(MaxSends, MaxLen) /\ UNCHANGED <<partVars, outVars, tlsVars, otherVars>>
Tls == kind = "tls" /\ TlsNext(MaxSends) /\ UNCHANGED <<partVars, outVars, otherVars>>
Net == Transport /\ UNCHANGED <<partVars, outVars, clientVars, tlsVars, otherVars>>
Udp == kind = "udp" /\ UdpNext /\ UNCHANGED <<partVars, connVars, poolVars, rtpVars>>
Pool == kind = "pool" /\ PoolNext /\ UNCHANGED <<partVars, connVars, udpVars, rtpVars>>
Rtp == kind = "rtp" /\ RtpNext /\ UNCHANGED <<partVars, connVars, udpVars, poolVars>>

Next == Session \/ Tcp \/ Tls \/ Net \/ Udp \/ Pool \/ Rtp

Spec == Init /\ [][Next]_vars

\* Nothing but the given part of the connection's state changes.
Only(A, rest) == A /\ UNCHANGED <<partVars, rest, otherVars>>

\* The poller's loop runs and handlers go on; a connect is answered in the end; a peer
\* that is waited for in the handshake sends, and the handshake does not go on for ever.
ClientFairness ==
  /\ WF_vars(Net /\ sk.net = "syn")
  /\ WF_vars(kind = "tcp" /\ Only(ClientStep, <<outVars, tlsVars>>))
  /\ WF_vars(kind = "tls" /\ Only(TlsStep \/ (PollerCb /\ UNCHANGED tlsVars), outVars))
  /\ WF_vars(kind \in {"tcp", "tls"} /\ Only(\E e \in Report(sk) : Poll(e), <<outVars, tlsVars>>))
  /\ WF_vars(kind = "tls" /\ owed = "read" /\ Only(Poll({"in"}), <<outVars, tlsVars>>))
  /\ SF_vars(kind = "tls" /\ Only(Shaken \/ ShakeFails, outVars))

\* A send or a flush goes on; a manager timer, where the server has one, flushes again
\* and again, and a socket that is asked again and again takes something.
OutFairness ==
  /\ WF_vars(kind = "session" /\ Only(SessionStep, <<clientVars, tlsVars>>))
  /\ WF_vars(kind = "session" /\ manager /\ Only(FlushCall, <<clientVars, tlsVars>>))
  /\ SF_vars(kind = "session" /\ Only(\E n \in Taken(bytes) : FlushRound(n), <<clientVars, tlsVars>>))

\* Every poller's loop turns.
UdpFairness ==
  \A p \in Pollers :
    WF_vars(kind = "udp" /\ UdpLoop(p) /\ UNCHANGED <<partVars, connVars, poolVars, rtpVars>>)

FairSpec == Spec /\ ClientFairness /\ OutFairness /\ UdpFairness

-----------------------------------------------------------------------------
(* Properties                                                              *)

\* What is on the wire, followed by what is queued, is in the order of the application's
\* calls, none twice: for a session's partial writes, direct writes and queue, for a TCP
\* client, and for a TLS client whose messages are queued before and after the handshake,
\* except that a message sent from on_connect goes ahead of those queued before it; no
\* other overtakes (ztk_tcp_session_send, sendv, send_buf; ztk_tcp_client_send;
\* ztk_tls_client_send, tls_flush_pending).
WireOrder ==
  /\ kind = "session" => SessionInOrder
  /\ kind \in {"tcp", "tls"} =>
       LET s == wire \o Records(pend) IN
         \A i, j \in 1 .. Len(s) :
           i < j => Before(s[i], s[j]) \/ (s[i][1] \in ahead /\ Before(s[j], s[i]))

\* Queued bytes leave though POLL_OUT is never watched, if the server has a manager timer:
\* its flush is enough as long as the connection lasts.  Without one they stay until the
\* application sends or flushes (run_manager_on_poller, session_out_flush).
SessionDrains ==
  (manager /\ queue # <<>> /\ step = "idle") ~> (queue = <<>> \/ sk.net = "lost")

Phase == IF kind = "tls" THEN TlsPhase ELSE TcpPhase
Callbacks == INSTANCE Connection WITH phase <- IF kind \in {"tcp", "tls"} THEN Phase ELSE "idle"

\* Both clients keep the promise of Connection: on_connect once and before on_recv,
\* nothing after on_error, and the flags say which of the callbacks have run (fire_error,
\* client_on_writable, client_on_readable, tls_do_handshake, tls_fire_error).
CallbackProtocol == Callbacks!Spec

\* A connect that returned ZTK_OK is answered by on_connect or on_error unless the
\* application closes or connects again, whatever POLL_OUT and POLL_IN were watched on
\* the way (socket_poller_cb, tls_mod_poll, tls_do_handshake).
ConnectResolves == (kind \in {"tcp", "tls"} /\ Phase = "opening") ~> (Phase # "opening")

=============================================================================
