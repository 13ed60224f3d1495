----------------------------- MODULE TlsClient ------------------------------
(***************************************************************************)
(* ztk_tls_client on the thread of its poller.  OpenSSL is external: what  *)
(* the code relies on is that a call says whether it waits for the socket  *)
(* to become readable or writable, that SSL_write writes all or nothing,   *)
(* and that a write which waits must be repeated from the same buffer,     *)
(* since no moving-buffer mode is set.  The application sends from         *)
(* anywhere, on_connect included, where a message is written ahead of      *)
(* those queued before; it takes ZTK_ERR_AGAIN for queued, and does not    *)
(* close from a callback.                                                  *)
(***************************************************************************)
EXTENDS TcpClient

CONSTANT SendBuf   \* TLS_SEND_BUF, in messages

ASSUME SendBufAssumption == SendBuf \in Nat \ {0}

VARIABLES
  state,  \* TLS_ST_TCP, _HANDSHAKE, _READY; there is an SSL handle in the last two
  pend,   \* pending: the messages queued
  owed,   \* what OpenSSL waits for: none; in the handshake read, write; then the
          \* buffer a write must be repeated from: pend, app
  ahead   \* history: messages written from on_connect while others were queued

tlsVars == <<state, pend, owed, ahead>>

TlsTypeOK ==
  /\ state \in {"tcp", "hs", "ready"} /\ pend \in Seq(Nat) /\ Len(pend) <= SendBuf
  /\ owed \in {"none", "read", "write", "pend", "app"} /\ ahead \subseteq Nat

TlsInit == state = "tcp" /\ pend = <<>> /\ owed = "none" /\ ahead = {}

\* The messages of q, each one record.
Records(q) == [i \in DOMAIN q |-> <<q[i], 1>>]

\* The fields a connect, a close and an error reset.
Reset ==
  /\ state' = "tcp" /\ connected' = FALSE /\ pend' = <<>> /\ owed' = "none"
  /\ UNCHANGED ahead

-----------------------------------------------------------------------------
(* Calls                                                                   *)

\* ztk_tls_client_connect; tls_start_ssl follows a connection that is there at once.
TlsConnect ==
  /\ at = "idle" /\ ~closing /\ connects < MaxConnects /\ connects' = connects + 1
  /\ \E s \in ConnectResults(sk) :
       \/ sk' = s /\ want' = FALSE /\ connected' = FALSE /\ at' = at
       \/ /\ s.fd /\ sk' = Attach(s) /\ want' = TRUE
          /\ connected' = ~s.pending /\ at' = (IF s.pending THEN at ELSE "start")
  /\ state' = "tcp" /\ pend' = <<>> /\ owed' = "none" /\ log' = <<>>
  /\ UNCHANGED <<wire, sends, closing, ev, ahead>>

\* The application may call send: outside of callbacks, in on_recv, and in on_connect.
MaySend == at \in {"idle", "recv", "hello"}

\* ztk_tls_client_send before the handshake is over: queued, unless there is no room.
SendEarly ==
  /\ MaySend /\ ~closing /\ state # "ready" /\ sends' = sends + 1
  /\ pend' = (IF Len(pend) < SendBuf THEN Append(pend, sends') ELSE pend)
  /\ UNCHANGED <<sk, wire, state, owed, ahead, clientVars>>

\* SSL_write takes the message, whatever is queued.
SendReady ==
  /\ MaySend /\ ~closing /\ state = "ready" /\ sends' = sends + 1
  /\ owed = "none" /\ sk.net \in {"est", "eof"}
  /\ wire' = Append(wire, <<sends', 1>>)
  /\ ahead' = (IF at = "hello" /\ pend # <<>> THEN ahead \cup {sends'} ELSE ahead)
  /\ UNCHANGED <<sk, state, pend, owed, clientVars>>

\* SSL_write waits: the message is queued and POLL_OUT watched as it asks.
SendWaits(out) ==
  /\ MaySend /\ ~closing /\ state = "ready" /\ sends' = sends + 1
  /\ owed = "none" /\ sk.net \in {"est", "eof"}
  /\ owed' = "app" /\ sk' = ModEvents(sk, out)
  /\ pend' = (IF Len(pend) < SendBuf THEN Append(pend, sends') ELSE pend)
  /\ UNCHANGED <<wire, state, ahead, clientVars>>

\* SSL_write fails, as it does when it owes a retry of another buffer: tls_fire_error.
SendFails ==
  /\ MaySend /\ ~closing /\ state = "ready" /\ sends' = sends + 1
  /\ owed # "none" \/ sk.net = "lost"
  /\ Reset /\ closing' = TRUE /\ sk' = Detach(sk)
  /\ log' = Append(log, "error") /\ want' = FALSE
  /\ UNCHANGED <<wire, at, ev, connects>>

\* ztk_tls_client_close: nothing after an error, where closing is still set.
TlsClose ==
  /\ at = "idle" /\ ~closing
  /\ Reset /\ sk' = NoSocket /\ log' = <<>> /\ want' = FALSE
  /\ UNCHANGED <<wire, sends, closing, at, ev, connects>>

\* ztk_tls_client_destroy.
TlsDestroy ==
  /\ at = "idle" /\ at' = "gone"
  /\ Reset /\ closing' = FALSE /\ sk' = NoSocket /\ log' = <<>> /\ want' = FALSE
  /\ UNCHANGED <<wire, sends, ev, connects>>

-----------------------------------------------------------------------------
(* Events                                                                  *)

\* sock_on_writable.
TlsWritable ==
  /\ at = "out"
  /\ connected' = TRUE
  /\ at' = (IF ~connected THEN "start" ELSE IF state = "hs" THEN "shake" ELSE "flush")
  /\ UNCHANGED <<sk, wire, sends, closing, ev, connects, log, want, tlsVars>>

\* sock_on_readable: nothing if the OUT half of the report has failed.
TlsReadable ==
  /\ at = "in" /\ ev' = {}
  /\ at' = (IF closing THEN "idle" ELSE IF state = "hs" THEN "shake" ELSE "drain")
  /\ UNCHANGED <<sk, wire, sends, connected, closing, connects, log, want, tlsVars>>

\* tls_start_ssl up to the handshake.
StartSsl ==
  /\ at = "start"
  /\ \/ at' = "fail" /\ UNCHANGED <<sk, state>>
     \/ at' = "shake" /\ state' = "hs" /\ sk' = ModEvents(sk, TRUE)
  /\ UNCHANGED <<wire, sends, connected, closing, ev, connects, log, want, pend, owed, ahead>>

\* tls_do_handshake: SSL_connect is through; on_connect runs next.
Shaken ==
  /\ at = "shake" /\ sk.net = "est"
  /\ state' = "ready" /\ owed' = "none" /\ sk' = ModEvents(sk, FALSE)
  /\ log' = Append(log, "connect") /\ at' = "hello"
  /\ UNCHANGED <<wire, sends, connected, closing, ev, connects, want, pend, ahead>>

\* Bug: POLL_OUT is not watched when the handshake waits to write.
ShakeWaitsIn(out) ==
  /\ at = "shake" /\ sk.net = "est"
  /\ owed' = (IF out THEN "write" ELSE "read") /\ sk' = ModEvents(sk, FALSE) /\ at' = Return
  /\ UNCHANGED <<wire, sends, connected, closing, ev, connects, log, want, state, pend, ahead>>

\* It waits for the peer, or to write.
ShakeWaits(out) ==
  /\ at = "shake" /\ sk.net = "est"
  /\ owed' = (IF out THEN "write" ELSE "read") /\ sk' = ModEvents(sk, out) /\ at' = Return
  /\ UNCHANGED <<wire, sends, connected, closing, ev, connects, log, want, state, pend, ahead>>

\* It fails: the peer is gone or the certificate is refused.
ShakeFails ==
  /\ at = "shake" /\ at' = "fail"
  /\ UNCHANGED <<sk, wire, sends, connected, closing, ev, connects, log, want, tlsVars>>

\* on_connect returns.
HelloReturns ==
  /\ at = "hello" /\ at' = "flush"
  /\ UNCHANGED <<sk, wire, sends, connected, closing, ev, connects, log, want, tlsVars>>

\* tls_flush_pending: what is queued goes out in one write, which may have to wait; after
\* a waiting send it repeats the write from another buffer and fails.
FlushPending ==
  /\ at = "flush"
  /\ \/ /\ pend = <<>> \/ state # "ready"
        /\ at' = "drain" /\ UNCHANGED <<sk, wire, pend, owed>>
     \/ /\ pend # <<>> /\ owed # "app" /\ sk.net \in {"est", "eof"}
        /\ wire' = wire \o Records(pend) /\ pend' = <<>> /\ owed' = "none"
        /\ at' = "drain" /\ UNCHANGED sk
     \/ /\ pend # <<>> /\ owed # "app" /\ sk.net \in {"est", "eof"}
        /\ \E out \in BOOLEAN : sk' = ModEvents(sk, out)
        /\ owed' = "pend" /\ at' = "drain" /\ UNCHANGED <<wire, pend>>
     \/ /\ pend # <<>> /\ (owed = "app" \/ sk.net = "lost")
        /\ at' = "fail" /\ UNCHANGED <<sk, wire, pend, owed>>
  /\ UNCHANGED <<sends, connected, closing, ev, connects, log, want, state, ahead>>

\* tls_drain_plain, one turn: data for on_recv, the end, a failure, or a wait, which also
\* says whether POLL_OUT is watched.
DrainPlain ==
  /\ at = "drain"
  /\ \/ closing /\ at' = Return /\ UNCHANGED <<sk, log>>
     \/ ~closing /\ sk.net \in {"est", "eof"} /\ at' = "recv" /\ log' = LogRecv /\ UNCHANGED sk
     \/ ~closing /\ sk.net \in {"eof", "lost"} /\ at' = "fail" /\ UNCHANGED <<sk, log>>
     \/ /\ ~closing /\ sk.net = "est" /\ at' = Return
        /\ \E out \in BOOLEAN : sk' = ModEvents(sk, out)
        /\ UNCHANGED log
  /\ UNCHANGED <<wire, sends, connected, closing, ev, connects, want, tlsVars>>

\* on_recv returns and SSL_read is called again, on a handle that a failed send has freed.
RecvReturns ==
  /\ at = "recv"
  /\ at' = (IF closing THEN "crash" ELSE "drain")
  /\ UNCHANGED <<sk, wire, sends, connected, closing, ev, connects, log, want, tlsVars>>

\* tls_fire_error: everything is taken down before on_error; closing stays.
TlsFireError ==
  /\ at = "fail" /\ ~closing
  /\ Reset /\ closing' = TRUE /\ sk' = Detach(sk) /\ at' = Return
  /\ log' = Append(log, "error") /\ want' = FALSE
  /\ UNCHANGED <<wire, sends, ev, connects>>

TlsHandshake == Shaken \/ ShakeFails \/ \E out \in BOOLEAN : ShakeWaits(out)

TlsStep ==
  \/ TlsWritable \/ TlsReadable \/ StartSsl \/ TlsHandshake
  \/ HelloReturns \/ FlushPending \/ DrainPlain \/ RecvReturns \/ TlsFireError

TlsNext(maxSends) ==
  \/ TlsConnect \/ TlsClose \/ TlsDestroy \/ TlsStep
  \/ PollerCb /\ UNCHANGED tlsVars
  \/ \E e \in EventSets(sk) : Poll(e) /\ UNCHANGED tlsVars
  \/ sends < maxSends /\ (SendEarly \/ SendReady \/ SendFails \/ \E out \in BOOLEAN : SendWaits(out))

TlsPhase ==
  CASE closing -> "down" [] ~closing /\ state = "ready" -> "up"
    [] ~closing /\ state # "ready" /\ sk.attached -> "opening" [] OTHER -> "idle"

=============================================================================
