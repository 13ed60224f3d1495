----------------------------- MODULE TcpClient ------------------------------
(***************************************************************************)
(* ztk_tcp_client on the thread of its poller: connect, the socket's       *)
(* events, send, close, destroy.  The callbacks run inside the handlers:   *)
(* on_error may close the client and, with Reconnect, connect again;       *)
(* on_connect and on_recv do not close it.                                 *)
(***************************************************************************)
EXTENDS Socket

CONSTANTS
  MaxConnects,  \* bound: calls of connect
  Reconnect     \* the application connects again from on_error

ASSUME ClientAssumption == MaxConnects \in Nat \ {0} /\ Reconnect \in BOOLEAN

VARIABLES
  connected,  \* connected; tcp_connected of a TLS client
  closing,    \* closing
  at,         \* where the client's thread is; idle: waiting for events
  ev,         \* the reported events not yet handled
  connects,   \* connects so far
  log,        \* history: callbacks since the last connect, on_recv written once
  want        \* history: connect returned ZTK_OK, and neither close nor on_error since

clientVars == <<connected, closing, at, ev, connects, log, want>>

ClientTypeOK ==
  /\ connected \in BOOLEAN /\ closing \in BOOLEAN /\ want \in BOOLEAN
  /\ at \in {"idle", "event", "out", "in", "fail", "error", "gone",
             "start", "shake", "hello", "flush", "drain", "recv", "crash"}
  /\ ev \subseteq {"in", "out", "err"} /\ connects \in 0 .. MaxConnects
  /\ log \in Seq({"connect", "recv", "error"})

ClientInit ==
  /\ connected = FALSE /\ closing = FALSE /\ at = "idle" /\ ev = {}
  /\ connects = 0 /\ log = <<>> /\ want = FALSE

\* The handler is over: the IN half of the report follows an OUT half.
Return == IF "in" \in ev THEN "in" ELSE "idle"
LogRecv == IF log # <<>> /\ Last(log) = "recv" THEN log ELSE Append(log, "recv")

-----------------------------------------------------------------------------
(* Calls                                                                   *)

\* Bug: the connected flag of the last connection is kept.
ConnectKeepsFlag ==
  /\ at = "idle" \/ (at = "error" /\ Reconnect)
  /\ ~closing /\ connects < MaxConnects /\ connects' = connects + 1
  /\ \E s \in ConnectResults(sk) :
       \/ sk' = s /\ want' = FALSE /\ connected' = FALSE
       \/ s.fd /\ sk' = Attach(s) /\ want' = TRUE /\ connected' = (connected \/ ~s.pending)
  /\ log' = (IF connected' /\ ~sk'.pending THEN <<"connect">> ELSE <<>>)
  /\ UNCHANGED <<wire, sends, closing, at, ev>>

\* ztk_tcp_client_connect.  The socket or the poller may refuse; a connection that is
\* there at once is reported at once.
Connect ==
  /\ at = "idle" \/ (at = "error" /\ Reconnect)
  /\ ~closing /\ connects < MaxConnects /\ connects' = connects + 1
  /\ \E s \in ConnectResults(sk) :
       \/ sk' = s /\ want' = FALSE /\ connected' = FALSE
       \/ s.fd /\ sk' = Attach(s) /\ want' = TRUE /\ connected' = ~s.pending
  /\ log' = (IF connected' THEN <<"connect">> ELSE <<>>)
  /\ UNCHANGED <<wire, sends, closing, at, ev>>

\* ztk_tcp_client_send: the socket takes n of len bytes before it fails or has refused 64
\* times in a row; the caller is not told n.
Send(len, n) ==
  /\ at = "idle" /\ connected /\ ~closing /\ sends' = sends + 1
  /\ n \in {0} \cup Sent(sk, len)
  /\ wire' = wire \o Bytes(sends', 0, n)
  /\ UNCHANGED <<sk, clientVars>>

\* ztk_tcp_client_close, also from on_error: a new socket, whatever closing says.
Close ==
  /\ at \in {"idle", "error"}
  /\ sk' = NoSocket /\ connected' = FALSE /\ closing' = FALSE /\ log' = <<>> /\ want' = FALSE
  /\ UNCHANGED <<wire, sends, at, ev, connects>>

\* ztk_tcp_client_destroy.
Destroy ==
  /\ at = "idle" /\ at' = "gone"
  /\ sk' = NoSocket /\ connected' = FALSE /\ closing' = FALSE /\ log' = <<>> /\ want' = FALSE
  /\ UNCHANGED <<wire, sends, ev, connects>>

-----------------------------------------------------------------------------
(* Events                                                                  *)

\* ztk_poller_poll reports e for the socket.
Poll(e) ==
  /\ at = "idle" /\ e \in EventSets(sk)
  /\ at' = "event" /\ ev' = e
  /\ UNCHANGED <<sk, wire, sends, connected, closing, connects, log, want>>

\* socket_poller_cb: an error ends the report; so does a connect that has failed.
PollerCb ==
  /\ at = "event"
  /\ IF "err" \in ev \/ ("out" \in ev /\ CheckConnect(sk) # "OK")
     THEN at' = "fail" /\ ev' = {} /\ UNCHANGED sk
     ELSE /\ sk' = Connected(sk, ev)
          /\ at' = (IF "out" \in ev THEN "out" ELSE "in") /\ ev' = ev \ {"out"}
  /\ UNCHANGED <<wire, sends, connected, closing, connects, log, want>>

\* client_on_writable: the first time, the connection is up.
OnWritable ==
  /\ at = "out" /\ at' = Return
  /\ connected' = TRUE
  /\ log' = (IF connected THEN log ELSE Append(log, "connect"))
  /\ UNCHANGED <<sk, wire, sends, closing, ev, connects, want>>

\* client_on_readable reads one chunk.  A socket still connecting was writable in the same
\* report, so the client is connected here.
OnReadable ==
  /\ at = "in" /\ connected /\ ~closing /\ ev' = {}
  /\ \E r \in Recv(sk) :
       /\ log' = (IF r = "data" THEN LogRecv ELSE log)
       /\ at' = (IF r \in {"data", "again"} THEN "idle" ELSE "fail")
  /\ UNCHANGED <<sk, wire, sends, connected, closing, connects, want>>

\* fire_error up to on_error.
FireError ==
  /\ at = "fail" /\ ~closing
  /\ closing' = TRUE /\ at' = "error" /\ log' = Append(log, "error") /\ want' = FALSE
  /\ UNCHANGED <<sk, wire, sends, connected, ev, connects>>

\* fire_error after on_error: whatever socket the client has now is detached.
ErrorReturns ==
  /\ at = "error" /\ at' = "idle"
  /\ sk' = Detach(sk)
  /\ UNCHANGED <<wire, sends, connected, closing, ev, connects, log, want>>

ClientStep == PollerCb \/ OnWritable \/ OnReadable \/ FireError \/ ErrorReturns

\* Reports that do not wait for the peer to send something.
Report(s) == {e \in EventSets(s) : e # {"in"} \/ s.net # "est"}

TcpNext(maxSends, maxLen) ==
  \/ Connect \/ Close \/ Destroy \/ ClientStep
  \/ \E e \in EventSets(sk) : Poll(e)
  \/ sends < maxSends /\ \E len \in 1 .. maxLen : \E n \in 0 .. len : Send(len, n)

\* ztk_tcp_client's state as a phase of Connection.
TcpPhase ==
  CASE closing -> "down" [] ~closing /\ connected -> "up"
    [] ~closing /\ ~connected /\ sk.attached -> "opening" [] OTHER -> "idle"

\* A client whose connect returned ZTK_OK is registered with its poller until it is closed
\* or has reported an error: otherwise none of its callbacks will ever run.
Registered == (at = "idle" /\ want) => sk.attached

=============================================================================
