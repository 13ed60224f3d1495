--------------------------- MODULE EndpointsProofs ---------------------------
(***************************************************************************)
(* Proofs about Endpoints.  For any number of connects and sends, with     *)
(* applications that connect again from on_error and ones that do not,     *)
(* both clients implement Connection; for any number of pollers and fds,   *)
(* both back ends and both modes of the server, a server that has started  *)
(* and a client that has attached are found under their fds, whatever      *)
(* earlier starts have left in the tables; every port of any range is      *)
(* accounted for; for messages of any number, parts and lengths, any       *)
(* limit on a write's vector and any high-water mark, a session's counters *)
(* are those of its queue, and what a session, a TCP client and a TLS      *)
(* client send is on the wire in the order of the calls, but for what is   *)
(* sent from on_connect; and for any number of pollers the choice of one   *)
(* is the lightest it has looked at.                                       *)
(***************************************************************************)
EXTENDS Endpoints, SequenceTheorems, FiniteSetTheorems, WellFoundedInduction, TLAPS

\* The log of a client that has not reported an error is empty until on_connect.
LogOK(up) ==
  /\ log \in Seq({"connect", "recv", "error"})
  /\ ~closing => (up <=> log # <<>>)

\* A TCP client handles events of an attached socket only, and between events a client that
\* has reported an error has none.
TcpInv ==
  /\ connected \in BOOLEAN /\ closing \in BOOLEAN
  /\ LogOK(connected)
  /\ closing => at = "error" \/ (at \in {"idle", "gone"} /\ ~sk.attached)
  /\ at \in {"event", "out", "in", "fail"} => ~closing /\ sk.attached
  /\ at \in {"idle", "event", "out", "in", "fail", "error", "gone"}

\* Where a TLS client is in its handler says how far the connection is.  A report without
\* POLL_OUT, which tls_drain_plain would answer, comes only after the handshake has begun.
TlsPlaces ==
  /\ state # "tcp" => connected
  /\ at = "start" => state = "tcp" /\ connected
  /\ at = "shake" => state = "hs"
  /\ at \in {"hello", "flush", "drain", "recv"} => closing \/ state = "ready"
  /\ at = "in" => closing \/ state # "tcp"
  /\ at \in {"event", "out", "start", "shake", "fail"} => ~closing
  /\ ~closing /\ at \notin {"idle", "gone"} => sk.attached

\* A socket whose connect is not through is watched for POLL_OUT.
TlsFirst ==
  sk.attached /\ state = "tcp" /\ at \in {"idle", "event", "out"} =>
    /\ ~connected
    /\ at # "out" => sk.out /\ sk.pending
    /\ at = "event" => "out" \in ev \/ "err" \in ev

TlsInv ==
  /\ connected \in BOOLEAN /\ closing \in BOOLEAN /\ state \in {"tcp", "hs", "ready"}
  /\ LogOK(state = "ready")
  /\ closing => ~sk.attached /\ pend = <<>> /\ state = "tcp"
  /\ TlsPlaces /\ TlsFirst

TcpGood == sk \in Sockets /\ (sk.attached => sk.fd) /\ TcpInv
TlsGood == sk \in Sockets /\ (sk.attached => sk.fd) /\ TlsInv
ClientInv == (kind = "tcp" => TcpGood) /\ (kind = "tls" => TlsGood)

-----------------------------------------------------------------------------
(* What the operations on a socket do to it                                *)

LEMMA DetachIs ==
  ASSUME NEW s \in Sockets, s.attached => s.fd
  PROVE  Detach(s) \in Sockets /\ ~Detach(s).attached
  BY DEF Detach, Sockets

LEMMA ConnectIs ==
  ASSUME NEW s \in Sockets, s.attached => s.fd, NEW r \in ConnectResults(s)
  PROVE  /\ r \in Sockets /\ ~r.attached
         /\ Attach(r) \in Sockets /\ Attach(r).attached
         /\ r.fd => Attach(r).fd
         /\ r.pending => Attach(r).out /\ Attach(r).pending
<1> DEFINE closed == [Detach(s) EXCEPT !.fd = FALSE, !.net = "none"]
<1>1. Detach(s) \in Sockets /\ ~Detach(s).attached
  BY DetachIs
<1>2. closed \in Sockets /\ ~closed.attached
  BY <1>1 DEF Sockets
<1>3. \/ r = closed
      \/ \E n \in {"syn", "est"} : r = [closed EXCEPT !.fd = TRUE, !.pending = (n = "syn"), !.net = n]
  BY DEF ConnectResults, PlatConnect
<1> HIDE DEF closed
<1>4. r \in Sockets /\ ~r.attached
  BY <1>2, <1>3 DEF Sockets
<1>5. Detach(r) = r
  BY <1>4 DEF Detach
<1>6. Attach(r) = [r EXCEPT !.attached = TRUE, !.out = r.pending]
  BY <1>5 DEF Attach, DefaultOut
<1> QED
  BY <1>4, <1>6 DEF Sockets

LEMMA ModEventsIs ==
  ASSUME NEW s \in Sockets, NEW o \in BOOLEAN
  PROVE  /\ ModEvents(s, o) \in Sockets
         /\ ModEvents(s, o).attached = s.attached /\ ModEvents(s, o).fd = s.fd
         /\ ModEvents(s, o).pending = s.pending
  BY DEF ModEvents, PollerMod, Sockets

LEMMA ConnectedIs ==
  ASSUME NEW s \in Sockets, NEW e
  PROVE  /\ Connected(s, e) \in Sockets
         /\ Connected(s, e).attached = s.attached /\ Connected(s, e).fd = s.fd
<1> DEFINE c == [s EXCEPT !.pending = FALSE]
<1>1. c \in Sockets /\ c.attached = s.attached /\ c.fd = s.fd /\ DefaultOut(c) \in BOOLEAN
  BY DEF Sockets, DefaultOut
<1>2. Connected(s, e) = s \/ Connected(s, e) = ModEvents(c, DefaultOut(c))
  BY DEF Connected
<1> HIDE DEF c
<1> QED
  BY <1>1, <1>2, ModEventsIs

LEMMA NetworkIs ==
  ASSUME NEW s \in Sockets, NEW n \in Network(s)
  PROVE  /\ [s EXCEPT !.net = n] \in Sockets
         /\ [s EXCEPT !.net = n].attached = s.attached /\ [s EXCEPT !.net = n].fd = s.fd
         /\ [s EXCEPT !.net = n].out = s.out /\ [s EXCEPT !.net = n].pending = s.pending
<1>1. n \in {"none", "syn", "est", "eof", "lost"}
  BY DEF Network
<1> QED
  BY <1>1 DEF Sockets

LEMMA NoSocketIs == NoSocket \in Sockets /\ ~NoSocket.attached
  BY DEF NoSocket, Sockets

-----------------------------------------------------------------------------
(* Steps of Connection                                                     *)

\* A step that takes the phase from a to b is one of Connection, or none.
Promised(a, b) ==
  \/ a = b /\ log' = log
  \/ a # "down" /\ b = "opening" /\ log' = <<>>
  \/ a # "down" /\ b = "up" /\ log' = <<"connect">>
  \/ a = "opening" /\ b = "up" /\ log' = Append(log, "connect")
  \/ a = "up" /\ b = "up" /\ log' = (IF log[Len(log)] = "recv" THEN log ELSE Append(log, "recv"))
  \/ a \in {"opening", "up"} /\ b = "down" /\ log' = Append(log, "error")
  \/ b = "idle" /\ log' = <<>>

\* An entry makes a log that is not empty.
LEMMA LogGrows ==
  ASSUME NEW l \in Seq({"connect", "recv", "error"}), NEW e \in {"connect", "recv", "error"}
  PROVE  Append(l, e) \in Seq({"connect", "recv", "error"}) /\ Append(l, e) # <<>>
<1>1. Append(l, e) \in Seq({"connect", "recv", "error"}) /\ Len(Append(l, e)) = Len(l) + 1
  OBVIOUS
<1>2. Len(l) + 1 # 0
  OBVIOUS
<1> QED
  BY <1>1, <1>2

\* Once on_connect has been called, LogRecv is on_recv's entry.
LEMMA RecvLogged ==
  ASSUME log \in Seq({"connect", "recv", "error"}), log # <<>>
  PROVE  /\ LogRecv \in Seq({"connect", "recv", "error"}) /\ LogRecv # <<>>
         /\ LogRecv = (IF log[Len(log)] = "recv" THEN log ELSE Append(log, "recv"))
<1>1. Append(log, "recv") \in Seq({"connect", "recv", "error"}) /\ Append(log, "recv") # <<>>
  BY LogGrows
<1>2. LogRecv = (IF log[Len(log)] = "recv" THEN log ELSE Append(log, "recv"))
  BY DEF LogRecv, Last
<1> QED
  BY <1>1, <1>2

-----------------------------------------------------------------------------
(* The TCP client                                                          *)

\* What the phase is, in the words of the code.
LEMMA TcpPhaseIs ==
  ASSUME connected \in BOOLEAN, closing \in BOOLEAN, sk \in Sockets
  PROVE  /\ closing => TcpPhase = "down"
         /\ ~closing /\ connected => TcpPhase = "up"
         /\ ~closing /\ ~connected /\ sk.attached => TcpPhase = "opening"
         /\ ~closing /\ ~connected /\ ~sk.attached => TcpPhase = "idle"
  BY DEF TcpPhase, Sockets

LEMMA TcpConnectOK ==
  ASSUME TcpGood, Connect
  PROVE  TcpGood' /\ Promised(TcpPhase, TcpPhase')
<1>1. PICK s \in ConnectResults(sk) :
        \/ sk' = s /\ connected' = FALSE
        \/ s.fd /\ sk' = Attach(s) /\ connected' = ~s.pending
  BY DEF Connect
<1>2. /\ s \in Sockets /\ ~s.attached /\ Attach(s) \in Sockets /\ Attach(s).attached
      /\ s.fd => Attach(s).fd
  BY ConnectIs DEF TcpGood
<1>3. /\ at \in {"idle", "error"} /\ ~closing /\ closing' = closing /\ at' = at
      /\ log' = IF connected' THEN <<"connect">> ELSE <<>>
  BY DEF Connect
<1>4. sk' \in Sockets /\ (sk'.attached => sk'.fd) /\ connected' \in BOOLEAN
  BY <1>1, <1>2 DEF Sockets
<1>5. TcpInv'
  <2>1. /\ <<"connect">> \in Seq({"connect", "recv", "error"}) /\ <<"connect">> # <<>>
        /\ <<>> \in Seq({"connect", "recv", "error"})
    OBVIOUS
  <2>2. LogOK(connected)'
    <3>1. CASE connected'
      BY <1>3, <2>1, <3>1 DEF LogOK
    <3>2. CASE ~connected'
      BY <1>3, <2>1, <3>2 DEF LogOK
    <3> QED
      BY <3>1, <3>2
  <2>3. at' \in {"idle", "error"} /\ ~closing' /\ closing' \in BOOLEAN
    BY <1>3 DEF TcpGood, TcpInv
  <2> QED
    BY <1>4, <2>2, <2>3 DEF TcpInv
<1>6. TcpPhase # "down" /\ TcpPhase' \in {"idle", "opening", "up"}
  BY <1>3, <1>4 DEF TcpGood, TcpInv, TcpPhase
<1>7. connected' => TcpPhase' = "up"
  BY <1>3, <1>4 DEF TcpPhase, TcpGood, TcpInv
<1>8. ~connected' => TcpPhase' \in {"idle", "opening"}
  BY <1>3, <1>4 DEF TcpPhase, TcpGood, TcpInv
<1>9. Promised(TcpPhase, TcpPhase')
  <2>1. CASE connected'
    BY <1>3, <1>6, <1>7, <2>1 DEF Promised
  <2>2. CASE ~connected'
    <3>1. log' = <<>> /\ (TcpPhase' = "idle" \/ TcpPhase' = "opening") /\ TcpPhase # "down"
      BY <1>3, <1>6, <1>8, <2>2
    <3> QED
      BY <3>1, Zenon DEF Promised
  <2> QED
    BY <2>1, <2>2
<1> QED
  BY <1>4, <1>5, <1>9 DEF TcpGood

\* close, from anywhere it may be called, and destroy.
LEMMA TcpCloseOK ==
  ASSUME TcpGood, Close \/ Destroy
  PROVE  TcpGood' /\ Promised(TcpPhase, TcpPhase')
<1>1. /\ sk' = NoSocket /\ connected' = FALSE /\ closing' = FALSE /\ log' = <<>>
      /\ at' \in {"idle", "error", "gone"}
  BY DEF Close, Destroy
<1>2. sk' \in Sockets /\ ~sk'.attached
  BY <1>1, NoSocketIs
<1>3. TcpInv'
  <2>1. <<>> \in Seq({"connect", "recv", "error"})
    OBVIOUS
  <2>2. LogOK(connected)'
    BY <1>1, <2>1 DEF LogOK
  <2> QED
    BY <1>1, <1>2, <2>2 DEF TcpInv
<1>4. TcpPhase' = "idle"
  BY <1>1, <1>2 DEF TcpPhase
<1> QED
  BY <1>1, <1>2, <1>3, <1>4 DEF TcpGood, Promised

LEMMA TcpEventOK ==
  ASSUME TcpGood,
         \/ \E len, n : Send(len, n)
         \/ \E e \in EventSets(sk) : Poll(e)
         \/ PollerCb
  PROVE  TcpGood' /\ Promised(TcpPhase, TcpPhase')
<1>1. UNCHANGED <<connected, closing, log>>
  BY DEF Send, Poll, PollerCb, clientVars
<1>2. sk' \in Sockets /\ sk'.attached = sk.attached /\ sk'.fd = sk.fd
  <2>1. sk' = sk \/ sk' = Connected(sk, ev)
    BY DEF Send, Poll, PollerCb
  <2> QED
    BY <2>1, ConnectedIs DEF TcpGood
<1>3. /\ at' \in {"idle", "event", "out", "in", "fail", "error", "gone"}
      /\ at \in {"idle", "event"} /\ (at' = "idle" => at = "idle") /\ (at = "idle" /\ at' # "idle" => sk.attached)
      /\ at' \notin {"error", "gone"}
  BY DEF Send, Poll, PollerCb, clientVars, EventSets
<1>4. ~closing \/ at' = "idle"
  BY <1>3 DEF TcpGood, TcpInv
<1>5. TcpInv'
  BY <1>1, <1>2, <1>3, <1>4 DEF TcpGood, TcpInv, LogOK
<1>6. TcpPhase' = TcpPhase
  BY <1>1, <1>2 DEF TcpPhase
<1> QED
  BY <1>1, <1>2, <1>5, <1>6 DEF TcpGood, Promised

LEMMA TcpWritableOK ==
  ASSUME TcpGood, OnWritable
  PROVE  TcpGood' /\ Promised(TcpPhase, TcpPhase')
<1>1. /\ at = "out" /\ at' \in {"in", "idle"} /\ connected' = TRUE
      /\ log' = IF connected THEN log ELSE Append(log, "connect")
      /\ UNCHANGED <<sk, closing>>
  BY DEF OnWritable, Return
<1>2. ~closing /\ sk.attached /\ connected \in BOOLEAN /\ log \in Seq({"connect", "recv", "error"})
  BY <1>1 DEF TcpGood, TcpInv, LogOK
<1>3. Append(log, "connect") \in Seq({"connect", "recv", "error"}) /\ Append(log, "connect") # <<>>
  BY <1>2, LogGrows
<1>4. TcpInv'
  BY <1>1, <1>2, <1>3 DEF TcpGood, TcpInv, LogOK
<1>5. TcpPhase' = "up" /\ (connected => TcpPhase = "up") /\ (~connected => TcpPhase = "opening")
  BY <1>1, <1>2 DEF TcpPhase
<1> QED
  BY <1>1, <1>2, <1>4, <1>5 DEF TcpGood, Promised

LEMMA TcpReadableOK ==
  ASSUME TcpGood, OnReadable
  PROVE  TcpGood' /\ Promised(TcpPhase, TcpPhase')
<1>1. /\ at = "in" /\ at' \in {"fail", "idle"} /\ connected /\ ~closing
      /\ log' = log \/ log' = LogRecv
      /\ UNCHANGED <<sk, connected, closing>>
  BY DEF OnReadable
<1>2. log \in Seq({"connect", "recv", "error"}) /\ log # <<>> /\ sk.attached
  BY <1>1 DEF TcpGood, TcpInv, LogOK
<1>3. /\ LogRecv \in Seq({"connect", "recv", "error"}) /\ LogRecv # <<>>
      /\ LogRecv = (IF log[Len(log)] = "recv" THEN log ELSE Append(log, "recv"))
  BY <1>2, RecvLogged
<1>4. TcpInv'
  BY <1>1, <1>2, <1>3 DEF TcpGood, TcpInv, LogOK
<1>5. TcpPhase' = "up" /\ TcpPhase = "up"
  BY <1>1 DEF TcpPhase
<1> QED
  BY <1>1, <1>3, <1>4, <1>5 DEF TcpGood, Promised

LEMMA TcpErrorOK ==
  ASSUME TcpGood, FireError \/ ErrorReturns
  PROVE  TcpGood' /\ Promised(TcpPhase, TcpPhase')
<1>1. CASE FireError
  <2>1. /\ at = "fail" /\ at' = "error" /\ ~closing /\ closing' = TRUE
        /\ log' = Append(log, "error") /\ UNCHANGED <<sk, connected>>
    BY <1>1 DEF FireError
  <2>2. sk.attached /\ connected \in BOOLEAN /\ log \in Seq({"connect", "recv", "error"})
    BY <2>1 DEF TcpGood, TcpInv, LogOK
  <2>3. Append(log, "error") \in Seq({"connect", "recv", "error"})
    BY <2>2, LogGrows
  <2>4. TcpInv'
    BY <2>1, <2>2, <2>3 DEF TcpGood, TcpInv, LogOK
  <2>5. TcpPhase \in {"opening", "up"} /\ TcpPhase' = "down"
    BY <2>1, <2>2 DEF TcpPhase
  <2> QED
    BY <2>1, <2>4, <2>5 DEF TcpGood, Promised
<1>2. CASE ErrorReturns
  <2>1. at = "error" /\ at' = "idle" /\ sk' = Detach(sk) /\ UNCHANGED <<connected, closing, log>>
    BY <1>2 DEF ErrorReturns
  <2>2. sk' \in Sockets /\ ~sk'.attached
    BY <2>1, DetachIs DEF TcpGood
  <2>3. TcpInv'
    BY <2>1, <2>2 DEF TcpGood, TcpInv, LogOK
  <2>4. CASE closing
    BY <2>1, <2>2, <2>3, <2>4 DEF TcpGood, Promised, TcpPhase
  <2>5. CASE ~closing /\ connected
    BY <2>1, <2>2, <2>3, <2>5 DEF TcpGood, Promised, TcpPhase
  <2>6. CASE ~closing /\ ~connected
    <3>1. log = <<>> /\ TcpPhase' = "idle"
      BY <2>1, <2>2, <2>6 DEF TcpGood, TcpInv, LogOK, TcpPhase
    <3> QED
      BY <2>1, <2>2, <2>3, <3>1 DEF TcpGood, Promised
  <2> QED
    BY <2>4, <2>5, <2>6
<1> QED
  BY <1>1, <1>2

LEMMA TcpStepOK ==
  ASSUME TcpGood, \E maxSends, maxLen : TcpNext(maxSends, maxLen)
  PROVE  TcpGood' /\ Promised(TcpPhase, TcpPhase')
<1>1. CASE Connect
  BY <1>1, TcpConnectOK
<1>2. CASE Close \/ Destroy
  BY <1>2, TcpCloseOK
<1>3. CASE (\E len, n : Send(len, n)) \/ (\E e \in EventSets(sk) : Poll(e)) \/ PollerCb
  BY <1>3, TcpEventOK
<1>4. CASE OnWritable
  BY <1>4, TcpWritableOK
<1>5. CASE OnReadable
  BY <1>5, TcpReadableOK
<1>6. CASE FireError \/ ErrorReturns
  BY <1>6, TcpErrorOK
<1> QED
  BY <1>1, <1>2, <1>3, <1>4, <1>5, <1>6 DEF TcpNext, ClientStep

-----------------------------------------------------------------------------
(* The TLS client                                                          *)

\* The steps that leave the phase, the log and all but POLL_OUT of the socket as they are.
LEMMA TlsSilent ==
  ASSUME TlsGood, sk' \in Sockets, sk'.attached = sk.attached, sk'.fd = sk.fd,
         UNCHANGED <<closing, log>>, connected' \in BOOLEAN,
         \/ state' = state
         \/ state # "ready" /\ state' \in {"tcp", "hs"} /\ ~closing,
         closing => pend' = pend,
         TlsPlaces', TlsFirst'
  PROVE  TlsGood' /\ Promised(TlsPhase, TlsPhase')
<1>1. /\ TlsInv /\ closing \in BOOLEAN /\ state \in {"tcp", "hs", "ready"}
      /\ closing => ~sk.attached /\ pend = <<>> /\ state = "tcp"
      /\ sk \in Sockets
  BY DEF TlsGood, TlsInv
<1>2. state' \in {"tcp", "hs", "ready"} /\ (state' = "ready" <=> state = "ready")
  BY <1>1
<1>3. LogOK(state = "ready")'
  <2>1. LogOK(state = "ready")
    BY <1>1 DEF TlsInv
  <2> QED
    BY <1>2, <2>1 DEF LogOK
<1>4. closing' => ~sk'.attached /\ pend' = <<>> /\ state' = "tcp"
  BY <1>1, <1>2
<1>5. TlsInv'
  BY <1>1, <1>2, <1>3, <1>4 DEF TlsInv
<1>6. TlsPhase' = TlsPhase
  BY <1>1, <1>2 DEF TlsPhase
<1> QED
  BY <1>5, <1>6 DEF TlsGood, Promised

LEMMA TlsConnectOK ==
  ASSUME TlsGood, TlsConnect
  PROVE  TlsGood' /\ Promised(TlsPhase, TlsPhase')
<1>1. PICK s \in ConnectResults(sk) :
        \/ sk' = s /\ connected' = FALSE /\ at' = at
        \/ /\ s.fd /\ sk' = Attach(s)
           /\ connected' = ~s.pending /\ at' = (IF s.pending THEN at ELSE "start")
  BY DEF TlsConnect
<1>2. /\ s \in Sockets /\ ~s.attached /\ Attach(s) \in Sockets /\ Attach(s).attached
      /\ (s.fd => Attach(s).fd) /\ (s.pending => Attach(s).out /\ Attach(s).pending)
  BY ConnectIs DEF TlsGood
<1>3. /\ at = "idle" /\ ~closing /\ closing' = closing /\ log' = <<>> /\ state' = "tcp"
  BY DEF TlsConnect
<1>4. sk' \in Sockets /\ (sk'.attached => sk'.fd) /\ connected' \in BOOLEAN
  BY <1>1, <1>2 DEF Sockets
<1>5. \/ at' = "idle" /\ ~connected' /\ (sk'.attached => sk'.out /\ sk'.pending)
      \/ at' = "start" /\ connected' /\ sk'.attached
  BY <1>1, <1>2, <1>3 DEF Sockets
<1>6. LogOK(state = "ready")'
  <2>1. <<>> \in Seq({"connect", "recv", "error"})
    OBVIOUS
  <2> QED
    BY <1>3, <2>1 DEF LogOK
<1>7. TlsPlaces' /\ TlsFirst'
  BY <1>3, <1>5 DEF TlsPlaces, TlsFirst
<1>8. closing' \in BOOLEAN /\ ~closing'
  BY <1>3 DEF TlsGood, TlsInv
<1>9. TlsInv'
  BY <1>3, <1>4, <1>6, <1>7, <1>8 DEF TlsInv
<1>10. TlsPhase # "down" /\ (TlsPhase' = "idle" \/ TlsPhase' = "opening")
  BY <1>3, <1>4, <1>8 DEF TlsGood, TlsInv, TlsPhase
<1> QED
  BY <1>3, <1>4, <1>9, <1>10 DEF TlsGood, Promised

LEMMA TlsCloseOK ==
  ASSUME TlsGood, TlsClose \/ TlsDestroy
  PROVE  TlsGood' /\ Promised(TlsPhase, TlsPhase')
<1>1. /\ sk' = NoSocket /\ connected' = FALSE /\ closing' = FALSE /\ log' = <<>>
      /\ state' = "tcp" /\ at' \in {"idle", "gone"}
  BY DEF TlsClose, TlsDestroy, Reset, TlsGood, TlsInv
<1>2. sk' \in Sockets /\ ~sk'.attached
  BY <1>1, NoSocketIs
<1>3. LogOK(state = "ready")'
  <2>1. <<>> \in Seq({"connect", "recv", "error"})
    OBVIOUS
  <2> QED
    BY <1>1, <2>1 DEF LogOK
<1>4. TlsInv'
  BY <1>1, <1>2, <1>3 DEF TlsInv, TlsPlaces, TlsFirst
<1>5. TlsPhase' = "idle"
  BY <1>1, <1>2 DEF TlsPhase
<1> QED
  BY <1>1, <1>2, <1>4, <1>5 DEF TlsGood, Promised

\* tls_fire_error, from a send or from a handler.
LEMMA TlsErrorOK ==
  ASSUME TlsGood, SendFails \/ TlsFireError
  PROVE  TlsGood' /\ Promised(TlsPhase, TlsPhase')
<1>1. /\ ~closing /\ closing' = TRUE /\ sk' = Detach(sk) /\ log' = Append(log, "error")
      /\ state' = "tcp" /\ pend' = <<>> /\ connected' = FALSE
      /\ \/ state = "ready" /\ at' = at /\ at \in {"idle", "recv", "hello"}
         \/ at = "fail" /\ at' \in {"in", "idle"}
  BY DEF SendFails, MaySend, TlsFireError, Reset, Return
<1>2. sk' \in Sockets /\ ~sk'.attached
  BY <1>1, DetachIs DEF TlsGood
<1>3. log \in Seq({"connect", "recv", "error"}) /\ state \in {"tcp", "hs", "ready"} /\ closing \in BOOLEAN
  BY DEF TlsGood, TlsInv, LogOK
<1>4. Append(log, "error") \in Seq({"connect", "recv", "error"})
  BY <1>3, LogGrows
<1>5. TlsInv'
  BY <1>1, <1>2, <1>4 DEF TlsInv, TlsPlaces, TlsFirst, LogOK
<1>6. at = "fail" => sk.attached
  BY <1>1 DEF TlsGood, TlsInv, TlsPlaces
<1>7. TlsPhase' = "down" /\ (TlsPhase = "opening" \/ TlsPhase = "up")
  BY <1>1, <1>2, <1>3, <1>6 DEF TlsPhase
<1> QED
  BY <1>1, <1>2, <1>5, <1>7 DEF TlsGood, Promised

LEMMA TlsShakenOK ==
  ASSUME TlsGood, Shaken
  PROVE  TlsGood' /\ Promised(TlsPhase, TlsPhase')
<1>1. /\ at = "shake" /\ at' = "hello" /\ state' = "ready" /\ sk' = ModEvents(sk, FALSE)
      /\ log' = Append(log, "connect") /\ UNCHANGED <<connected, closing>>
  BY DEF Shaken
<1>2. /\ state = "hs" /\ ~closing /\ sk.attached /\ closing \in BOOLEAN /\ connected = TRUE
      /\ log \in Seq({"connect", "recv", "error"})
  BY <1>1 DEF TlsGood, TlsInv, TlsPlaces, LogOK
<1>3. sk' \in Sockets /\ sk'.attached = sk.attached /\ sk'.fd = sk.fd
  BY <1>1, ModEventsIs DEF TlsGood
<1>4. Append(log, "connect") \in Seq({"connect", "recv", "error"}) /\ Append(log, "connect") # <<>>
  BY <1>2, LogGrows
<1>5. TlsInv'
  BY <1>1, <1>2, <1>3, <1>4 DEF TlsInv, TlsPlaces, TlsFirst, LogOK
<1>6. TlsPhase = "opening" /\ TlsPhase' = "up"
  BY <1>1, <1>2 DEF TlsPhase
<1> QED
  BY <1>1, <1>2, <1>3, <1>5, <1>6 DEF TlsGood, Promised

\* SSL_read finds data: on_recv.
LEMMA TlsRecvOK ==
  ASSUME TlsGood, at = "drain", ~closing, at' = "recv", log' = LogRecv,
         UNCHANGED <<sk, connected, closing, state, pend>>
  PROVE  TlsGood' /\ Promised(TlsPhase, TlsPhase')
<1>1. state = "ready" /\ sk.attached /\ closing \in BOOLEAN /\ log \in Seq({"connect", "recv", "error"}) /\ log # <<>>
  BY DEF TlsGood, TlsInv, TlsPlaces, LogOK
<1>2. /\ LogRecv \in Seq({"connect", "recv", "error"}) /\ LogRecv # <<>>
      /\ LogRecv = (IF log[Len(log)] = "recv" THEN log ELSE Append(log, "recv"))
  BY <1>1, RecvLogged
<1>3. TlsInv'
  BY <1>1, <1>2 DEF TlsGood, TlsInv, TlsPlaces, TlsFirst, LogOK
<1>4. TlsPhase = "up" /\ TlsPhase' = "up"
  BY <1>1 DEF TlsPhase
<1> QED
  BY <1>2, <1>3, <1>4 DEF TlsGood, Promised

\* Facts of the invariant the silent steps use.
LEMMA TlsFacts ==
  ASSUME TlsGood
  PROVE  /\ sk \in Sockets /\ connected \in BOOLEAN /\ closing \in BOOLEAN
         /\ state \in {"tcp", "hs", "ready"} /\ TlsPlaces /\ TlsFirst
         /\ closing => ~sk.attached /\ pend = <<>> /\ state = "tcp"
  BY DEF TlsGood, TlsInv

LEMMA TlsSendOK ==
  ASSUME TlsGood, SendEarly \/ SendReady \/ \E out \in BOOLEAN : SendWaits(out)
  PROVE  TlsGood' /\ Promised(TlsPhase, TlsPhase')
<1>1. /\ UNCHANGED <<closing, log, connected, at, ev, state>> /\ ~closing
      /\ \/ sk' = sk
         \/ state = "ready" /\ \E out \in BOOLEAN : sk' = ModEvents(sk, out)
  BY DEF SendEarly, SendReady, SendWaits, clientVars, tlsVars
<1>2. sk' \in Sockets /\ sk'.attached = sk.attached /\ sk'.fd = sk.fd /\ (state # "ready" => sk' = sk)
  BY <1>1, TlsFacts, ModEventsIs
<1>3. TlsPlaces' /\ TlsFirst' /\ connected' \in BOOLEAN
  BY <1>1, <1>2, TlsFacts DEF TlsPlaces, TlsFirst
<1> QED
  BY <1>1, <1>2, <1>3, TlsSilent

LEMMA TlsPollOK ==
  ASSUME TlsGood, UNCHANGED tlsVars, PollerCb \/ \E e \in EventSets(sk) : Poll(e)
  PROVE  TlsGood' /\ Promised(TlsPhase, TlsPhase')
<1>1. CASE PollerCb
  <2>1. /\ UNCHANGED <<closing, log, connected, state, pend>> /\ at = "event"
        /\ \/ at' = "fail" /\ sk' = sk
           \/ at' = "out" /\ sk' = Connected(sk, ev)
           \/ at' = "in" /\ sk' = Connected(sk, ev) /\ "out" \notin ev /\ "err" \notin ev
    BY <1>1 DEF PollerCb, tlsVars
  <2>2. sk' \in Sockets /\ sk'.attached = sk.attached /\ sk'.fd = sk.fd
    BY <2>1, TlsFacts, ConnectedIs
  <2>3. ~closing /\ sk.attached
    BY <2>1, TlsFacts DEF TlsPlaces
  <2>4. at' = "in" => state # "tcp"
    BY <2>1, <2>3, TlsFacts DEF TlsFirst
  <2>5. TlsPlaces'
    BY <2>1, <2>2, <2>3, <2>4, TlsFacts DEF TlsPlaces
  <2>6. TlsFirst' /\ connected' \in BOOLEAN
    BY <2>1, <2>2, TlsFacts DEF TlsFirst
  <2> QED
    BY <2>1, <2>2, <2>5, <2>6, TlsSilent
<1>2. CASE \E e \in EventSets(sk) : Poll(e)
  <2>1. PICK e \in EventSets(sk) : Poll(e)
    BY <1>2
  <2>2. /\ UNCHANGED <<sk, closing, log, connected, state, pend>> /\ at = "idle" /\ at' = "event" /\ ev' = e
    BY <2>1 DEF Poll, tlsVars
  <2>3. sk.attached
    BY <2>1, TlsFacts DEF EventSets
  <2>4. sk.pending /\ sk.out => "out" \in e \/ "err" \in e
    BY <2>1, TlsFacts DEF EventSets
  <2>5. TlsPlaces' /\ TlsFirst' /\ connected' \in BOOLEAN /\ sk' \in Sockets
    BY <2>2, <2>3, <2>4, TlsFacts DEF TlsPlaces, TlsFirst
  <2> QED
    BY <2>2, <2>5, TlsSilent
<1> QED
  BY <1>1, <1>2

\* The handlers up to the handshake.
LEMMA TlsOpenOK ==
  ASSUME TlsGood, TlsWritable \/ TlsReadable \/ StartSsl \/ ShakeFails \/ HelloReturns \/ RecvReturns
  PROVE  TlsGood' /\ Promised(TlsPhase, TlsPhase')
<1> USE TlsFacts
<1>1. CASE TlsWritable
  <2>1. /\ UNCHANGED <<sk, closing, log, state, pend>> /\ at = "out" /\ connected' = TRUE
        /\ at' = IF ~connected THEN "start" ELSE IF state = "hs" THEN "shake" ELSE "flush"
    BY <1>1 DEF TlsWritable, tlsVars
  <2>2. ~closing /\ sk.attached /\ (connected <=> state # "tcp")
    BY <2>1 DEF TlsPlaces, TlsFirst
  <2>3. \/ at' = "start" /\ state = "tcp"
        \/ at' = "shake" /\ state = "hs"
        \/ at' = "flush" /\ state = "ready"
    BY <2>1, <2>2
  <2>4. TlsPlaces' /\ TlsFirst' /\ connected' \in BOOLEAN /\ sk' \in Sockets
    BY <2>1, <2>2, <2>3 DEF TlsPlaces, TlsFirst
  <2> QED
    BY <2>1, <2>4, TlsSilent
<1>2. CASE TlsReadable \/ ShakeFails \/ HelloReturns \/ RecvReturns
  <2>1. /\ UNCHANGED <<sk, closing, log, connected, state, pend>>
        /\ \/ at = "in" /\ at' = IF closing THEN "idle" ELSE IF state = "hs" THEN "shake" ELSE "drain"
           \/ at = "shake" /\ at' = "fail"
           \/ at = "hello" /\ at' = "flush"
           \/ at = "recv" /\ at' = IF closing THEN "crash" ELSE "drain"
    BY <1>2 DEF TlsReadable, ShakeFails, HelloReturns, RecvReturns, tlsVars
  <2>2. TlsPlaces'
    BY <2>1 DEF TlsPlaces
  <2>3. TlsFirst' /\ connected' \in BOOLEAN /\ sk' \in Sockets
    BY <2>1 DEF TlsFirst
  <2> QED
    BY <2>1, <2>2, <2>3, TlsSilent
<1>3. CASE StartSsl
  <2>1. /\ UNCHANGED <<closing, log, connected, pend>> /\ at = "start"
        /\ \/ at' = "fail" /\ sk' = sk /\ state' = state
           \/ at' = "shake" /\ state' = "hs" /\ sk' = ModEvents(sk, TRUE)
    BY <1>3 DEF StartSsl
  <2>2. state = "tcp" /\ connected /\ ~closing /\ sk.attached
    BY <2>1 DEF TlsPlaces
  <2>3. sk' \in Sockets /\ sk'.attached = sk.attached /\ sk'.fd = sk.fd
    BY <2>1, ModEventsIs
  <2>4. TlsPlaces' /\ TlsFirst' /\ connected' \in BOOLEAN
    BY <2>1, <2>2, <2>3 DEF TlsPlaces, TlsFirst
  <2> QED
    BY <2>1, <2>2, <2>3, <2>4, TlsSilent
<1> QED
  BY <1>1, <1>2, <1>3

\* The handlers that may watch POLL_OUT.
LEMMA TlsWaitOK ==
  ASSUME TlsGood, (\E out \in BOOLEAN : ShakeWaits(out)) \/ FlushPending \/ DrainPlain
  PROVE  TlsGood' /\ Promised(TlsPhase, TlsPhase')
<1> USE TlsFacts
<1>1. CASE at = "drain" /\ at' = "recv"
  <2>1. ~closing /\ log' = LogRecv /\ UNCHANGED <<sk, connected, closing, state, pend>>
    BY <1>1 DEF ShakeWaits, FlushPending, DrainPlain, Return, tlsVars
  <2> QED
    BY <1>1, <2>1, TlsRecvOK
<1>2. CASE ~(at = "drain" /\ at' = "recv")
  <2>1. /\ UNCHANGED <<closing, log, connected, state>>
        /\ sk' = sk \/ \E out \in BOOLEAN : sk' = ModEvents(sk, out)
        /\ \/ at = "shake" /\ at' \in {"in", "idle"}
           \/ at = "flush" /\ at' = "drain"
           \/ at = "flush" /\ at' = "fail" /\ pend # <<>>
           \/ at = "drain" /\ at' \in {"in", "idle"}
           \/ at = "drain" /\ at' = "fail" /\ ~closing
    BY <1>2 DEF ShakeWaits, FlushPending, DrainPlain, Return, tlsVars
  <2>2. closing => pend' = pend
    BY DEF ShakeWaits, FlushPending, DrainPlain, tlsVars
  <2>3. sk' \in Sockets /\ sk'.attached = sk.attached /\ sk'.fd = sk.fd
    BY <2>1, ModEventsIs
  <2>4. TlsPlaces'
    BY <2>1, <2>3 DEF TlsPlaces
  <2>5. TlsFirst' /\ connected' \in BOOLEAN
    <3>1. closing \/ state # "tcp"
      BY <2>1 DEF TlsPlaces
    <3> QED
      BY <2>1, <2>3, <3>1 DEF TlsFirst
  <2> QED
    BY <2>1, <2>2, <2>3, <2>4, <2>5, TlsSilent
<1> QED
  BY <1>1, <1>2

LEMMA TlsStepOK ==
  ASSUME TlsGood, \E maxSends : TlsNext(maxSends)
  PROVE  TlsGood' /\ Promised(TlsPhase, TlsPhase')
<1>1. CASE TlsConnect
  BY <1>1, TlsConnectOK
<1>2. CASE TlsClose \/ TlsDestroy
  BY <1>2, TlsCloseOK
<1>3. CASE SendFails \/ TlsFireError
  BY <1>3, TlsErrorOK
<1>4. CASE Shaken
  BY <1>4, TlsShakenOK
<1>5. CASE SendEarly \/ SendReady \/ \E out \in BOOLEAN : SendWaits(out)
  BY <1>5, TlsSendOK
<1>6. CASE UNCHANGED tlsVars /\ (PollerCb \/ \E e \in EventSets(sk) : Poll(e))
  BY <1>6, TlsPollOK
<1>7. CASE TlsWritable \/ TlsReadable \/ StartSsl \/ ShakeFails \/ HelloReturns \/ RecvReturns
  BY <1>7, TlsOpenOK
<1>8. CASE (\E out \in BOOLEAN : ShakeWaits(out)) \/ FlushPending \/ DrainPlain
  BY <1>8, TlsWaitOK
<1> QED
  BY <1>1, <1>2, <1>3, <1>4, <1>5, <1>6, <1>7, <1>8 DEF TlsNext, TlsStep, TlsHandshake

-----------------------------------------------------------------------------
(* Both clients                                                            *)

\* The phase Connection sees.
Shown == IF kind \in {"tcp", "tls"} THEN Phase ELSE "idle"

LEMMA NetOK ==
  ASSUME ClientInv, Net
  PROVE  ClientInv' /\ Promised(Shown, Shown')
<1>1. PICK n \in Network(sk) : sk' = [sk EXCEPT !.net = n]
  BY DEF Net, Transport
<1>2. /\ UNCHANGED <<kind, connected, closing, at, ev, log, state, pend>>
  BY DEF Net, partVars, clientVars, tlsVars
<1>3. ASSUME sk \in Sockets
      PROVE  /\ sk' \in Sockets /\ sk'.attached = sk.attached /\ sk'.fd = sk.fd
             /\ sk'.out = sk.out /\ sk'.pending = sk.pending
  BY <1>1, <1>3, NetworkIs
<1>4. CASE kind = "tcp"
  <2>1. TcpGood /\ kind' = "tcp"
    BY <1>2, <1>4 DEF ClientInv
  <2>2. sk' \in Sockets /\ sk'.attached = sk.attached /\ sk'.fd = sk.fd
    BY <1>3, <2>1 DEF TcpGood
  <2>3. TcpGood'
    BY <1>2, <2>1, <2>2 DEF TcpGood, TcpInv, LogOK
  <2>4. TcpPhase' = TcpPhase
    BY <1>2, <2>2 DEF TcpPhase
  <2> QED
    BY <1>2, <1>4, <2>1, <2>3, <2>4 DEF ClientInv, Shown, Phase, Promised
<1>5. CASE kind = "tls"
  <2>1. TlsGood /\ kind' = "tls"
    BY <1>2, <1>5 DEF ClientInv
  <2>2. /\ sk' \in Sockets /\ sk'.attached = sk.attached /\ sk'.fd = sk.fd
        /\ sk'.out = sk.out /\ sk'.pending = sk.pending
    BY <1>3, <2>1 DEF TlsGood
  <2>3. TlsPlaces' /\ TlsFirst'
    BY <1>2, <2>1, <2>2 DEF TlsGood, TlsInv, TlsPlaces, TlsFirst
  <2>4. TlsGood' /\ Promised(TlsPhase, TlsPhase')
    BY <1>2, <2>1, <2>2, <2>3, TlsSilent, TlsFacts
  <2> QED
    BY <1>2, <1>5, <2>1, <2>4 DEF ClientInv, Shown, Phase
<1>6. CASE kind \notin {"tcp", "tls"}
  BY <1>2, <1>6 DEF ClientInv, Shown, Promised
<1> QED
  BY <1>4, <1>5, <1>6

LEMMA ClientStepOK ==
  ASSUME ClientInv, [Next]_vars
  PROVE  ClientInv' /\ Promised(Shown, Shown')
<1>1. CASE Tcp
  <2>1. kind = "tcp" /\ kind' = "tcp" /\ TcpGood /\ \E maxSends, maxLen : TcpNext(maxSends, maxLen)
    BY <1>1 DEF Tcp, partVars, ClientInv
  <2>2. TcpGood' /\ Promised(TcpPhase, TcpPhase')
    BY <2>1, TcpStepOK
  <2> QED
    BY <2>1, <2>2 DEF ClientInv, Shown, Phase
<1>2. CASE Tls
  <2>1. kind = "tls" /\ kind' = "tls" /\ TlsGood /\ \E maxSends : TlsNext(maxSends)
    BY <1>2 DEF Tls, partVars, ClientInv
  <2>2. TlsGood' /\ Promised(TlsPhase, TlsPhase')
    BY <2>1, TlsStepOK
  <2> QED
    BY <2>1, <2>2 DEF ClientInv, Shown, Phase
<1>3. CASE Net
  BY <1>3, NetOK
<1>4. CASE Session \/ Udp \/ Pool \/ Rtp
  <2>1. kind \notin {"tcp", "tls"} /\ kind' = kind /\ log' = log
    BY <1>4 DEF Session, Udp, Pool, Rtp, partVars, connVars, clientVars
  <2> QED
    BY <2>1 DEF ClientInv, Shown, Promised
<1>5. CASE UNCHANGED vars
  <2>1. UNCHANGED <<kind, sk, connected, closing, at, ev, log, state, pend>>
    BY <1>5 DEF vars, partVars, connVars, clientVars, tlsVars
  <2>2. ClientInv'
    BY <2>1 DEF ClientInv, TcpGood, TlsGood, TcpInv, TlsInv, TlsPlaces, TlsFirst, LogOK
  <2>3. Shown' = Shown
    BY <2>1 DEF Shown, Phase, TcpPhase, TlsPhase
  <2> QED
    BY <2>1, <2>2, <2>3 DEF Promised
<1> QED
  BY <1>1, <1>2, <1>3, <1>4, <1>5 DEF Next

LEMMA ClientInitOK ==
  ASSUME Init
  PROVE  ClientInv /\ Shown = "idle" /\ log = <<>>
<1>1. /\ connected = FALSE /\ closing = FALSE /\ at = "idle" /\ log = <<>> /\ state = "tcp"
      /\ kind \in {"tcp", "tls"} => sk = NoSocket
  BY DEF Init, ClientInit, TlsInit
<1>2. NoSocket \in Sockets /\ ~NoSocket.attached /\ <<>> \in Seq({"connect", "recv", "error"})
  BY NoSocketIs
<1>3. kind = "tcp" => TcpGood
  BY <1>1, <1>2 DEF TcpGood, TcpInv, LogOK
<1>4. kind = "tls" => TlsGood
  BY <1>1, <1>2 DEF TlsGood, TlsInv, TlsPlaces, TlsFirst, LogOK
<1>5. Shown = "idle"
  BY <1>1, <1>2 DEF Shown, Phase, TcpPhase, TlsPhase
<1> QED
  BY <1>1, <1>3, <1>4, <1>5 DEF ClientInv

\* Both clients keep the promise of Connection, in every order of connects, sends, closes,
\* reports and failures: on_connect at most once per connection and before on_recv, on_error
\* at most once and last (client_on_writable, client_on_readable, fire_error,
\* tls_do_handshake, tls_drain_plain, tls_fire_error).
THEOREM ClientsKeepPromise == Spec => CallbackProtocol
<1>1. Init => ClientInv /\ Callbacks!Init
  BY ClientInitOK DEF Callbacks!Init, Shown
<1>2. ClientInv /\ [Next]_vars => ClientInv' /\ [Callbacks!Next]_<<Shown, log>>
  <2> SUFFICES ASSUME ClientInv, [Next]_vars
               PROVE  ClientInv' /\ [Callbacks!Next]_<<Shown, log>>
    OBVIOUS
  <2>1. ClientInv' /\ Promised(Shown, Shown')
    BY ClientStepOK
  <2>2. [Callbacks!Next]_<<Shown, log>>
    BY <2>1 DEF Promised, Shown, Callbacks!Next, Callbacks!Open, Callbacks!Up, Callbacks!Recv,
                Callbacks!Fail, Callbacks!Close
  <2> QED
    BY <2>1, <2>2
<1> QED
  BY <1>1, <1>2, PTL DEF Spec, CallbackProtocol, Callbacks!Spec, Shown

-----------------------------------------------------------------------------
(* The RTP port pairs                                                      *)

Distinct(s) == \A i, j \in 1 .. Len(s) : i # j => s[i] # s[j]
Elements(s) == {s[i] : i \in 1 .. Len(s)}
HeldPorts == {h[1] : h \in held}
Below(n) == {p \in RangePorts : p < n}

\* The ports the loop of create has been through are on the stack once or handed out, with
\* the port above them, unless create has failed.
RtpInv ==
  /\ freePorts \in Seq(Nat) /\ Distinct(freePorts)
  /\ \A h \in held : h = <<h[1], h[1] + 1>>
  /\ HeldPorts \cap Elements(freePorts) = {}
  /\ HeldPorts \cup Elements(freePorts) \subseteq Below(nextPort)
  /\ made # "null" => HeldPorts \cup Elements(freePorts) = Below(nextPort)
  /\ nextPort \in Nat /\ nextPort % 2 = 0 /\ nextPort >= RangeStart
  /\ made = "up" => nextPort > RangeEnd

LEMMA BoundsAre == RangeStart \in Nat /\ RangeEnd \in Nat /\ RangeStart % 2 = 0
<1>1. UInt16 \in Nat
  BY SMT DEF UInt16
<1>2. PICK top \in Nat : top = UInt16
  BY <1>1
<1>3. RangeStart \in 0 .. top - 1 /\ RangeEnd \in RangeStart .. top - 1 /\ RangeStart % 2 = 0
  BY <1>2, RtpAssumption
<1> QED
  BY <1>3

\* The ports of the range fit 16 bits, and so do the ports above them.
LEMMA RangeIs ==
  ASSUME NEW p \in RangePorts
  PROVE  p \in Nat /\ p % UInt16 = p /\ (p + 1) % UInt16 = p + 1
<1>1. UInt16 \in Nat /\ UInt16 % 2 = 0
  BY SMT DEF UInt16
<1>2. PICK top \in Nat : top = UInt16
  BY <1>1
<1>3. RangeStart \in Nat /\ RangeEnd \in Nat /\ RangeEnd + 1 < top
  BY <1>1, <1>2, RtpAssumption
<1>4. p \in Nat /\ p <= RangeEnd
  BY <1>3 DEF RangePorts
<1>5. p % top = p /\ (p + 1) % top = p + 1
  BY <1>3, <1>4, SMT
<1> QED
  BY <1>2, <1>4, <1>5

\* A turn of the loop goes one port further.
LEMMA BelowGrows ==
  ASSUME NEW n \in Nat, n % 2 = 0, n >= RangeStart, n <= RangeEnd
  PROVE  /\ n \in RangePorts /\ n \notin Below(n) /\ Below(n + 2) = Below(n) \cup {n}
         /\ n + 2 \in Nat /\ (n + 2) % 2 = 0 /\ n + 2 >= RangeStart
<1>1. RangeStart \in Nat /\ RangeEnd \in Nat
  BY BoundsAre
<1>2. n \in RangePorts /\ (n + 2) % 2 = 0 /\ n + 2 >= RangeStart
  BY <1>1 DEF RangePorts
<1>3. \A p \in RangePorts : p \in Nat /\ p % 2 = 0
  BY <1>1 DEF RangePorts
<1>4. \A p \in Nat : p % 2 = 0 /\ p < n + 2 => p < n \/ p = n
  OBVIOUS
<1>5. \A p \in Nat : p < n \/ p = n => p < n + 2
  OBVIOUS
<1>6. \A p : p \in Below(n + 2) <=> p \in Below(n) \/ p = n
  BY <1>2, <1>3, <1>4, <1>5 DEF Below
<1> QED
  BY <1>2, <1>6 DEF Below

LEMMA PopIs ==
  ASSUME NEW s \in Seq(Nat), s # <<>>, Distinct(s)
  PROVE  /\ Front(s) \in Seq(Nat) /\ Distinct(Front(s))
         /\ Last(s) \in Elements(s) /\ Elements(Front(s)) = Elements(s) \ {Last(s)}
<1> DEFINE f == Front(s)
           n == Len(s)
<1>1. n \in Nat \ {0} /\ Last(s) = s[n]
  BY EmptySeq DEF Last
<1>2. f \in Seq(Nat) /\ Len(f) = n - 1 /\ \A i \in 1 .. n - 1 : f[i] = s[i]
  <2>1. f = [i \in 1 .. n - 1 |-> s[i]]
    BY <1>1 DEF Front
  <2>2. \A i \in 1 .. n - 1 : s[i] \in Nat
    BY <1>1
  <2> QED
    BY <1>1, <2>1, <2>2
<1>3. \A i \in 1 .. n : i = n \/ i \in 1 .. n - 1
  BY <1>1
<1>4. \A i \in 1 .. n - 1 : i \in 1 .. n /\ i # n
  BY <1>1
<1> HIDE DEF f
<1>5. Distinct(f)
  BY <1>2, <1>4 DEF Distinct
<1>6. \A x \in Elements(f) : x \in Elements(s) /\ x # s[n]
  <2>1. \A i \in 1 .. n - 1 : s[i] \in Elements(s) /\ s[i] # s[n]
    <3>1. n \in 1 .. n
      BY <1>1
    <3> QED
      BY <1>4, <3>1 DEF Elements, Distinct
  <2> QED
    BY <1>2, <2>1 DEF Elements
<1>7. \A x \in Elements(s) : x = s[n] \/ x \in Elements(f)
  BY <1>2, <1>3 DEF Elements
<1>8. s[n] \in Elements(s)
  BY <1>1 DEF Elements
<1> QED
  BY <1>1, <1>2, <1>5, <1>6, <1>7, <1>8 DEF f

LEMMA PushIs ==
  ASSUME NEW s \in Seq(Nat), NEW p \in Nat, Distinct(s), p \notin Elements(s)
  PROVE  /\ Append(s, p) \in Seq(Nat) /\ Distinct(Append(s, p))
         /\ Elements(Append(s, p)) = Elements(s) \cup {p}
<1> DEFINE u == Append(s, p)
           n == Len(s)
<1>1. /\ u \in Seq(Nat) /\ n \in Nat /\ Len(u) = n + 1 /\ u[n + 1] = p
      /\ \A i \in 1 .. n : u[i] = s[i]
  OBVIOUS
<1>2. (\A i \in 1 .. n + 1 : i = n + 1 \/ i \in 1 .. n) /\ n + 1 \in 1 .. n + 1
      /\ \A i \in 1 .. n : i \in 1 .. n + 1
  BY <1>1
<1> HIDE DEF u
<1>3. \A i \in 1 .. n : s[i] # p
  BY DEF Elements
<1>4. Distinct(u)
  BY <1>1, <1>2, <1>3 DEF Distinct
<1>5. \A x \in Elements(u) : x \in Elements(s) \/ x = p
  BY <1>1, <1>2 DEF Elements
<1>6. p \in Elements(u) /\ \A x \in Elements(s) : x \in Elements(u)
  BY <1>1, <1>2 DEF Elements
<1> QED
  BY <1>1, <1>4, <1>5, <1>6 DEF u

LEMMA FillOK ==
  ASSUME RtpInv, Fill
  PROVE  RtpInv'
<1>1. PICK n \in Nat : n = nextPort
  BY DEF RtpInv
<1>2. n % 2 = 0 /\ n >= RangeStart /\ n <= RangeEnd
  BY <1>1 DEF RtpInv, Fill
<1>3. /\ n \in RangePorts /\ n \notin Below(n) /\ Below(n + 2) = Below(n) \cup {n}
      /\ n + 2 \in Nat /\ (n + 2) % 2 = 0 /\ n + 2 >= RangeStart
  BY <1>2, BelowGrows
<1>4. freePorts' = Append(freePorts, n)
  BY <1>1, <1>3, RangeIs DEF Fill, Push
<1>5. nextPort' = n + 2 /\ made' = made /\ made = "fill" /\ held' = held
  BY <1>1 DEF Fill
<1>6. /\ freePorts \in Seq(Nat) /\ Distinct(freePorts)
      /\ HeldPorts \cap Elements(freePorts) = {}
      /\ HeldPorts \cup Elements(freePorts) = Below(n)
  BY <1>1, <1>5 DEF RtpInv
<1>7. /\ freePorts' \in Seq(Nat) /\ Distinct(freePorts')
      /\ Elements(freePorts') = Elements(freePorts) \cup {n}
  BY <1>3, <1>4, <1>6, PushIs
<1>8. HeldPorts' = HeldPorts
  BY <1>5 DEF HeldPorts
<1>9. /\ HeldPorts' \cap Elements(freePorts') = {}
      /\ HeldPorts' \cup Elements(freePorts') = Below(n + 2)
  BY <1>3, <1>6, <1>7, <1>8
<1>10. \A h \in held' : h = <<h[1], h[1] + 1>>
  BY <1>5 DEF RtpInv
<1>11. Below(nextPort)' = Below(n + 2)
  BY <1>5 DEF Below, RangePorts
<1> QED
  BY <1>3, <1>5, <1>7, <1>9, <1>10, <1>11 DEF RtpInv

LEMMA CreateEndsOK ==
  ASSUME RtpInv, FillFails \/ Created
  PROVE  RtpInv'
<1>1. nextPort' = nextPort /\ held' = held
  BY DEF FillFails, Created
<1>2. HeldPorts' = HeldPorts /\ Below(nextPort)' = Below(nextPort)
  BY <1>1 DEF HeldPorts, Below, RangePorts
<1>3. CASE FillFails
  <2>1. freePorts' = <<>> /\ made' = "null"
    BY <1>3 DEF FillFails
  <2>2. freePorts' \in Seq(Nat) /\ Distinct(freePorts') /\ Elements(freePorts') = {}
    BY <2>1 DEF Distinct, Elements
  <2> QED
    BY <1>1, <1>2, <2>1, <2>2 DEF RtpInv
<1>4. CASE Created
  <2>1. freePorts' = freePorts /\ made = "fill" /\ nextPort > RangeEnd
    BY <1>4 DEF Created
  <2> QED
    BY <1>1, <1>2, <2>1 DEF RtpInv
<1> QED
  BY <1>3, <1>4

LEMMA AcquireOK ==
  ASSUME RtpInv, Acquire
  PROVE  RtpInv'
<1>1. PICK p : p = Last(freePorts)
  OBVIOUS
<1>2. /\ freePorts \in Seq(Nat) /\ freePorts # <<>> /\ Distinct(freePorts)
      /\ freePorts' = Front(freePorts)
  BY <1>1 DEF Acquire, RtpInv
<1>3. /\ freePorts' \in Seq(Nat) /\ Distinct(freePorts')
      /\ p \in Elements(freePorts) /\ Elements(freePorts') = Elements(freePorts) \ {p}
  BY <1>1, <1>2, PopIs
<1>4. PICK g : g = <<p, p + 1>>
  OBVIOUS
<1>5. g[1] = p /\ g = <<g[1], g[1] + 1>>
  BY <1>4
<1>6. (p + 1) % UInt16 = p + 1
  BY <1>3, RangeIs DEF RtpInv, Below
<1>7. held' = held \cup {g}
  BY <1>1, <1>4, <1>6 DEF Acquire
<1>8. HeldPorts' = HeldPorts \cup {p}
  BY <1>5, <1>7 DEF HeldPorts
<1>9. \A h \in held' : h = <<h[1], h[1] + 1>>
  BY <1>5, <1>7 DEF RtpInv
<1>10. nextPort' = nextPort /\ made' = made /\ Below(nextPort)' = Below(nextPort)
  BY DEF Acquire, Below, RangePorts
<1> QED
  BY <1>3, <1>8, <1>9, <1>10 DEF RtpInv

LEMMA ReleaseOK ==
  ASSUME RtpInv, NEW p \in Int, Release(p)
  PROVE  RtpInv'
<1>1. CASE UNCHANGED rtpVars
  BY <1>1 DEF RtpInv, rtpVars, HeldPorts, Below, RangePorts
<1>2. CASE ~UNCHANGED rtpVars
  <2>1. /\ (\E h \in held : h[1] = p) /\ freePorts' = Push(p).ports /\ held' = {h \in held : h[1] # p}
        /\ nextPort' = nextPort /\ made' = made
    BY <1>2 DEF Release
  <2>2. freePorts' = Append(freePorts, p)
    BY <2>1 DEF Push
  <2>3. p \in HeldPorts /\ p \notin Elements(freePorts) /\ p \in Nat
    BY <2>1, RangeIs DEF HeldPorts, RtpInv, Below
  <2>4. freePorts \in Seq(Nat) /\ Distinct(freePorts)
    BY DEF RtpInv
  <2>5. /\ freePorts' \in Seq(Nat) /\ Distinct(freePorts')
        /\ Elements(freePorts') = Elements(freePorts) \cup {p}
    BY <2>2, <2>3, <2>4, PushIs
  <2>6. HeldPorts' = HeldPorts \ {p}
    BY <2>1 DEF HeldPorts
  <2>7. \A h \in held' : h = <<h[1], h[1] + 1>>
    BY <2>1 DEF RtpInv
  <2>8. Below(nextPort)' = Below(nextPort)
    BY <2>1 DEF Below, RangePorts
  <2> QED
    BY <2>1, <2>3, <2>5, <2>6, <2>7, <2>8 DEF RtpInv
<1> QED
  BY <1>1, <1>2

\* Whatever even range that fits 16 bits create is given, its loop ends with every pair of
\* the range on the stack; from then on each is free once or handed out once, its RTCP port
\* being the next one (ztk_rtp_port_pool_create, pool_push, pool_pop,
\* ztk_rtp_port_pool_acquire and _release).
THEOREM PortsAccounted == Spec => []RtpAccounted
<1>1. Init => RtpInv
  <2> SUFFICES ASSUME Init PROVE RtpInv
    OBVIOUS
  <2>1. freePorts = <<>> /\ held = {} /\ nextPort = RangeStart /\ made = "fill"
    BY DEF Init, RtpInit
  <2>2. HeldPorts = {} /\ freePorts \in Seq(Nat) /\ Distinct(freePorts) /\ Elements(freePorts) = {}
    BY <2>1 DEF HeldPorts, Distinct, Elements
  <2>3. RangeStart \in Nat /\ RangeStart % 2 = 0 /\ RangeEnd \in Nat
    BY BoundsAre
  <2>4. Below(RangeStart) = {}
    BY <2>3 DEF Below, RangePorts
  <2> QED
    BY <2>1, <2>2, <2>3, <2>4 DEF RtpInv
<1>2. RtpInv /\ [Next]_vars => RtpInv'
  <2> SUFFICES ASSUME RtpInv, [Next]_vars PROVE RtpInv'
    OBVIOUS
  <2>1. CASE Rtp
    <3>1. CASE Acquire
      BY <3>1, AcquireOK
    <3>2. CASE \E p \in Int : Release(p)
      BY <3>2, ReleaseOK
    <3>3. \A p \in RangeStart - 2 .. RangeEnd + 2 : p \in Int
      BY SMT
    <3>4. CASE Fill
      BY <3>4, FillOK
    <3>5. CASE FillFails \/ Created
      BY <3>5, CreateEndsOK
    <3> QED
      BY <2>1, <3>1, <3>2, <3>3, <3>4, <3>5 DEF Rtp, RtpNext
  <2>2. CASE UNCHANGED rtpVars
    BY <2>2 DEF RtpInv, rtpVars, HeldPorts, Below, RangePorts
  <2> QED
    BY <2>1, <2>2 DEF Next, Session, Tcp, Tls, Net, Udp, Pool, vars, otherVars
<1>3. RtpInv => RtpAccounted
  <2> SUFFICES ASSUME RtpInv PROVE RtpAccounted
    OBVIOUS
  <2>1. DOMAIN freePorts = 1 .. Len(freePorts)
    BY DEF RtpInv
  <2>2. ToSet(freePorts) = Elements(freePorts) /\ Ports = HeldPorts \cup Elements(freePorts)
    BY <2>1 DEF ToSet, Elements, Ports, HeldPorts
  <2>3. \A h \in held : h[2] = h[1] + 1
    <3> SUFFICES ASSUME NEW h \in held PROVE h[2] = h[1] + 1
      OBVIOUS
    <3>1. PICK p : p = h[1]
      OBVIOUS
    <3>2. h = <<p, p + 1>>
      BY <3>1 DEF RtpInv
    <3> QED
      BY <3>1, <3>2
  <2>4. Ports \subseteq RangePorts
    BY <2>2 DEF RtpInv, Below
  <2>5. ASSUME made = "up" PROVE Ports = RangePorts
    <3>1. nextPort \in Nat /\ nextPort > RangeEnd
      BY <2>5 DEF RtpInv
    <3>2. RangeStart \in Nat /\ RangeEnd \in Nat
      BY BoundsAre
    <3>3. \A p \in RangePorts : p < nextPort
      BY <3>1, <3>2 DEF RangePorts
    <3>4. Below(nextPort) = RangePorts
      BY <3>3 DEF Below
    <3> QED
      BY <2>2, <2>5, <3>4 DEF RtpInv
  <2>6. HeldPorts \cap Elements(freePorts) = {} /\ Distinct(freePorts)
    BY DEF RtpInv
  <2> QED
    BY <2>1, <2>2, <2>3, <2>4, <2>5, <2>6 DEF RtpAccounted, HeldPorts, Distinct
<1> QED
  BY <1>1, <1>2, <1>3, PTL DEF Spec

-----------------------------------------------------------------------------
(* UDP                                                                     *)

Users == Pollers \cup {Client, None}

UdpTyped ==
  /\ backend \in {"epoll", "select"} /\ shared \in BOOLEAN /\ open \in SUBSET Fds
  /\ table \in [Pollers -> [Fds -> Users]] /\ watch \in [Pollers -> SUBSET Fds]
  /\ srv \in [at : {"idle", "start", "gone", "undefined"}, i : Nat, started : BOOLEAN,
              fd : [Pollers -> 0 .. NFds]]
  /\ cli \in [fd : 0 .. NFds, attached : BOOLEAN, started : BOOLEAN, peer : BOOLEAN, gone : BOOLEAN]

\* Every open fd belongs to one slot of the server or to the client.
Owned ==
  /\ \A p \in Pollers : srv.fd[p] # 0 => srv.fd[p] \in open /\ srv.fd[p] # cli.fd
  /\ \A p, q \in Pollers : p # q /\ srv.fd[p] # 0 => srv.fd[p] # srv.fd[q]
  /\ cli.fd # 0 => cli.fd \in open
  /\ \A f \in open : f = cli.fd \/ \E p \in Pollers : f = srv.fd[p]

\* The slots a start has been through are registered.
Starting ==
  /\ srv.at = "start" =>
       /\ ~srv.started /\ srv.i \in Pollers
       /\ \A p \in Pollers : p < srv.i => Reaches(p, SlotFd(p), p)
  /\ srv.started => srv.at \in {"idle", "undefined"} /\ \A p \in Pollers : Reaches(p, SlotFd(p), p)

Attached == cli.attached => Reaches(1, cli.fd, Client)

UdpInv == UdpTyped /\ Owned /\ Starting /\ Attached

-----------------------------------------------------------------------------
(* New fds                                                                 *)

LEMMA MinIs ==
  ASSUME NEW S \in SUBSET Nat, S # {}
  PROVE  Min(S) \in S
<1> DEFINE R == {ss \in Nat \X Nat : ss[1] < ss[2]}
<1>1. IsWellFoundedOn(R, Nat)
  BY NatLessThanWellFounded, Zenon DEF OpToRel
<1> HIDE DEF R
<1>2. PICK m \in S : \A y \in S : ~(<<y, m>> \in R)
  BY <1>1, WFMin
<1>3. \A y \in S : ~(y < m)
  BY <1>2 DEF R
<1>4. \E x \in S : \A y \in S : x <= y
  BY <1>3
<1> QED
  BY <1>4 DEF Min

\* There are more fds than what one per poller can use up.
LEMMA FdLeft ==
  ASSUME NEW g, g = [p \in Pollers |-> g[p]]
  PROVE  \E f \in Fds : \A p \in Pollers : f # g[p]
<1> SUFFICES ASSUME \A f \in Fds : \E p \in Pollers : f = g[p]
             PROVE  FALSE
  OBVIOUS
<1> DEFINE S == {g[p] : p \in Pollers}
<1>1. /\ NPollers \in Nat \ {0} /\ NFds \in Nat /\ NFds > NPollers
  BY DatagramAssumption
<1>2. IsFiniteSet(Pollers) /\ Cardinality(Pollers) = NPollers
  BY <1>1, FS_Interval DEF Pollers
<1>3. IsFiniteSet(Fds) /\ Cardinality(Fds) = NFds
  <2>1. NFds \in Int /\ ~(1 > NFds) /\ NFds - 1 + 1 = NFds
    BY <1>1
  <2> QED
    BY <2>1, FS_Interval DEF Fds
<1>4. g \in Surjection(Pollers, S)
  BY DEF Surjection
<1>5. IsFiniteSet(S) /\ Cardinality(S) <= Cardinality(Pollers)
  <2> HIDE DEF S
  <2> QED
    BY <1>2, <1>4, FS_Surjection
<1>6. Fds \in SUBSET S
  OBVIOUS
<1>7. Cardinality(Fds) <= Cardinality(S)
  <2> HIDE DEF S
  <2> QED
    BY <1>5, <1>6, FS_Subset
<1>8. Cardinality(S) \in Nat
  BY <1>5, FS_CardinalityType
<1> QED
  BY <1>1, <1>2, <1>3, <1>5, <1>7, <1>8

\* A number is free when the old fd of the slot, or of the client, is closed.
LEMMA NewFdIs ==
  ASSUME UdpTyped, Owned, NEW old,
         \/ old = {cli.fd}
         \/ \E i \in Pollers : old = {srv.fd[i]}
  PROVE  NewFd(old) \in Fds /\ NewFd(old) \notin open \ old
<1>1. Fds \ (open \ old) # {}
  <2>1. CASE old = {cli.fd}
    <3>1. PICK g : g = [p \in Pollers |-> srv.fd[p]]
      OBVIOUS
    <3>2. PICK f \in Fds : \A p \in Pollers : f # g[p]
      BY <3>1, FdLeft
    <3>3. \A p \in Pollers : f # srv.fd[p]
      BY <3>1, <3>2
    <3> QED
      BY <2>1, <3>3 DEF Owned
  <2>2. CASE \E i \in Pollers : old = {srv.fd[i]}
    <3>1. PICK i \in Pollers : old = {srv.fd[i]}
      BY <2>2
    <3>2. PICK g : g = [p \in Pollers |-> IF p = i THEN cli.fd ELSE srv.fd[p]]
      OBVIOUS
    <3>3. PICK f \in Fds : \A p \in Pollers : f # g[p]
      BY <3>2, FdLeft
    <3>4. f # cli.fd /\ \A p \in Pollers : p # i => f # srv.fd[p]
      BY <3>1, <3>2, <3>3
    <3>5. f \notin open \ old
      BY <3>1, <3>4 DEF Owned
    <3> QED
      BY <3>5
  <2> QED
    BY <2>1, <2>2
<1>2. Fds \ (open \ old) \in SUBSET Nat
  BY DatagramAssumption DEF Fds
<1>3. NewFd(old) \in Fds \ (open \ old)
  BY <1>1, <1>2, MinIs DEF NewFd
<1> QED
  BY <1>3

-----------------------------------------------------------------------------
(* The tables                                                              *)

LEMMA AddIs ==
  ASSUME NEW tb \in [Pollers -> [Fds -> Users]], NEW wt \in [Pollers -> SUBSET Fds],
         NEW p \in Pollers, NEW f \in Fds, NEW u \in Users, NEW r \in Add(tb, wt, p, f, u)
  PROVE  /\ r.table \in [Pollers -> [Fds -> Users]] /\ r.watch \in [Pollers -> SUBSET Fds]
         /\ r.ok \in BOOLEAN
         /\ \A q \in Pollers : \A h \in Fds : q # p \/ h # f => r.table[q][h] = tb[q][h]
         /\ \A q \in Pollers : wt[q] \subseteq r.watch[q]
         /\ r.ok => r.table[p][f] = u /\ (backend = "epoll" => f \in r.watch[p])
<1> DEFINE T == [tb EXCEPT ![p][f] = u]
           W == [wt EXCEPT ![p] = @ \cup {f}]
<1>1. /\ T \in [Pollers -> [Fds -> Users]] /\ T[p][f] = u
      /\ \A q \in Pollers : \A h \in Fds : q # p \/ h # f => T[q][h] = tb[q][h]
  OBVIOUS
<1>2. /\ W \in [Pollers -> SUBSET Fds] /\ f \in W[p] /\ \A q \in Pollers : wt[q] \subseteq W[q]
  OBVIOUS
<1>3. \/ r = [ok |-> f \in wt[p], table |-> T, watch |-> wt]
      \/ r = [ok |-> TRUE, table |-> T, watch |-> W]
      \/ r = [ok |-> FALSE, table |-> tb, watch |-> wt]
      \/ r = [ok |-> TRUE, table |-> T, watch |-> wt] /\ backend # "epoll"
  BY DEF Add, EpollAdd, SelectAdd
<1> HIDE DEF T, W
<1>4. CASE r = [ok |-> f \in wt[p], table |-> T, watch |-> wt]
  <2>1. r.table = T /\ r.watch = wt
    BY <1>4
  <2>2. CASE f \in wt[p]
    <3>1. r = [ok |-> TRUE, table |-> T, watch |-> wt]
      BY <1>4, <2>2
    <3> QED
      BY <1>1, <2>1, <2>2, <3>1
  <2>3. CASE f \notin wt[p]
    <3>1. (f \in wt[p]) = FALSE
      BY <2>3
    <3>2. r.ok = FALSE
      BY <1>4, <3>1, Zenon
    <3> QED
      BY <1>1, <2>1, <3>2
  <2> QED
    BY <2>2, <2>3
<1>5. CASE r = [ok |-> TRUE, table |-> T, watch |-> W]
  BY <1>1, <1>2, <1>5
<1>6. CASE r = [ok |-> FALSE, table |-> tb, watch |-> wt]
  BY <1>6
<1>7. CASE r = [ok |-> TRUE, table |-> T, watch |-> wt] /\ backend # "epoll"
  BY <1>1, <1>7
<1> QED
  BY <1>3, <1>4, <1>5, <1>6, <1>7

\* What is left alone is still found.
LEMMA StillReaches ==
  ASSUME NEW p, NEW f, NEW u, Reaches(p, f, u), backend' = backend,
         f \in open', table'[p][f] = table[p][f], f \in watch[p] => f \in watch'[p]
  PROVE  Reaches(p, f, u)'
  BY DEF Reaches

LEMMA UnwatchedIs ==
  ASSUME UdpTyped, NEW fs
  PROVE  /\ Unwatched(fs) \in [Pollers -> SUBSET Fds]
         /\ \A p \in Pollers : \A f \in watch[p] : f \notin fs => f \in Unwatched(fs)[p]
  BY DEF UdpTyped, Unwatched

LEMMA DelIs ==
  ASSUME UdpTyped, NEW ds
  PROVE  /\ DelEntries(ds) \in [Pollers -> [Fds -> Users]] /\ DelWatch(ds) \in [Pollers -> SUBSET Fds]
         /\ \A p \in Pollers : \A f \in Fds : <<p, f>> \notin ds =>
              DelEntries(ds)[p][f] = table[p][f] /\ (f \in watch[p] => f \in DelWatch(ds)[p])
  BY DEF UdpTyped, DelEntries, DelWatch, Users

LEMMA One == 1 \in Pollers /\ NPollers \in Nat /\ \A p \in Pollers : p \in Nat /\ p >= 1 /\ p <= NPollers
  BY DatagramAssumption DEF Pollers

\* The fd of a slot is that of some slot's socket.
LEMMA SlotFdIs ==
  ASSUME UdpTyped, NEW p \in Pollers
  PROVE  \E q \in Pollers : SlotFd(p) = srv.fd[q] /\ (q = p \/ (shared /\ q = 1))
  BY One DEF SlotFd, UdpTyped

\* Steps that leave the server and its fds alone.
LEMMA ServerStays ==
  ASSUME UdpInv, UNCHANGED <<srv, shared, backend>>,
         \A p \in Pollers : \A g \in open : g # cli.fd =>
           g \in open' /\ table'[p][g] = table[p][g] /\ (g \in watch[p] => g \in watch'[p])
  PROVE  Starting'
<1>1. ASSUME NEW p \in Pollers, Reaches(p, SlotFd(p), p)
      PROVE  Reaches(p, SlotFd(p), p)'
  <2>1. PICK g : g = SlotFd(p)
    OBVIOUS
  <2>2. g \in open /\ g # 0
    BY <1>1, <2>1 DEF Reaches, UdpInv, UdpTyped, Fds
  <2>3. PICK q \in Pollers : g = srv.fd[q]
    BY <2>1, SlotFdIs DEF UdpInv
  <2>4. g # cli.fd
    BY <2>2, <2>3 DEF UdpInv, Owned
  <2>5. Reaches(p, g, p)'
    BY <1>1, <2>1, <2>2, <2>4, StillReaches
  <2>6. SlotFd(p)' = g
    BY <2>1 DEF SlotFd
  <2> QED
    BY <2>5, <2>6 DEF Reaches
<1> QED
  BY <1>1 DEF UdpInv, Starting

\* Steps that leave the client and its fd alone.
LEMMA ClientStays ==
  ASSUME UdpInv, UNCHANGED <<cli, backend>>,
         cli.fd \in open => /\ cli.fd \in open' /\ table'[1][cli.fd] = table[1][cli.fd]
                            /\ cli.fd \in watch[1] => cli.fd \in watch'[1]
  PROVE  Attached'
  BY DEF Attached, UdpInv, Reaches

\* An fd of the client is not one of the server.
LEMMA ClientApart ==
  ASSUME UdpInv, cli.fd \in open
  PROVE  cli.fd \in Fds /\ cli.fd # 0 /\ \A p \in Pollers : srv.fd[p] # cli.fd
  BY DEF UdpInv, UdpTyped, Owned, Fds

-----------------------------------------------------------------------------
(* The loops and the network                                               *)

LEMMA LoopsOK ==
  ASSUME UdpInv,
         \/ \E p \in Pollers : UdpLoop(p)
         \/ \E f \in open, d \in {"data", "empty"} : Arrive(f, d)
         \/ UNCHANGED udpVars
  PROVE  UdpInv'
<1>1. /\ UNCHANGED <<backend, shared, open, table, watch, cli>>
      /\ srv' = srv \/ srv' = [srv EXCEPT !.at = "undefined"]
  BY DEF UdpLoop, UdpPoll, UdpDispatch, Arrive, udpVars
<1>2. /\ UdpTyped' /\ srv'.fd = srv.fd /\ srv'.started = srv.started
      /\ srv' = srv \/ srv'.at = "undefined"
  BY <1>1 DEF UdpInv, UdpTyped
<1>3. Owned' /\ Attached'
  BY <1>1, <1>2, ClientStays DEF UdpInv, Owned
<1>4. CASE srv' = srv
  <2>1. Starting'
    BY <1>1, <1>4, ServerStays
  <2> QED
    BY <1>2, <1>3, <2>1 DEF UdpInv
<1>5. CASE srv'.at = "undefined"
  <2>1. \A p \in Pollers : SlotFd(p)' = SlotFd(p) /\ (Reaches(p, SlotFd(p), p) => Reaches(p, SlotFd(p), p)')
    BY <1>1, <1>2 DEF SlotFd, Reaches
  <2>2. Starting'
    BY <1>2, <1>5, <2>1 DEF UdpInv, Starting
  <2> QED
    BY <1>2, <1>3, <2>2 DEF UdpInv
<1> QED
  BY <1>2, <1>4, <1>5

-----------------------------------------------------------------------------
(* The server                                                              *)

LEMMA UdpStartOK ==
  ASSUME UdpInv, UdpStart
  PROVE  UdpInv'
<1>1. /\ ~srv.started /\ srv' = [srv EXCEPT !.at = "start", !.i = 1]
      /\ UNCHANGED <<backend, shared, open, table, watch, cli>>
  BY DEF UdpStart
<1>2. srv'.at = "start" /\ srv'.i = 1 /\ srv'.started = srv.started /\ srv'.fd = srv.fd
  BY <1>1 DEF UdpInv, UdpTyped
<1>3. UdpTyped'
  BY <1>1 DEF UdpInv, UdpTyped
<1>4. Owned'
  BY <1>1, <1>2 DEF UdpInv, Owned
<1>5. Starting'
  BY <1>1, <1>2, One DEF Starting
<1>6. Attached'
  BY <1>1, ClientStays
<1> QED
  BY <1>3, <1>4, <1>5, <1>6 DEF UdpInv

LEMMA BindFailsOK ==
  ASSUME UdpInv, BindFails
  PROVE  UdpInv'
<1>1. PICK i \in Pollers : i = srv.i
  BY DEF BindFails, UdpInv, Starting
<1>2. PICK old : old = {srv.fd[i]}
  OBVIOUS
<1>3. /\ srv.at = "start" /\ open' = open \ old /\ watch' = Unwatched(old)
      /\ srv' = [srv EXCEPT !.at = "idle", !.fd[i] = 0]
      /\ UNCHANGED <<backend, shared, table, cli>>
  BY <1>1, <1>2 DEF BindFails, Bound
<1>4. /\ srv'.at = "idle" /\ srv'.started = srv.started /\ srv'.fd = [srv.fd EXCEPT ![i] = 0]
      /\ ~srv.started
  BY <1>3 DEF UdpInv, UdpTyped, Starting
<1>5. srv'.fd[i] = 0 /\ \A p \in Pollers : p # i => srv'.fd[p] = srv.fd[p]
  BY <1>4 DEF UdpInv, UdpTyped
<1>6. /\ watch' \in [Pollers -> SUBSET Fds]
      /\ \A p \in Pollers : \A f \in watch[p] : f \notin old => f \in watch'[p]
  BY <1>3, UnwatchedIs DEF UdpInv
<1>7. UdpTyped'
  <2>1. 0 \in 0 .. NFds
    BY DatagramAssumption
  <2>2. srv' \in [at : {"idle", "start", "gone"}, i : Nat, started : BOOLEAN, fd : [Pollers -> 0 .. NFds]]
    BY <1>3, <2>1 DEF UdpInv, UdpTyped
  <2> QED
    BY <1>3, <1>6, <2>2 DEF UdpInv, UdpTyped
<1>8. Owned'
  <2>1. \A p \in Pollers : srv'.fd[p] # 0 => srv'.fd[p] \in open' /\ srv'.fd[p] # cli'.fd
    BY <1>2, <1>3, <1>5 DEF UdpInv, Owned
  <2>2. \A p, q \in Pollers : p # q /\ srv'.fd[p] # 0 => srv'.fd[p] # srv'.fd[q]
    BY <1>5 DEF UdpInv, Owned
  <2>3. cli'.fd # 0 => cli'.fd \in open'
    BY <1>2, <1>3, ClientApart DEF UdpInv, Owned
  <2>4. \A f \in open' : f = cli'.fd \/ \E p \in Pollers : f = srv'.fd[p]
    BY <1>2, <1>3, <1>5 DEF UdpInv, Owned
  <2> QED
    BY <2>1, <2>2, <2>3, <2>4 DEF Owned
<1>9. Starting'
  BY <1>4 DEF Starting
<1>10. Attached'
  <2>1. cli.fd \in open => cli.fd \notin old
    BY <1>2, ClientApart
  <2> QED
    BY <1>3, <1>6, <2>1, One, ClientStays
<1> QED
  BY <1>7, <1>8, <1>9, <1>10 DEF UdpInv

LEMMA UdpStopOK ==
  ASSUME UdpInv, UdpStop
  PROVE  UdpInv'
<1>1. /\ srv.at = "idle" /\ table' = DelEntries(Slots) /\ watch' = DelWatch(Slots)
      /\ srv' = [srv EXCEPT !.started = FALSE]
      /\ UNCHANGED <<backend, shared, open, cli>>
  BY DEF UdpStop
<1>2. srv'.at = "idle" /\ srv'.started = FALSE /\ srv'.fd = srv.fd
  BY <1>1 DEF UdpInv, UdpTyped
<1>3. /\ table' \in [Pollers -> [Fds -> Users]] /\ watch' \in [Pollers -> SUBSET Fds]
      /\ \A p \in Pollers : \A f \in Fds : <<p, f>> \notin Slots =>
           table'[p][f] = table[p][f] /\ (f \in watch[p] => f \in watch'[p])
  BY <1>1, DelIs DEF UdpInv
<1>4. UdpTyped'
  BY <1>1, <1>3 DEF UdpInv, UdpTyped
<1>5. Owned'
  BY <1>1, <1>2 DEF UdpInv, Owned
<1>6. Starting'
  BY <1>2 DEF Starting
<1>7. Attached'
  <2>1. ASSUME cli.fd \in open
        PROVE  cli.fd \in Fds /\ <<1, cli.fd>> \notin Slots
    <3>1. SlotFd(1) = srv.fd[1]
      BY DEF SlotFd
    <3>2. cli.fd \in Fds /\ cli.fd # SlotFd(1)
      BY <2>1, <3>1, One, ClientApart
    <3> QED
      BY <3>2 DEF Slots
  <2> QED
    BY <1>1, <1>3, <2>1, One, ClientStays
<1> QED
  BY <1>4, <1>5, <1>6, <1>7 DEF UdpInv

LEMMA UdpDestroyOK ==
  ASSUME UdpInv, UdpDestroy
  PROVE  UdpInv'
<1>1. PICK old : old = {srv.fd[p] : p \in Pollers}
  OBVIOUS
<1>2. /\ table' = (IF srv.started THEN DelEntries(Slots) ELSE table)
      /\ open' = open \ old /\ watch' = Unwatched(old)
      /\ srv' = [srv EXCEPT !.at = "gone", !.started = FALSE, !.fd = [p \in Pollers |-> 0]]
      /\ UNCHANGED <<backend, shared, cli>>
  BY <1>1 DEF UdpDestroy
<1>3. srv'.at = "gone" /\ srv'.started = FALSE /\ \A p \in Pollers : srv'.fd[p] = 0
  BY <1>2 DEF UdpInv, UdpTyped
<1>4. /\ table' \in [Pollers -> [Fds -> Users]]
      /\ \A p \in Pollers : \A f \in Fds : <<p, f>> \notin Slots => table'[p][f] = table[p][f]
  BY <1>2, DelIs DEF UdpInv, UdpTyped
<1>5. /\ watch' \in [Pollers -> SUBSET Fds]
      /\ \A p \in Pollers : \A f \in watch[p] : f \notin old => f \in watch'[p]
  BY <1>2, UnwatchedIs DEF UdpInv
<1>6. UdpTyped'
  <2>1. [p \in Pollers |-> 0] \in [Pollers -> 0 .. NFds]
    BY DatagramAssumption
  <2>2. srv' \in [at : {"idle", "start", "gone"}, i : Nat, started : BOOLEAN, fd : [Pollers -> 0 .. NFds]]
    BY <1>2, <2>1 DEF UdpInv, UdpTyped
  <2> QED
    BY <1>2, <1>4, <1>5, <2>2 DEF UdpInv, UdpTyped
<1>7. cli.fd \in open => cli.fd \in Fds /\ cli.fd \notin old /\ <<1, cli.fd>> \notin Slots
  <2> SUFFICES ASSUME cli.fd \in open
               PROVE  cli.fd \in Fds /\ cli.fd \notin old /\ <<1, cli.fd>> \notin Slots
    OBVIOUS
  <2>1. SlotFd(1) = srv.fd[1]
    BY DEF SlotFd
  <2>2. cli.fd \in Fds /\ cli.fd # SlotFd(1) /\ cli.fd \notin old
    BY <1>1, <2>1, One, ClientApart
  <2> QED
    BY <2>2 DEF Slots
<1>8. Owned'
  <2>1. cli'.fd # 0 => cli'.fd \in open'
    BY <1>2, <1>7 DEF UdpInv, Owned
  <2>2. \A f \in open' : f = cli'.fd
    BY <1>1, <1>2 DEF UdpInv, Owned
  <2> QED
    BY <1>3, <2>1, <2>2 DEF Owned
<1>9. Starting'
  BY <1>3 DEF Starting
<1>10. Attached'
  BY <1>2, <1>4, <1>5, <1>7, One, ClientStays
<1> QED
  BY <1>6, <1>8, <1>9, <1>10 DEF UdpInv

\* A slot gets its socket and its entry.
LEMMA StartSlotOK ==
  ASSUME UdpInv, StartSlot
  PROVE  UdpInv'
<1>1. PICK i \in Pollers : i = srv.i
  BY DEF StartSlot, UdpInv, Starting
<1> DEFINE binds == ~shared \/ i = 1
<1>2. PICK old : old = IF binds THEN {srv.fd[i]} ELSE {}
  OBVIOUS
<1>3. PICK f : f = IF binds THEN NewFd(old) ELSE srv.fd[1]
  OBVIOUS
<1>4. PICK r \in Add(table, Unwatched(old), i, f, i) :
        /\ table' = r.table /\ watch' = r.watch
        /\ srv' = [srv EXCEPT !.fd[i] = IF binds THEN f ELSE @, !.i = i + 1,
                              !.at = IF r.ok /\ i < NPollers THEN "start" ELSE "idle",
                              !.started = r.ok /\ i = NPollers]
  BY <1>1, <1>2, <1>3, ZenonT(60) DEF StartSlot
<1>5. /\ srv.at = "start" /\ open' = (open \ old) \cup {f}
      /\ UNCHANGED <<backend, shared, cli>>
  <2>1. srv.at = "start" /\ UNCHANGED <<backend, shared, cli>>
    BY DEF StartSlot
  <2>2. Bound(old, {f})
    BY <1>1, <1>2, <1>3 DEF StartSlot
  <2> QED
    BY <2>1, <2>2 DEF Bound
<1>6. /\ UdpTyped /\ Owned /\ ~srv.started
      /\ \A p \in Pollers : p < i => Reaches(p, SlotFd(p), p)
  BY <1>1, <1>5 DEF UdpInv, Starting
<1>7. f \in Fds /\ (binds => f \notin open \ old) /\ (~binds => f \in open /\ f = srv.fd[1] /\ old = {})
  <2>1. CASE binds
    BY <1>2, <1>3, <1>6, <2>1, NewFdIs
  <2>2. CASE ~binds
    <3>1. 1 < i
      BY <2>2, One
    <3>2. SlotFd(1) = srv.fd[1]
      BY DEF SlotFd
    <3>3. srv.fd[1] \in open
      BY <1>6, <3>1, <3>2, One DEF Reaches
    <3> QED
      BY <1>2, <1>3, <1>6, <2>2, <3>3 DEF UdpTyped
  <2> QED
    BY <2>1, <2>2
<1>8. /\ Unwatched(old) \in [Pollers -> SUBSET Fds]
      /\ \A p \in Pollers : \A g \in watch[p] : g \notin old => g \in Unwatched(old)[p]
  BY <1>6, UnwatchedIs
<1>9. table \in [Pollers -> [Fds -> Users]] /\ i \in Users
  BY <1>6 DEF UdpTyped, Users
<1>10. /\ table' \in [Pollers -> [Fds -> Users]] /\ watch' \in [Pollers -> SUBSET Fds]
       /\ r.ok \in BOOLEAN
       /\ \A q \in Pollers : \A h \in Fds : q # i \/ h # f => table'[q][h] = table[q][h]
       /\ \A q \in Pollers : \A g \in watch[q] : g \notin old => g \in watch'[q]
       /\ r.ok => table'[i][f] = i /\ (backend = "epoll" => f \in watch'[i])
  <2>1. PICK wt : wt = Unwatched(old)
    OBVIOUS
  <2>2. wt \in [Pollers -> SUBSET Fds] /\ \A q \in Pollers : \A g \in watch[q] : g \notin old => g \in wt[q]
    BY <1>8, <2>1
  <2>3. r \in Add(table, wt, i, f, i)
    BY <1>4, <2>1
  <2>4. /\ r.table \in [Pollers -> [Fds -> Users]] /\ r.watch \in [Pollers -> SUBSET Fds]
        /\ r.ok \in BOOLEAN
        /\ \A q \in Pollers : \A h \in Fds : q # i \/ h # f => r.table[q][h] = table[q][h]
        /\ \A q \in Pollers : wt[q] \subseteq r.watch[q]
        /\ r.ok => r.table[i][f] = i /\ (backend = "epoll" => f \in r.watch[i])
    <3>1. f \in Fds
      BY <1>7
    <3>2. wt \in [Pollers -> SUBSET Fds]
      BY <2>2
    <3> QED
      BY <1>9, <2>3, <3>1, <3>2, AddIs
  <2>5. \A q \in Pollers : \A g \in watch[q] : g \notin old => g \in r.watch[q]
    BY <2>2, <2>4
  <2> QED
    BY <1>4, <2>4, <2>5
<1>11. /\ srv'.fd = (IF binds THEN [srv.fd EXCEPT ![i] = f] ELSE srv.fd) /\ srv'.i = i + 1
       /\ srv'.at = (IF r.ok /\ i < NPollers THEN "start" ELSE "idle")
       /\ srv'.started = (r.ok /\ i = NPollers)
  BY <1>4, <1>6 DEF UdpTyped
<1>12. /\ binds => srv'.fd[i] = f
       /\ \A p \in Pollers : p # i \/ ~binds => srv'.fd[p] = srv.fd[p]
  BY <1>6, <1>11 DEF UdpTyped
<1>13. UdpTyped'
  <2>1. srv'.fd \in [Pollers -> 0 .. NFds]
    <3>1. f \in 0 .. NFds
      BY <1>7, DatagramAssumption DEF Fds
    <3> QED
      BY <1>6, <1>11, <3>1 DEF UdpTyped
  <2>2. srv' \in [at : {"idle", "start", "gone"}, i : Nat, started : BOOLEAN, fd : [Pollers -> 0 .. NFds]]
    <3>1. i + 1 \in Nat
      BY One
    <3>2. srv'.at \in {"idle", "start", "gone"} /\ srv'.started \in BOOLEAN
      BY <1>10, <1>11
    <3>3. srv' = [at |-> srv'.at, i |-> srv'.i, started |-> srv'.started, fd |-> srv'.fd]
      BY <1>4, <1>6 DEF UdpTyped
    <3> QED
      BY <1>11, <2>1, <3>1, <3>2, <3>3
  <2>3. open' \in SUBSET Fds
    BY <1>5, <1>6, <1>7 DEF UdpTyped
  <2> QED
    BY <1>5, <1>6, <1>10, <2>2, <2>3 DEF UdpTyped
<1>14. Owned'
  <2>1. CASE binds
    <3>1. old = {srv.fd[i]} /\ f \in Fds /\ f # 0 /\ f \notin open \ old
      BY <1>2, <1>7, <2>1 DEF Fds
    <3>2. \A p \in Pollers : p # i /\ srv.fd[p] # 0 => srv.fd[p] \in open \ old
      BY <1>6, <3>1 DEF Owned
    <3>3. cli.fd # 0 => cli.fd \in open \ old
      BY <1>6, <3>1, ClientApart DEF Owned
    <3>4. \A p \in Pollers : srv'.fd[p] # 0 => srv'.fd[p] \in open' /\ srv'.fd[p] # cli'.fd
      BY <1>5, <1>6, <1>12, <2>1, <3>1, <3>2, <3>3 DEF Owned
    <3>5. \A p, q \in Pollers : p # q /\ srv'.fd[p] # 0 => srv'.fd[p] # srv'.fd[q]
      BY <1>6, <1>12, <2>1, <3>1, <3>2 DEF Owned
    <3>6. \A g \in open' : g = cli'.fd \/ \E p \in Pollers : g = srv'.fd[p]
      BY <1>5, <1>6, <1>12, <2>1, <3>1 DEF Owned
    <3> QED
      BY <1>5, <3>3, <3>4, <3>5, <3>6 DEF Owned
  <2>2. CASE ~binds
    <3>1. open' = open /\ \A p \in Pollers : srv'.fd[p] = srv.fd[p]
      BY <1>5, <1>7, <1>12, <2>2
    <3> QED
      BY <1>5, <1>6, <3>1 DEF Owned
  <2> QED
    BY <2>1, <2>2
<1>15. r.ok => Reaches(i, SlotFd(i), i)'
  <2>1. SlotFd(i)' = f
    BY <1>5, <1>7, <1>12, One DEF SlotFd
  <2> QED
    BY <1>5, <1>10, <2>1 DEF Reaches
<1>16. ASSUME NEW p \in Pollers, p < i
       PROVE  Reaches(p, SlotFd(p), p)'
  <2>1. PICK g : g = SlotFd(p)
    OBVIOUS
  <2>2. Reaches(p, g, p) /\ g \in open /\ g \in Fds /\ g # 0
    <3>1. Reaches(p, g, p)
      BY <1>6, <1>16, <2>1
    <3>2. g \in open
      BY <3>1 DEF Reaches
    <3>3. g \in Fds
      BY <1>6, <3>2 DEF UdpTyped
    <3>4. g # 0
      BY <3>3 DEF Fds
    <3> QED
      BY <3>1, <3>2, <3>3, <3>4
  <2>3. p # i /\ i # 1
    BY <1>16, One
  <2>4. g \notin old
    BY <1>2, <1>6, <2>1, <2>2, <2>3 DEF SlotFd, Owned
  <2>5. SlotFd(p)' = g
    BY <1>5, <1>12, <2>1, <2>3, One DEF SlotFd
  <2>6. Reaches(p, g, p)'
    BY <1>5, <1>10, <2>2, <2>3, <2>4, StillReaches
  <2> QED
    BY <2>5, <2>6 DEF Reaches
<1>17. Starting'
  <2>1. CASE r.ok
    <3>1. \A p \in Pollers : p < i + 1 => p < i \/ p = i
      BY One
    <3>2. \A p \in Pollers : p < i + 1 => Reaches(p, SlotFd(p), p)'
      BY <1>15, <1>16, <2>1, <3>1
    <3>3. CASE i < NPollers
      <4>1. srv'.at = "start" /\ ~srv'.started /\ srv'.i = i + 1 /\ i + 1 \in Pollers
        <5>1. i + 1 \in Pollers /\ i # NPollers
          BY <3>3, One DEF Pollers
        <5>2. srv'.at = "start"
          BY <1>11, <2>1, <3>3
        <5>3. ~srv'.started
          BY <1>11, <5>1
        <5> QED
          BY <1>11, <5>1, <5>2, <5>3
      <4> QED
        BY <3>2, <4>1 DEF Starting
    <3>4. CASE ~(i < NPollers)
      <4>1. i = NPollers /\ \A p \in Pollers : p < i + 1
        BY <3>4, One
      <4>2. srv'.at = "idle"
        BY <1>11, <3>4
      <4> QED
        BY <3>2, <4>1, <4>2 DEF Starting
    <3> QED
      BY <3>3, <3>4
  <2>2. CASE ~r.ok
    BY <1>11, <2>2 DEF Starting
  <2> QED
    BY <2>1, <2>2
<1>18. Attached'
  <2>1. ASSUME cli.fd \in open
        PROVE  /\ cli.fd \in open' /\ table'[1][cli.fd] = table[1][cli.fd]
               /\ cli.fd \in watch[1] => cli.fd \in watch'[1]
    <3>1. cli.fd \in Fds /\ cli.fd \notin old
      BY <1>2, <2>1, ClientApart
    <3>2. 1 # i \/ cli.fd # f
      BY <1>7, <2>1, <3>1
    <3> QED
      BY <1>5, <1>10, <2>1, <3>1, <3>2, One
  <2> QED
    BY <1>5, <2>1, ClientStays
<1> QED
  BY <1>13, <1>14, <1>17, <1>18 DEF UdpInv

-----------------------------------------------------------------------------
(* The client                                                              *)

LEMMA MineIs ==
  ASSUME UdpInv
  PROVE  /\ DelEntries(Mine) \in [Pollers -> [Fds -> Users]]
         /\ Unwatched({cli.fd}) \in [Pollers -> SUBSET Fds]
         /\ \A p \in Pollers : \A g \in Fds : g # cli.fd =>
              /\ DelEntries(Mine)[p][g] = table[p][g]
              /\ g \in watch[p] => g \in Unwatched({cli.fd})[p]
<1>1. \A p \in Pollers : \A g \in Fds : g # cli.fd => <<p, g>> \notin Mine
  BY DEF Mine
<1>2. UdpTyped /\ watch \in [Pollers -> SUBSET Fds]
  BY DEF UdpInv, UdpTyped
<1>3. /\ DelEntries(Mine) \in [Pollers -> [Fds -> Users]]
      /\ \A p \in Pollers : \A g \in Fds : g # cli.fd => DelEntries(Mine)[p][g] = table[p][g]
  <2>1. PICK ds : ds = Mine
    OBVIOUS
  <2>2. /\ DelEntries(ds) \in [Pollers -> [Fds -> Users]]
        /\ \A p \in Pollers : \A g \in Fds : <<p, g>> \notin ds => DelEntries(ds)[p][g] = table[p][g]
    BY <1>2, DelIs
  <2> QED
    BY <1>1, <2>1, <2>2
<1>4. /\ Unwatched({cli.fd}) \in [Pollers -> SUBSET Fds]
      /\ \A p \in Pollers : \A g \in watch[p] : g # cli.fd => g \in Unwatched({cli.fd})[p]
  BY <1>2, UnwatchedIs
<1> QED
  BY <1>3, <1>4

\* The client loses its socket.
LEMMA CliGone ==
  ASSUME UdpInv, UNCHANGED <<backend, shared, srv>>, open' = open \ {cli.fd},
         table' = DelEntries(Mine), watch' = Unwatched({cli.fd}),
         cli' \in [fd : 0 .. NFds, attached : BOOLEAN, started : BOOLEAN, peer : BOOLEAN, gone : BOOLEAN],
         cli'.fd = 0, cli'.attached = FALSE
  PROVE  UdpInv'
<1>1. /\ table' \in [Pollers -> [Fds -> Users]] /\ watch' \in [Pollers -> SUBSET Fds]
      /\ \A p \in Pollers : \A g \in Fds : g # cli.fd =>
           table'[p][g] = table[p][g] /\ (g \in watch[p] => g \in watch'[p])
  BY MineIs
<1>2. UdpTyped'
  BY <1>1 DEF UdpInv, UdpTyped
<1>3. Owned'
  BY DEF UdpInv, Owned
<1>4. Starting'
  <2>1. open \subseteq Fds
    BY DEF UdpInv, UdpTyped
  <2> QED
    BY <1>1, <2>1, ServerStays
<1>5. Attached'
  BY DEF Attached
<1> QED
  BY <1>2, <1>3, <1>4, <1>5 DEF UdpInv

LEMMA CliGoneOK ==
  ASSUME UdpInv, CliDestroy \/ \E keep \in BOOLEAN : CliBindFails(keep)
  PROVE  UdpInv'
<1>1. 0 \in 0 .. NFds
  BY DatagramAssumption
<1>2. cli \in [fd : 0 .. NFds, attached : BOOLEAN, started : BOOLEAN, peer : BOOLEAN, gone : BOOLEAN]
  BY DEF UdpInv, UdpTyped
<1>3. CASE CliDestroy
  <2>1. cli' = [cli EXCEPT !.fd = 0, !.attached = FALSE, !.started = FALSE, !.gone = TRUE]
    BY <1>3 DEF CliDestroy
  <2> QED
    BY <1>1, <1>2, <1>3, <2>1, CliGone DEF CliDestroy
<1>4. CASE \E keep \in BOOLEAN : CliBindFails(keep)
  <2>1. PICK keep \in BOOLEAN : CliBindFails(keep)
    BY <1>4
  <2>2. PICK b \in BOOLEAN : b = (keep /\ cli.peer)
    BY <1>2
  <2>3. cli' = [cli EXCEPT !.fd = 0, !.attached = FALSE, !.peer = b]
    BY <2>1, <2>2 DEF CliBindFails
  <2>4. open' = open \ {cli.fd}
    BY <2>1 DEF CliBindFails, Bound
  <2> QED
    BY <1>1, <1>2, <2>1, <2>3, <2>4, CliGone DEF CliBindFails
<1> QED
  BY <1>3, <1>4

LEMMA CliBindOK ==
  ASSUME UdpInv, NEW peer \in BOOLEAN, CliBind(peer)
  PROVE  UdpInv'
<1>1. PICK f : f = NewFd({cli.fd})
  OBVIOUS
<1>2. f \in Fds /\ f \notin open \ {cli.fd} /\ f # 0
  BY <1>1, NewFdIs DEF UdpInv, Fds
<1>3. PICK r \in Add(DelEntries(Mine), Unwatched({cli.fd}), 1, f, Client) :
        /\ table' = r.table /\ watch' = r.watch
        /\ cli' = [cli EXCEPT !.fd = f, !.attached = r.ok, !.started = @ \/ r.ok,
                              !.peer = peer /\ (r.ok \/ @)]
  BY <1>1 DEF CliBind
<1>4. open' = (open \ {cli.fd}) \cup {f} /\ UNCHANGED <<backend, shared, srv>>
  BY <1>1 DEF CliBind, Bound
<1>5. /\ DelEntries(Mine) \in [Pollers -> [Fds -> Users]]
      /\ Unwatched({cli.fd}) \in [Pollers -> SUBSET Fds]
      /\ \A p \in Pollers : \A g \in Fds : g # cli.fd =>
           /\ DelEntries(Mine)[p][g] = table[p][g]
           /\ g \in watch[p] => g \in Unwatched({cli.fd})[p]
  BY MineIs
<1>6. /\ table' \in [Pollers -> [Fds -> Users]] /\ watch' \in [Pollers -> SUBSET Fds]
      /\ r.ok \in BOOLEAN
      /\ \A q \in Pollers : \A h \in Fds : q # 1 \/ h # f => table'[q][h] = DelEntries(Mine)[q][h]
      /\ \A q \in Pollers : Unwatched({cli.fd})[q] \subseteq watch'[q]
      /\ r.ok => table'[1][f] = Client /\ (backend = "epoll" => f \in watch'[1])
  <2>1. Client \in Users
    BY DEF Users
  <2> QED
    <3>1. PICK tb, wt : tb = DelEntries(Mine) /\ wt = Unwatched({cli.fd})
      OBVIOUS
    <3>2. tb \in [Pollers -> [Fds -> Users]] /\ wt \in [Pollers -> SUBSET Fds]
      BY <1>5, <3>1
    <3>3. r \in Add(tb, wt, 1, f, Client)
      BY <1>3, <3>1
    <3>4. /\ r.table \in [Pollers -> [Fds -> Users]] /\ r.watch \in [Pollers -> SUBSET Fds]
          /\ r.ok \in BOOLEAN
          /\ \A q \in Pollers : \A h \in Fds : q # 1 \/ h # f => r.table[q][h] = tb[q][h]
          /\ \A q \in Pollers : wt[q] \subseteq r.watch[q]
          /\ r.ok => r.table[1][f] = Client /\ (backend = "epoll" => f \in r.watch[1])
      <4>1. 1 \in Pollers /\ f \in Fds
        BY <1>2, One
      <4> QED
        BY <2>1, <3>2, <3>3, <4>1, AddIs
    <3> QED
      BY <1>3, <3>1, <3>4
<1>7. cli'.fd = f /\ cli'.attached = r.ok
  BY <1>3 DEF UdpInv, UdpTyped
<1>8. UdpTyped'
  <2>1. f \in 0 .. NFds
    BY <1>2, DatagramAssumption DEF Fds
  <2>2. PICK a \in BOOLEAN, b \in BOOLEAN : a = (cli.started \/ r.ok) /\ b = (peer /\ (r.ok \/ cli.peer))
    OBVIOUS
  <2>3. cli' = [cli EXCEPT !.fd = f, !.attached = r.ok, !.started = a, !.peer = b]
    BY <1>3, <2>2 DEF UdpInv, UdpTyped
  <2>4. cli' \in [fd : 0 .. NFds, attached : BOOLEAN, started : BOOLEAN, peer : BOOLEAN, gone : BOOLEAN]
    BY <1>6, <2>1, <2>3 DEF UdpInv, UdpTyped
  <2> QED
    BY <1>2, <1>4, <1>6, <2>4 DEF UdpInv, UdpTyped
<1>9. \A p \in Pollers : srv.fd[p] # 0 => srv.fd[p] \in open \ {cli.fd}
  BY DEF UdpInv, Owned
<1>10. Owned'
  <2>1. \A p \in Pollers : srv'.fd[p] # 0 => srv'.fd[p] \in open' /\ srv'.fd[p] # cli'.fd
    BY <1>2, <1>4, <1>7, <1>9
  <2>2. \A p, q \in Pollers : p # q /\ srv'.fd[p] # 0 => srv'.fd[p] # srv'.fd[q]
    BY <1>4 DEF UdpInv, Owned
  <2>3. cli'.fd \in open'
    BY <1>4, <1>7
  <2>4. \A g \in open' : g = cli'.fd \/ \E p \in Pollers : g = srv'.fd[p]
    BY <1>4, <1>7 DEF UdpInv, Owned
  <2> QED
    BY <2>1, <2>2, <2>3, <2>4 DEF Owned
<1>11. Starting'
  <2>1. \A p \in Pollers : \A g \in open : g # cli.fd =>
          g \in open' /\ table'[p][g] = table[p][g] /\ (g \in watch[p] => g \in watch'[p])
    <3> SUFFICES ASSUME NEW p \in Pollers, NEW g \in open, g # cli.fd
                 PROVE  g \in open' /\ table'[p][g] = table[p][g] /\ (g \in watch[p] => g \in watch'[p])
      OBVIOUS
    <3>1. g \in Fds /\ g # f
      BY <1>2 DEF UdpInv, UdpTyped
    <3> QED
      BY <1>4, <1>5, <1>6, <3>1
  <2> QED
    BY <1>4, <2>1, ServerStays
<1>12. Attached'
  BY <1>4, <1>6, <1>7 DEF Attached, Reaches
<1> QED
  BY <1>8, <1>10, <1>11, <1>12 DEF UdpInv

LEMMA CliSetPeerOK ==
  ASSUME UdpInv, CliSetPeer
  PROVE  UdpInv'
<1>1. cli' = [cli EXCEPT !.peer = TRUE] /\ UNCHANGED <<backend, shared, open, table, watch, srv>>
  BY DEF CliSetPeer
<1>2. cli'.fd = cli.fd /\ cli'.attached = cli.attached
  BY <1>1 DEF UdpInv, UdpTyped
<1>3. UdpTyped'
  BY <1>1 DEF UdpInv, UdpTyped
<1>4. Owned' /\ Attached'
  BY <1>1, <1>2 DEF UdpInv, Owned, Attached, Reaches
<1>5. Starting'
  BY <1>1, ServerStays
<1> QED
  BY <1>3, <1>4, <1>5 DEF UdpInv

-----------------------------------------------------------------------------
(* The theorem                                                             *)

LEMMA UdpInvInit == Init => UdpInv
<1> SUFFICES ASSUME Init PROVE UdpInv
  OBVIOUS
<1>1. UdpInit
  BY DEF Init
<1>2. /\ srv = [at |-> "idle", i |-> 1, started |-> FALSE, fd |-> [p \in Pollers |-> 0]]
      /\ cli = [fd |-> 0, attached |-> FALSE, started |-> FALSE, peer |-> FALSE, gone |-> FALSE]
      /\ open = {}
  BY <1>1 DEF UdpInit, SrvInit, CliInit
<1>3. UdpTyped
  <2>1. 0 \in 0 .. NFds
    BY DatagramAssumption
  <2>2. /\ srv \in [at : {"idle", "start", "gone", "undefined"}, i : Nat, started : BOOLEAN, fd : [Pollers -> 0 .. NFds]]
        /\ cli \in [fd : 0 .. NFds, attached : BOOLEAN, started : BOOLEAN, peer : BOOLEAN, gone : BOOLEAN]
    BY <1>2, <2>1
  <2>3. table \in [Pollers -> [Fds -> Users]] /\ watch \in [Pollers -> SUBSET Fds]
    BY <1>1 DEF UdpInit, PollersInit, Users
  <2> QED
    BY <1>1, <2>2, <2>3 DEF UdpInit, PollersInit, SrvInit, UdpTyped
<1>4. Owned /\ Starting /\ Attached
  BY <1>2 DEF Owned, Starting, Attached
<1> QED
  BY <1>3, <1>4 DEF UdpInv

LEMMA UdpInvNext == UdpInv /\ [Next]_vars => UdpInv'
<1> SUFFICES ASSUME UdpInv, [Next]_vars PROVE UdpInv'
  OBVIOUS
<1>1. CASE Udp
  <2>1. CASE UdpStart
    BY <2>1, UdpStartOK
  <2>2. CASE BindFails
    BY <2>2, BindFailsOK
  <2>3. CASE StartSlot
    BY <2>3, StartSlotOK
  <2>4. CASE UdpStop
    BY <2>4, UdpStopOK
  <2>5. CASE UdpDestroy
    BY <2>5, UdpDestroyOK
  <2>6. CASE CliSetPeer
    BY <2>6, CliSetPeerOK
  <2>7. CASE CliDestroy \/ \E b \in BOOLEAN : CliBindFails(b)
    BY <2>7, CliGoneOK
  <2>8. CASE \E b \in BOOLEAN : CliBind(b)
    BY <2>8, CliBindOK
  <2>9. CASE \/ \E p \in Pollers : UdpLoop(p)
             \/ \E f \in open, d \in {"data", "empty"} : Arrive(f, d)
    BY <2>9, LoopsOK
  <2> QED
    BY <1>1, <2>1, <2>2, <2>3, <2>4, <2>5, <2>6, <2>7, <2>8, <2>9 DEF Udp, UdpNext
<1>2. CASE UNCHANGED udpVars
  BY <1>2, LoopsOK
<1> QED
  BY <1>1, <1>2 DEF Next, Session, Tcp, Tls, Net, Pool, Rtp, vars, otherVars

\* A started UDP server is registered with every poller under the fd it listens on, and an
\* attached client with its poller, after any sequence of failed and repeated starts, stops
\* and rebinds on the numbers the kernel gives out again, for both back ends
\* (ztk_udp_server_start, ztk_udp_server_stop, udp_client_bind_and_attach, ztk_poller_add).
THEOREM UdpIsReachable == Spec => []UdpReachable
<1>1. UdpInv => UdpReachable
  BY DEF UdpInv, Starting, Attached, UdpReachable
<1> QED
  BY <1>1, UdpInvInit, UdpInvNext, PTL DEF Spec

-----------------------------------------------------------------------------
(* Chunks and their lengths                                                *)

\* What holds for 0 and goes on from each number to the next holds for all.
LEMMA Counting ==
  ASSUME NEW S, 0 \in S, \A n \in Nat : n \in S => n + 1 \in S
  PROVE  Nat \subseteq S
<1> DEFINE R == {ss \in Nat \X Nat : ss[1] < ss[2]}
           T == Nat \ S
<1>1. IsWellFoundedOn(R, Nat)
  BY NatLessThanWellFounded, Zenon DEF OpToRel
<1> HIDE DEF R
<1>2. ASSUME T # {} PROVE FALSE
  <2>1. PICK m \in T : \A y \in T : ~(<<y, m>> \in R)
    BY <1>1, <1>2, WFMin
  <2>2. m \in Nat /\ m \notin S /\ m # 0
    BY <2>1
  <2>3. m - 1 \in Nat /\ m - 1 < m /\ (m - 1) + 1 = m
    BY <2>2
  <2>4. <<m - 1, m>> \in R
    BY <2>2, <2>3 DEF R
  <2>5. m - 1 \in S
    BY <2>1, <2>3, <2>4
  <2> QED
    BY <2>2, <2>3, <2>5
<1> QED
  BY <1>2

Places(q, n) == UNION {{i} \X (1 .. q[i].len) : i \in 1 .. n}

LEMMA ColumnIs ==
  ASSUME NEW i, NEW len \in Nat
  PROVE  IsFiniteSet({i} \X (1 .. len)) /\ Cardinality({i} \X (1 .. len)) = len
<1>1. IsFiniteSet({i}) /\ Cardinality({i}) = 1
  BY FS_Singleton
<1>2. IsFiniteSet(1 .. len) /\ Cardinality(1 .. len) = IF 1 > len THEN 0 ELSE len - 1 + 1
  BY FS_Interval
<1>3. Cardinality(1 .. len) = len
  BY <1>2
<1>4. /\ IsFiniteSet({i} \X (1 .. len))
      /\ Cardinality({i} \X (1 .. len)) = Cardinality({i}) * Cardinality(1 .. len)
  BY <1>1, <1>2, FS_Product
<1> QED
  BY <1>1, <1>3, <1>4

LEMMA PlacesStep ==
  ASSUME NEW q, NEW n \in Nat, q[n + 1].len \in Nat, IsFiniteSet(Places(q, n))
  PROVE  /\ IsFiniteSet(Places(q, n + 1))
         /\ Cardinality(Places(q, n + 1)) = Cardinality(Places(q, n)) + q[n + 1].len
<1> DEFINE P == Places(q, n)
           len == q[n + 1].len
           A == {n + 1} \X (1 .. len)
<1>1. 1 .. n + 1 = (1 .. n) \cup {n + 1}
  OBVIOUS
<1>2. Places(q, n + 1) = P \cup A
  BY <1>1, Zenon DEF Places
<1>3. \A p \in P : p[1] \in 1 .. n
  BY DEF Places
<1>4. \A p \in A : p[1] = n + 1
  OBVIOUS
<1>5. P \cap A = {}
  <2>1. n + 1 \notin 1 .. n
    OBVIOUS
  <2> HIDE DEF P, A
  <2> QED
    BY <1>3, <1>4, <2>1
<1>6. IsFiniteSet(A) /\ Cardinality(A) = len
  BY ColumnIs
<1>7. IsFiniteSet(P)
  OBVIOUS
<1> HIDE DEF P, A
<1>8. len \in Nat
  OBVIOUS
<1> HIDE DEF len
<1>9. /\ IsFiniteSet(P \cup A)
      /\ Cardinality(P \cup A) = Cardinality(P) + Cardinality(A) - Cardinality(P \cap A)
  BY <1>6, <1>7, FS_Union
<1>10. Cardinality(P \cap A) = 0 /\ Cardinality(P) \in Nat
  BY <1>5, <1>7, FS_EmptySet, FS_CardinalityType
<1>11. Cardinality(P \cup A) = Cardinality(P) + len
  BY <1>6, <1>9, <1>8, <1>10
<1> QED
  BY <1>2, <1>9, <1>11 DEF P, len

\* The length of a prefix is the sum of its chunks' lengths.
LEMMA LengthIs ==
  ASSUME NEW q, NEW m \in Nat, \A i \in 1 .. m : q[i].len \in Nat
  PROVE  /\ Length(q, 0) = 0
         /\ \A n \in 0 .. m : Length(q, n) \in Nat
         /\ \A n \in 1 .. m : Length(q, n) = Length(q, n - 1) + q[n].len
<1> DEFINE S == {n \in Nat : n <= m => IsFiniteSet(Places(q, n))}
<1>1. Places(q, 0) = {}
  BY DEF Places
<1>2. 0 \in S
  BY <1>1, FS_EmptySet
<1>3. ASSUME NEW n \in Nat, n \in S PROVE n + 1 \in S
  <2> SUFFICES ASSUME n + 1 <= m PROVE IsFiniteSet(Places(q, n + 1))
    BY <1>3
  <2>1. n <= m /\ n + 1 \in 1 .. m
    OBVIOUS
  <2>2. IsFiniteSet(Places(q, n)) /\ q[n + 1].len \in Nat
    BY <1>3, <2>1
  <2> QED
    BY <2>2, PlacesStep
<1> HIDE DEF S
<1>4. Nat \subseteq S
  BY <1>2, <1>3, Counting
<1>5. \A n \in 0 .. m : IsFiniteSet(Places(q, n))
  BY <1>4 DEF S
<1>6. \A n \in 0 .. m : Length(q, n) \in Nat
  BY <1>5, FS_CardinalityType DEF Length, Places
<1>7. ASSUME NEW n \in 1 .. m PROVE Length(q, n) = Length(q, n - 1) + q[n].len
  <2>1. n - 1 \in Nat /\ n - 1 \in 0 .. m /\ (n - 1) + 1 = n
    OBVIOUS
  <2>2. PICK k \in Nat : k = n - 1 /\ n = k + 1
    BY <2>1
  <2>3. IsFiniteSet(Places(q, k)) /\ q[k + 1].len \in Nat
    BY <1>5, <2>1, <2>2
  <2>4. Cardinality(Places(q, k + 1)) = Cardinality(Places(q, k)) + q[k + 1].len
    BY <2>3, PlacesStep
  <2> QED
    BY <2>2, <2>4 DEF Length, Places
<1>8. Length(q, 0) = 0
  BY <1>1, FS_EmptySet DEF Length, Places
<1> QED
  BY <1>6, <1>7, <1>8

\* A longer prefix is as long as a shorter one and its own last chunk.
LEMMA LengthGrows ==
  ASSUME NEW q, NEW m \in Nat, \A i \in 1 .. m : q[i].len \in Nat
  PROVE  /\ \A a, b \in 0 .. m : a <= b => Length(q, a) <= Length(q, b)
         /\ \A a, b \in 0 .. m : a < b => Length(q, a) + q[b].len <= Length(q, b)
<1> DEFINE S == {n \in Nat : \A a, b \in 0 .. m : b = a + n => Length(q, a) <= Length(q, b)}
<1>1. /\ \A n \in 0 .. m : Length(q, n) \in Nat
      /\ \A n \in 1 .. m : Length(q, n) = Length(q, n - 1) + q[n].len
  BY LengthIs
<1>2. 0 \in S
  BY <1>1
<1>3. ASSUME NEW n \in Nat, n \in S PROVE n + 1 \in S
  <2> SUFFICES ASSUME NEW a \in 0 .. m, NEW b \in 0 .. m, b = a + (n + 1)
               PROVE  Length(q, a) <= Length(q, b)
    OBVIOUS
  <2>1. b \in 1 .. m /\ b - 1 \in 0 .. m /\ b - 1 = a + n
    OBVIOUS
  <2>2. Length(q, a) <= Length(q, b - 1)
    BY <1>3, <2>1
  <2>3. Length(q, b) = Length(q, b - 1) + q[b].len /\ q[b].len \in Nat
    BY <1>1, <2>1
  <2> QED
    BY <1>1, <2>1, <2>2, <2>3
<1> HIDE DEF S
<1>4. Nat \subseteq S
  BY <1>2, <1>3, Counting
<1>5. ASSUME NEW a \in 0 .. m, NEW b \in 0 .. m, a <= b
      PROVE  Length(q, a) <= Length(q, b)
  <2>1. b - a \in Nat /\ b = a + (b - a)
    BY <1>5
  <2>2. b - a \in S
    BY <1>4, <2>1
  <2> QED
    BY <2>1, <2>2 DEF S
<1>6. ASSUME NEW a \in 0 .. m, NEW b \in 0 .. m, a < b
      PROVE  Length(q, a) + q[b].len <= Length(q, b)
  <2>1. b - 1 \in 0 .. m /\ a <= b - 1 /\ b \in 1 .. m
    BY <1>6
  <2>2. Length(q, a) <= Length(q, b - 1) /\ Length(q, b) = Length(q, b - 1) + q[b].len
    BY <1>1, <1>5, <2>1
  <2> QED
    BY <1>1, <2>1, <2>2
<1> QED
  BY <1>5, <1>6

\* Lengths depend on nothing else.
LEMMA LengthSame ==
  ASSUME NEW q, NEW r, NEW m \in Nat, \A i \in 1 .. m : q[i].len = r[i].len
  PROVE  \A n \in 0 .. m : Length(q, n) = Length(r, n)
<1> SUFFICES ASSUME NEW n \in 0 .. m PROVE Length(q, n) = Length(r, n)
  OBVIOUS
<1>1. \A i \in 1 .. n : q[i].len = r[i].len
  OBVIOUS
<1>2. {{i} \X (1 .. q[i].len) : i \in 1 .. n} = {{i} \X (1 .. r[i].len) : i \in 1 .. n}
  BY <1>1, Zenon
<1> QED
  BY <1>2 DEF Length

\* Every byte is in a chunk, and in no other.
LEMMA ByteHasChunk ==
  ASSUME NEW q, NEW m \in Nat, \A i \in 1 .. m : q[i].len \in Nat,
         NEW j \in 1 .. Length(q, m)
  PROVE  \E i \in 1 .. m : Length(q, i - 1) < j /\ j <= Length(q, i)
<1> DEFINE R == {ss \in Nat \X Nat : ss[1] < ss[2]}
           T == {i \in 0 .. m : j <= Length(q, i)}
<1>1. /\ Length(q, 0) = 0 /\ \A n \in 0 .. m : Length(q, n) \in Nat
  BY LengthIs
<1>2. m \in T /\ 0 \notin T
  BY <1>1
<1>3. IsWellFoundedOn(R, Nat)
  BY NatLessThanWellFounded, Zenon DEF OpToRel
<1> HIDE DEF R
<1>4. PICK i \in T : \A y \in T : ~(<<y, i>> \in R)
  <2>1. T \subseteq Nat /\ T # {}
    BY <1>2
  <2> QED
    BY <1>3, <2>1, WFMin
<1>5. i \in 1 .. m /\ i - 1 \in 0 .. m
  BY <1>2, <1>4
<1>6. i - 1 \notin T
  <2>1. <<i - 1, i>> \in R
    BY <1>5 DEF R
  <2> QED
    BY <1>4, <2>1
<1>7. ~(j <= Length(q, i - 1)) /\ j <= Length(q, i)
  BY <1>4, <1>5, <1>6
<1>8. Length(q, i - 1) \in Nat
  BY <1>1, <1>5
<1> QED
  BY <1>5, <1>7, <1>8

-----------------------------------------------------------------------------
(* Taking bytes off the front of a queue                                   *)

Pieces == [msg : Nat, off : Nat, len : Nat \ {0}, buf : BOOLEAN]

\* Positions and lengths of a queue of chunks.
LEMMA QueueIs ==
  ASSUME NEW q \in Seq(Pieces)
  PROVE  /\ Len(q) \in Nat /\ \A i \in 1 .. Len(q) : q[i] \in Pieces /\ q[i].len \in Nat \ {0}
         /\ Length(q, 0) = 0 /\ Total(q) \in Nat
         /\ \A n \in 0 .. Len(q) : Length(q, n) \in Nat
         /\ \A n \in 1 .. Len(q) : Length(q, n) = Length(q, n - 1) + q[n].len
<1>1. Len(q) \in Nat /\ \A i \in 1 .. Len(q) : q[i] \in Pieces
  OBVIOUS
<1>2. \A i \in 1 .. Len(q) : q[i].len \in Nat \ {0}
  BY <1>1 DEF Pieces
<1>3. /\ Length(q, 0) = 0
      /\ \A n \in 0 .. Len(q) : Length(q, n) \in Nat
      /\ \A n \in 1 .. Len(q) : Length(q, n) = Length(q, n - 1) + q[n].len
  BY <1>1, <1>2, LengthIs
<1>4. Total(q) \in Nat
  BY <1>1, <1>3 DEF Total
<1> QED
  BY <1>1, <1>2, <1>3, <1>4

\* A longer prefix of a queue is longer, at least by its last chunk.
LEMMA QueueGrows ==
  ASSUME NEW q \in Seq(Pieces)
  PROVE  /\ \A a, b \in 0 .. Len(q) : a <= b => Length(q, a) <= Length(q, b)
         /\ \A a, b \in 0 .. Len(q) : a < b => Length(q, a) + q[b].len <= Length(q, b)
<1>1. Len(q) \in Nat /\ \A i \in 1 .. Len(q) : q[i].len \in Nat
  BY QueueIs
<1> QED
  BY <1>1, LengthGrows

\* The chunks that n bytes cover in full.
Covered(q, n) == Max({i \in 0 .. Len(q) : Length(q, i) <= n})

LEMMA CoveredIs ==
  ASSUME NEW q \in Seq(Pieces), NEW n \in 0 .. Total(q)
  PROVE  /\ Covered(q, n) \in 0 .. Len(q) /\ Length(q, Covered(q, n)) <= n
         /\ Covered(q, n) = Len(q) => Length(q, Covered(q, n)) = n
         /\ Covered(q, n) < Len(q) => n < Length(q, Covered(q, n) + 1)
<1> DEFINE S == {i \in 0 .. Len(q) : Length(q, i) <= n}
<1>1. /\ Len(q) \in Nat /\ Total(q) \in Nat /\ \A i \in 0 .. Len(q) : Length(q, i) \in Nat
  BY QueueIs
<1>2. \A a, b \in 0 .. Len(q) : a <= b => Length(q, a) <= Length(q, b)
  BY QueueGrows
<1>3. ASSUME NEW k \in S, \A i \in S : k >= i PROVE Covered(q, n) = k
  <2>1. Covered(q, n) = CHOOSE x \in S : \A y \in S : x >= y
    BY DEF Covered, Max
  <2>2. Covered(q, n) \in S /\ \A y \in S : Covered(q, n) >= y
    BY <1>3, <2>1
  <2> QED
    BY <1>1, <1>3, <2>2
<1>4. CASE n = Total(q)
  <2>1. Len(q) \in S /\ Length(q, Len(q)) = n /\ \A i \in S : Len(q) >= i
    BY <1>1, <1>4 DEF Total
  <2>2. Covered(q, n) = Len(q)
    BY <1>3, <2>1
  <2> QED
    BY <1>1, <2>1, <2>2
<1>5. CASE n # Total(q)
  <2>1. n + 1 \in 1 .. Length(q, Len(q))
    BY <1>1, <1>5 DEF Total
  <2>2. Len(q) \in Nat /\ \A i \in 1 .. Len(q) : q[i].len \in Nat
    BY QueueIs
  <2>3. PICK i \in 1 .. Len(q) : Length(q, i - 1) < n + 1 /\ n + 1 <= Length(q, i)
    BY <2>1, <2>2, ByteHasChunk
  <2>4. i - 1 \in 0 .. Len(q) /\ i \in 0 .. Len(q) /\ (i - 1) + 1 = i
    BY <2>2
  <2>5. Length(q, i - 1) <= n /\ n < Length(q, i)
    BY <1>1, <2>3, <2>4
  <2>6. i - 1 \in S
    BY <2>4, <2>5
  <2>7. ASSUME NEW x \in S PROVE i - 1 >= x
    <3>1. x \in 0 .. Len(q) /\ Length(q, x) <= n
      OBVIOUS
    <3>2. ~(i <= x)
      BY <1>1, <1>2, <2>4, <2>5, <3>1
    <3> QED
      BY <2>2, <3>1, <3>2
  <2>8. Covered(q, n) = i - 1
    BY <1>3, <2>6, <2>7
  <2> QED
    BY <2>4, <2>5, <2>8
<1> QED
  BY <1>4, <1>5

\* A queue that begins with the rest of chunk k + 1 and goes on with the next ones.
Remains(r, q, k, skip) ==
  /\ r \in Seq(Pieces) /\ Len(r) = Len(q) - k
  /\ \A i \in 1 .. Len(q) - k :
       /\ r[i].msg = q[k + i].msg
       /\ r[i].off = q[k + i].off + (IF i = 1 THEN skip ELSE 0)
       /\ r[i].len = q[k + i].len - (IF i = 1 THEN skip ELSE 0)

\* A chunk whose first bytes have been taken.
Shorten(c, skip) == [c EXCEPT !.off = @ + skip, !.len = @ - skip]

LEMMA ShortenIs ==
  ASSUME NEW c \in Pieces, NEW skip \in Nat, skip < c.len
  PROVE  /\ Shorten(c, skip) \in Pieces /\ Shorten(c, skip).msg = c.msg
         /\ Shorten(c, skip).off = c.off + skip /\ Shorten(c, skip).len = c.len - skip
<1>1. /\ c = [msg |-> c.msg, off |-> c.off, len |-> c.len, buf |-> c.buf]
      /\ c.msg \in Nat /\ c.off \in Nat /\ c.len \in Nat \ {0} /\ c.buf \in BOOLEAN
  BY DEF Pieces
<1>2. PICK off \in Nat, len \in Nat \ {0} : off = c.off + skip /\ len = c.len - skip
  BY <1>1
<1>3. PICK d : d = [c EXCEPT !.off = off, !.len = len]
  OBVIOUS
<1>4. d.msg = c.msg /\ d.off = off /\ d.len = len
  BY <1>1, <1>3 DEF Pieces
<1>5. d \in Pieces
  BY <1>1, <1>2, <1>3 DEF Pieces
<1>6. Shorten(c, skip) = d
  BY <1>2, <1>3 DEF Shorten
<1> QED
  BY <1>2, <1>4, <1>5, <1>6

LEMMA AdvanceIs ==
  ASSUME NEW q \in Seq(Pieces), NEW n \in 0 .. Total(q)
  PROVE  \E k \in 0 .. Len(q), skip \in Nat :
            /\ n = Length(q, k) + skip
            /\ k = Len(q) => skip = 0
            /\ k < Len(q) => skip < q[k + 1].len
            /\ Remains(Advance(q, n), q, k, skip)
<1> DEFINE k == Covered(q, n)
           rest == SubSeq(q, k + 1, Len(q))
           skip == n - Length(q, k)
           cut1 == [rest EXCEPT ![1].off = @ + skip, ![1].len = @ - skip]
<1>1. /\ Len(q) \in Nat /\ Total(q) \in Nat /\ \A i \in 0 .. Len(q) : Length(q, i) \in Nat
      /\ \A i \in 1 .. Len(q) : q[i] \in Pieces /\ Length(q, i) = Length(q, i - 1) + q[i].len
  BY QueueIs
<1>2. /\ k \in 0 .. Len(q) /\ Length(q, k) <= n
      /\ k = Len(q) => Length(q, k) = n
      /\ k < Len(q) => n < Length(q, k + 1)
  BY CoveredIs
<1>3. Advance(q, n) = IF skip = 0 THEN rest ELSE cut1
  BY DEF Advance, Covered
<1> HIDE DEF k
<1>4. n \in Nat /\ Length(q, k) \in Nat
  BY <1>1, <1>2
<1>5. skip \in Nat /\ n = Length(q, k) + skip /\ (k = Len(q) => skip = 0)
  BY <1>2, <1>4
<1>6. k < Len(q) => k + 1 \in 1 .. Len(q) /\ Length(q, k + 1) = Length(q, k) + q[k + 1].len
  BY <1>1, <1>2
<1>7. k < Len(q) => skip < q[k + 1].len
  <2> SUFFICES ASSUME k < Len(q) PROVE skip < q[k + 1].len
    OBVIOUS
  <2>1. k + 1 \in 1 .. Len(q) /\ Length(q, k + 1) = Length(q, k) + q[k + 1].len
    BY <1>6
  <2>2. q[k + 1].len \in Nat
    BY <1>1, <2>1 DEF Pieces
  <2> QED
    BY <1>2, <1>4, <2>1, <2>2
<1>8. /\ rest \in Seq(Pieces) /\ Len(rest) = Len(q) - k
      /\ \A i \in 1 .. Len(q) - k : rest[i] = q[k + i]
  <2>1. k + 1 \in 1 .. Len(q) + 1 /\ \A i \in k + 1 .. Len(q) : q[i] \in Pieces
    BY <1>1, <1>2
  <2> QED
    BY <1>1, <1>2, <2>1
<1> HIDE DEF rest, skip
<1>9. CASE skip = 0
  <2>1. Advance(q, n) = rest
    BY <1>3, <1>9
  <2>2. \A i \in 1 .. Len(q) - k : k + i \in 1 .. Len(q)
    BY <1>1, <1>2
  <2>3. \A i \in 1 .. Len(q) - k : q[k + i].off \in Nat /\ q[k + i].len \in Nat
    BY <1>1, <2>2 DEF Pieces
  <2>4. Remains(rest, q, k, 0)
    BY <1>8, <2>3 DEF Remains
  <2> QED
    BY <1>2, <1>5, <1>7, <1>9, <2>1, <2>4
<1>10. CASE skip # 0
  <2>1. k < Len(q) /\ 1 \in 1 .. Len(q) - k /\ k + 1 \in 1 .. Len(q)
    BY <1>1, <1>2, <1>5, <1>10
  <2>2. /\ rest[1] \in Pieces /\ rest[1] = q[k + 1] /\ skip < rest[1].len
    BY <1>1, <1>7, <1>8, <2>1
  <2>3. PICK c : c = Shorten(rest[1], skip)
    OBVIOUS
  <2>4. /\ c \in Pieces /\ c.msg = q[k + 1].msg /\ c.off = q[k + 1].off + skip
        /\ c.len = q[k + 1].len - skip
    BY <1>5, <2>2, <2>3, ShortenIs
  <2>5. cut1 = [rest EXCEPT ![1] = c]
    BY <2>3 DEF Shorten
  <2>6. /\ cut1 \in Seq(Pieces) /\ Len(cut1) = Len(rest) /\ cut1[1] = c
        /\ \A i \in 1 .. Len(rest) : i # 1 => cut1[i] = rest[i]
    <3> HIDE DEF cut1
    <3>1. 1 \in 1 .. Len(rest)
      BY <1>8, <2>1
    <3> QED
      BY <1>8, <2>4, <2>5, <3>1
  <2> HIDE DEF cut1
  <2>7. \A i \in 1 .. Len(q) - k : k + i \in 1 .. Len(q)
    BY <1>1, <1>2
  <2>8. \A i \in 1 .. Len(q) - k : q[k + i].off \in Nat /\ q[k + i].len \in Nat
    BY <1>1, <2>7 DEF Pieces
  <2>9. Remains(cut1, q, k, skip)
    BY <1>8, <2>1, <2>4, <2>6, <2>8 DEF Remains
  <2>10. Advance(q, n) = cut1
    BY <1>3, <1>10
  <2> QED
    BY <1>2, <1>5, <1>7, <2>9, <2>10
<1> QED
  BY <1>9, <1>10

\* Taking n bytes off a queue leaves n bytes fewer.
LEMMA AdvanceTotal ==
  ASSUME NEW q \in Seq(Pieces), NEW n \in 0 .. Total(q)
  PROVE  Advance(q, n) \in Seq(Pieces) /\ Total(Advance(q, n)) = Total(q) - n
<1> DEFINE r == Advance(q, n)
<1>1. PICK k \in 0 .. Len(q), skip \in Nat :
        /\ n = Length(q, k) + skip
        /\ k = Len(q) => skip = 0
        /\ k < Len(q) => skip < q[k + 1].len
        /\ Remains(r, q, k, skip)
  BY AdvanceIs
<1> HIDE DEF r
<1>2. /\ Len(q) \in Nat /\ \A i \in 0 .. Len(q) : Length(q, i) \in Nat
      /\ \A i \in 1 .. Len(q) : q[i].len \in Nat /\ Length(q, i) = Length(q, i - 1) + q[i].len
  BY QueueIs
<1>3. r \in Seq(Pieces) /\ Len(r) = Len(q) - k
  BY <1>1 DEF Remains
<1>4. /\ Length(r, 0) = 0
      /\ \A i \in 1 .. Len(r) : Length(r, i) = Length(r, i - 1) + r[i].len
  BY <1>3, QueueIs
<1>5. \A i \in 1 .. Len(q) - k : r[i].len = q[k + i].len - (IF i = 1 THEN skip ELSE 0)
  BY <1>1 DEF Remains
<1> DEFINE S == {i \in Nat : i + 1 <= Len(q) - k => Length(r, i + 1) = Length(q, k + (i + 1)) - n}
<1>6. 0 \in S
  <2> SUFFICES ASSUME 1 <= Len(q) - k PROVE Length(r, 1) = Length(q, k + 1) - n
    OBVIOUS
  <2>1. 1 \in 1 .. Len(r) /\ k + 1 \in 1 .. Len(q) /\ k \in 0 .. Len(q)
    BY <1>2, <1>3
  <2>2. Length(r, 1) = q[k + 1].len - skip
    <3>1. Length(r, 1) = Length(r, 0) + r[1].len
      BY <1>4, <2>1
    <3>2. r[1].len = q[k + 1].len - skip
      BY <1>3, <1>5, <2>1
    <3>3. q[k + 1].len \in Nat
      BY <1>2, <2>1
    <3> QED
      BY <1>4, <3>1, <3>2, <3>3
  <2>3. Length(q, k + 1) = Length(q, k) + q[k + 1].len /\ Length(q, k) \in Nat /\ q[k + 1].len \in Nat
    BY <1>2, <2>1
  <2> QED
    BY <1>1, <2>2, <2>3
<1>7. ASSUME NEW i \in Nat, i \in S PROVE i + 1 \in S
  <2> SUFFICES ASSUME (i + 1) + 1 <= Len(q) - k
               PROVE  Length(r, (i + 1) + 1) = Length(q, k + ((i + 1) + 1)) - n
    OBVIOUS
  <2>1. PICK a \in Nat, b \in Nat : a = (i + 1) + 1 /\ b = k + a
    BY <1>2
  <2>2. /\ a \in 1 .. Len(r) /\ a \in 1 .. Len(q) - k /\ a # 1 /\ a - 1 = i + 1
        /\ b \in 1 .. Len(q) /\ b - 1 = k + (i + 1) /\ b - 1 \in 0 .. Len(q)
    BY <1>2, <1>3, <2>1
  <2>3. Length(r, a - 1) = Length(q, b - 1) - n
    BY <1>2, <1>7, <2>2
  <2>4. r[a].len = q[b].len /\ q[b].len \in Nat
    BY <1>2, <1>5, <2>1, <2>2
  <2>5. Length(r, a) = Length(r, a - 1) + r[a].len /\ Length(q, b) = Length(q, b - 1) + q[b].len
    BY <1>2, <1>4, <2>2
  <2>6. Length(q, b - 1) \in Nat /\ n \in Nat
    <3>1. b - 1 \in 0 .. Len(q) /\ \A m \in 0 .. Len(q) : Length(q, m) \in Nat
      BY <1>2, <2>2
    <3>2. Length(q, b - 1) \in Nat
      BY <3>1
    <3> QED
      BY <1>1, <3>2
  <2>7. Length(r, a) = Length(q, b) - n
    BY <2>3, <2>4, <2>5, <2>6
  <2> QED
    BY <2>1, <2>7
<1> HIDE DEF S
<1>8. Nat \subseteq S
  BY <1>6, <1>7, Counting
<1>9. Total(r) = Total(q) - n
  <2>1. CASE k = Len(q)
    <3>1. Len(r) = 0 /\ n = Length(q, Len(q)) /\ Length(q, Len(q)) \in Nat
      BY <1>1, <1>2, <1>3, <2>1
    <3> QED
      BY <1>4, <3>1 DEF Total
  <2>2. CASE k # Len(q)
    <3>1. (Len(q) - k) - 1 \in Nat
      BY <1>2, <2>2
    <3>2. PICK i \in Nat : i = (Len(q) - k) - 1
      BY <3>1
    <3>3. i + 1 = Len(q) - k /\ k + (i + 1) = Len(q)
      BY <1>2, <3>2
    <3>4. i \in S
      BY <1>8
    <3>5. Length(r, i + 1) = Length(q, k + (i + 1)) - n
      <4>1. i + 1 <= Len(q) - k
        BY <1>2, <3>3
      <4> QED
        BY <3>4, <4>1 DEF S
    <3> QED
      BY <1>3, <3>3, <3>5 DEF Total
  <2> QED
    BY <2>1, <2>2
<1> QED
  BY <1>3, <1>9 DEF r

-----------------------------------------------------------------------------
(* What a session's calls build                                            *)

LEMMA AppendTotal ==
  ASSUME NEW q \in Seq(Pieces), NEW c \in Pieces
  PROVE  Append(q, c) \in Seq(Pieces) /\ Total(Append(q, c)) = Total(q) + c.len
<1> DEFINE r == Append(q, c)
<1>1. /\ Len(q) \in Nat /\ r \in Seq(Pieces) /\ Len(r) = Len(q) + 1 /\ r[Len(q) + 1] = c
      /\ \A i \in 1 .. Len(q) : r[i] = q[i]
  OBVIOUS
<1> HIDE DEF r
<1>2. Length(r, Len(q)) = Length(q, Len(q))
  <2>1. \A i \in 1 .. Len(q) : r[i].len = q[i].len
    BY <1>1
  <2>2. Len(q) \in 0 .. Len(q)
    BY <1>1
  <2> QED
    BY <1>1, <2>1, <2>2, LengthSame
<1>3. Len(r) \in 1 .. Len(r) /\ Len(r) - 1 = Len(q)
  BY <1>1
<1>4. Length(r, Len(r)) = Length(r, Len(q)) + c.len
  BY <1>1, <1>3, QueueIs
<1> QED
  BY <1>1, <1>2, <1>4 DEF r, Total

LEMMA BufRefsIs ==
  ASSUME NEW q \in Seq(Pieces)
  PROVE  BufRefs(q) \in Nat
<1>1. DOMAIN q = 1 .. Len(q) /\ Len(q) \in Nat
  OBVIOUS
<1>2. IsFiniteSet(1 .. Len(q))
  BY <1>1, FS_Interval
<1>3. {i \in DOMAIN q : q[i].buf} \in SUBSET (1 .. Len(q))
  BY <1>1
<1> QED
  BY <1>2, <1>3, FS_Subset, FS_CardinalityType DEF BufRefs

LEMMA BufRefsEmpty == BufRefs(<<>>) = 0
<1>1. {i \in DOMAIN <<>> : <<>>[i].buf} = {}
  OBVIOUS
<1> QED
  BY <1>1, FS_EmptySet DEF BufRefs

LEMMA BufRefsAppend ==
  ASSUME NEW q \in Seq(Pieces), NEW c \in Pieces
  PROVE  BufRefs(Append(q, c)) = BufRefs(q) + BufRefs(<<c>>)
<1> DEFINE r == Append(q, c)
           A == {i \in DOMAIN q : q[i].buf}
           B == {i \in DOMAIN r : r[i].buf}
<1>1. /\ Len(q) \in Nat /\ DOMAIN q = 1 .. Len(q) /\ DOMAIN r = 1 .. Len(q) + 1 /\ r[Len(q) + 1] = c
      /\ \A i \in 1 .. Len(q) : r[i] = q[i]
  OBVIOUS
<1> HIDE DEF r
<1>2. A \subseteq 1 .. Len(q) /\ Len(q) + 1 \notin A
  BY <1>1
<1>3. IsFiniteSet(A) /\ Cardinality(A) \in Nat
  <2>1. IsFiniteSet(1 .. Len(q))
    BY <1>1, FS_Interval
  <2> QED
    BY <1>2, <2>1, FS_Subset, FS_CardinalityType
<1>4. DOMAIN <<c>> = {1} /\ <<c>>[1] = c
  OBVIOUS
<1>5. CASE c.buf
  <2>1. B = A \cup {Len(q) + 1}
    BY <1>1, <1>5
  <2>2. Cardinality(B) = Cardinality(A) + 1
    <3> HIDE DEF A, B
    <3> QED
      BY <1>2, <1>3, <2>1, FS_AddElement
  <2>3. {i \in DOMAIN <<c>> : <<c>>[i].buf} = {1}
    BY <1>4, <1>5
  <2> QED
    BY <2>2, <2>3, FS_Singleton DEF BufRefs, r
<1>6. CASE ~c.buf
  <2>1. B = A
    BY <1>1, <1>6
  <2>2. {i \in DOMAIN <<c>> : <<c>>[i].buf} = {}
    BY <1>4, <1>6
  <2>3. BufRefs(<<c>>) = 0
    BY <2>2, FS_EmptySet DEF BufRefs
  <2>4. BufRefs(q) = Cardinality(A) /\ BufRefs(Append(q, c)) = Cardinality(B)
    BY DEF BufRefs, r
  <2> HIDE DEF A, B
  <2> QED
    BY <1>3, <2>1, <2>3, <2>4
<1> QED
  BY <1>5, <1>6

\* The parts of a message follow one another.
MessageOf(m, n) ==
  /\ m \in Seq(Pieces) /\ Len(m) > 0
  /\ \A i \in 1 .. Len(m) : m[i].msg = n /\ m[i].off = Length(m, i - 1)

LEMMA MessageIs ==
  ASSUME sends \in Nat, NEW lens, NEW k \in Nat \ {0}, lens \in [1 .. k -> Nat \ {0}],
         NEW buf \in BOOLEAN
  PROVE  MessageOf(Message(lens, buf), sends + 1)
<1> DEFINE m == Message(lens, buf)
           l == [j \in DOMAIN lens |-> [len |-> lens[j]]]
<1>1. DOMAIN lens = 1 .. k /\ \A i \in 1 .. k : lens[i] \in Nat \ {0}
  OBVIOUS
<1>2. /\ DOMAIN m = 1 .. k
      /\ \A i \in 1 .. k : m[i] = [msg |-> sends + 1, off |-> Length(l, i - 1), len |-> lens[i], buf |-> buf]
  BY <1>1, Zenon DEF Message
<1>3. \A i \in 1 .. k : l[i].len = lens[i]
  BY <1>1
<1>4. \A n \in 0 .. k : Length(l, n) \in Nat
  <2>1. \A i \in 1 .. k : l[i].len \in Nat
    BY <1>1, <1>3
  <2> HIDE DEF l
  <2> QED
    BY <2>1, LengthIs
<1>5. m = [i \in 1 .. k |-> m[i]]
  <2>1. m = [i \in DOMAIN m |-> m[i]]
    BY Zenon DEF Message
  <2> QED
    BY <1>2, <2>1
<1> HIDE DEF m, l
<1>6. \A i \in 1 .. k : m[i].len = lens[i] /\ m[i].msg = sends + 1 /\ m[i].off = Length(l, i - 1)
  BY <1>2
<1>7. \A i \in 1 .. k : m[i] \in Pieces
  <2> SUFFICES ASSUME NEW i \in 1 .. k PROVE m[i] \in Pieces
    OBVIOUS
  <2>1. i - 1 \in 0 .. k
    OBVIOUS
  <2> QED
    BY <1>1, <1>2, <1>4, <2>1 DEF Pieces
<1>8. m \in Seq(Pieces) /\ Len(m) = k
  BY <1>5, <1>7
<1>9. \A n \in 0 .. k : Length(m, n) = Length(l, n)
  <2>1. \A i \in 1 .. k : m[i].len = l[i].len
    BY <1>3, <1>6
  <2> QED
    BY <2>1, LengthSame
<1>10. \A i \in 1 .. k : m[i].msg = sends + 1 /\ m[i].off = Length(m, i - 1)
  BY <1>6, <1>9
<1> QED
  BY <1>8, <1>10 DEF MessageOf, m

\* What sendv keeps of a vector is a vector.
LEMMA KeptIs ==
  ASSUME NEW n \in Nat \ {0}, NEW lens \in [1 .. n -> Nat \ {0}]
  PROVE  \E k \in Nat \ {0} : Kept(lens) \in [1 .. k -> Nat \ {0}]
<1>1. IovMax \in Nat \ {0}
  BY SessionOutAssumption
<1>2. lens \in Seq(Nat \ {0}) /\ Len(lens) = n /\ \A i \in 1 .. n : lens[i] \in Nat \ {0}
  OBVIOUS
<1>3. PICK k : k = Min({IovMax, n})
  OBVIOUS
<1>4. k \in {IovMax, n} /\ k <= n
  <2>1. \E x \in {IovMax, n} : \A y \in {IovMax, n} : x <= y
    BY <1>1
  <2>2. k = CHOOSE x \in {IovMax, n} : \A y \in {IovMax, n} : x <= y
    BY <1>3 DEF Min
  <2> QED
    BY <2>1, <2>2
<1>5. k \in Nat \ {0} /\ k <= n
  BY <1>1, <1>4
<1>6. Kept(lens) = SubSeq(lens, 1, k)
  BY <1>2, <1>3 DEF Kept
<1>7. SubSeq(lens, 1, k) \in [1 .. k -> Nat \ {0}]
  <2>1. SubSeq(lens, 1, k) = [i \in 1 .. k |-> lens[i]]
    BY <1>2, <1>5
  <2>2. \A i \in 1 .. k : lens[i] \in Nat \ {0}
    BY <1>2, <1>5
  <2> QED
    BY <2>1, <2>2
<1> QED
  BY <1>5, <1>6, <1>7

LEMMA MessagesAre ==
  ASSUME sends \in Nat, NEW m \in Messages
  PROVE  MessageOf(m, sends + 1)
<1>1. CASE \E lens \in UNION {[1 .. n -> 1 .. MaxLen] : n \in 1 .. MaxParts} : m = Message(Kept(lens), FALSE)
  <2>1. PICK lens \in UNION {[1 .. n -> 1 .. MaxLen] : n \in 1 .. MaxParts} : m = Message(Kept(lens), FALSE)
    BY <1>1
  <2>2. PICK n \in 1 .. MaxParts : lens \in [1 .. n -> 1 .. MaxLen]
    BY <2>1
  <2>3. n \in Nat \ {0} /\ lens \in [1 .. n -> Nat \ {0}]
    <3>1. MaxParts \in Nat /\ MaxLen \in Nat
      BY SessionOutAssumption
    <3>2. \A x \in 1 .. MaxLen : x \in Nat \ {0}
      BY <3>1
    <3> QED
      BY <2>2, <3>1, <3>2
  <2>4. PICK k \in Nat \ {0} : Kept(lens) \in [1 .. k -> Nat \ {0}]
    BY <2>3, KeptIs
  <2>5. PICK kept : kept = Kept(lens)
    OBVIOUS
  <2>6. MessageOf(Message(kept, FALSE), sends + 1)
    BY <2>4, <2>5, MessageIs
  <2> QED
    BY <2>1, <2>5, <2>6
<1>2. CASE \E len \in 1 .. MaxLen : m = Message(<<len>>, TRUE)
  <2>1. PICK len \in 1 .. MaxLen : m = Message(<<len>>, TRUE)
    BY <1>2
  <2>2. len \in Nat \ {0}
    BY SessionOutAssumption
  <2>3. <<len>> \in [1 .. 1 -> Nat \ {0}]
    BY <2>2
  <2>4. 1 \in Nat \ {0} /\ TRUE \in BOOLEAN
    OBVIOUS
  <2>5. PICK lens : lens = <<len>>
    OBVIOUS
  <2>6. MessageOf(Message(lens, TRUE), sends + 1)
    BY <2>3, <2>4, <2>5, MessageIs
  <2> QED
    BY <2>1, <2>5, <2>6
<1> QED
  BY <1>1, <1>2, Zenon DEF Messages

LEMMA OfferedIs ==
  ASSUME queue \in Seq(Pieces)
  PROVE  Total(Offered) \in Nat /\ Total(Offered) <= Total(queue)
<1> DEFINE k == Min({IovMax, Len(queue)})
           o == SubSeq(queue, 1, k)
<1>1. Len(queue) \in Nat /\ IovMax \in Nat
  BY SessionOutAssumption
<1>2. k \in {IovMax, Len(queue)} /\ \A y \in {IovMax, Len(queue)} : k <= y
  <2>1. \E x \in {IovMax, Len(queue)} : \A y \in {IovMax, Len(queue)} : x <= y
    BY <1>1
  <2> QED
    BY <2>1, Zenon DEF Min
<1> HIDE DEF k
<1>3. k \in 0 .. Len(queue)
  BY <1>1, <1>2
<1>4. Len(o) = k /\ \A i \in 1 .. k : o[i] = queue[i]
  BY <1>1, <1>3
<1>5. Offered = o
  BY DEF Offered, k
<1> HIDE DEF o
<1>6. Length(o, k) = Length(queue, k)
  <2>1. \A i \in 1 .. k : o[i].len = queue[i].len
    BY <1>4
  <2>2. k \in Nat /\ k \in 0 .. k
    BY <1>3
  <2> QED
    BY <2>1, <2>2, LengthSame
<1>7. Length(queue, k) \in Nat /\ Length(queue, k) <= Total(queue)
  <2>1. Len(queue) \in 0 .. Len(queue)
    BY <1>1
  <2> QED
    BY <1>3, <2>1, QueueIs, QueueGrows DEF Total
<1> QED
  BY <1>4, <1>5, <1>6, <1>7 DEF Total

LEMMA SentIs ==
  ASSUME NEW s, NEW t \in Nat, NEW n \in Sent(s, t)
  PROVE  n \in 1 .. t
  BY DEF Sent, Taken

-----------------------------------------------------------------------------
(* A session's counters                                                    *)

\* out_pending and the references, with the chunks they count.
Counted ==
  /\ sends \in Nat /\ queue \in Seq(Pieces) /\ parts \in Seq(Pieces)
  /\ bytes = Total(queue) /\ refs = 1 + BufRefs(queue)

LEMMA SendsCount ==
  ASSUME [Next]_vars
  PROVE  sends' \in {sends, sends + 1}
<1>1. CASE Session
  BY <1>1 DEF Session, SessionNext, SessionCall, SessionStep, SendQueued, SendAgain, SendError, SendDirect,
     Begin, Discard, SessionClose, AppendPart, AppendFails, AppendDone, HighReturns, FlushRound,
     FlushReturns, FlushCall
<1>2. CASE Tcp
  BY <1>2 DEF Tcp, TcpNext, Connect, Send, Close, Destroy, Poll, PollerCb, ClientStep, OnWritable, OnReadable,
     FireError, ErrorReturns
<1>3. CASE Tls
  BY <1>3 DEF Tls, TlsNext, TlsConnect, TlsClose, TlsDestroy, TlsStep, TlsHandshake, TlsWritable,
     TlsReadable, StartSsl, Shaken, ShakeFails, ShakeWaits, HelloReturns, FlushPending, DrainPlain,
     RecvReturns, TlsFireError, PollerCb, Poll, SendEarly, SendReady, SendFails, SendWaits
<1>4. CASE Net \/ Udp \/ Pool \/ Rtp \/ UNCHANGED vars
  BY <1>4 DEF Net, Transport, Udp, Pool, Rtp, vars, connVars
<1> QED
  BY <1>1, <1>2, <1>3, <1>4 DEF Next

LEMMA EmptyQueue == <<>> \in Seq(Pieces) /\ Total(<<>>) = 0 /\ BufRefs(<<>>) = 0
<1>1. <<>> \in Seq(Pieces) /\ Len(<<>>) = 0
  OBVIOUS
<1> QED
  BY <1>1, QueueIs, BufRefsEmpty DEF Total

LEMMA SendCounts ==
  ASSUME Counted, NEW m \in Messages,
         SendQueued(m) \/ SendAgain(m) \/ SendError(m) \/ \E n \in Taken(Total(m)) : SendDirect(m, n)
  PROVE  Counted'
<1>1. m \in Seq(Pieces) /\ Total(m) \in Nat
  BY MessagesAre, QueueIs DEF Counted, MessageOf
<1>2. /\ UNCHANGED <<queue, bytes, refs>> /\ sends' = sends + 1
      /\ parts' \in {parts, m} \/ \E n \in Sent(sk, Total(m)) : parts' = Advance(m, n)
  BY DEF SendQueued, SendAgain, SendError, SendDirect, Begin
<1>3. parts' \in Seq(Pieces)
  <2>1. ASSUME NEW n \in Sent(sk, Total(m)) PROVE Advance(m, n) \in Seq(Pieces)
    <3>1. n \in 1 .. Total(m)
      BY <1>1, SentIs
    <3>2. n \in 0 .. Total(m)
      BY <1>1, <3>1
    <3> QED
      BY <1>1, <3>2, AdvanceTotal
  <2> QED
    BY <1>1, <1>2, <2>1 DEF Counted
<1> QED
  BY <1>2, <1>3 DEF Counted

LEMMA AppendCounts ==
  ASSUME Counted, AppendPart
  PROVE  Counted'
<1>1. PICK c : c = Head(parts)
  OBVIOUS
<1>2. c \in Pieces /\ Tail(parts) \in Seq(Pieces)
  <2>1. parts \in Seq(Pieces) /\ parts # <<>>
    BY DEF Counted, AppendPart
  <2> QED
    BY <1>1, <2>1
<1>3. /\ queue' = Append(queue, c) /\ parts' = Tail(parts) /\ bytes' = bytes + c.len
      /\ refs' = refs + BufRefs(<<c>>) /\ sends' = sends
  BY <1>1 DEF AppendPart
<1>4. queue' \in Seq(Pieces) /\ bytes' = Total(queue')
  BY <1>2, <1>3, AppendTotal DEF Counted
<1>5. refs' = 1 + BufRefs(queue')
  <2>1. BufRefs(queue') = BufRefs(queue) + BufRefs(<<c>>)
    BY <1>2, <1>3, BufRefsAppend DEF Counted
  <2>2. BufRefs(queue) \in Nat /\ BufRefs(<<c>>) \in Nat
    <3>1. <<c>> \in Seq(Pieces)
      BY <1>2
    <3> QED
      BY <3>1, BufRefsIs DEF Counted
  <2> QED
    BY <1>3, <2>1, <2>2 DEF Counted
<1> QED
  BY <1>2, <1>3, <1>4, <1>5 DEF Counted

LEMMA FlushCounts ==
  ASSUME Counted, NEW n, FlushRound(n)
  PROVE  Counted'
<1>1. queue \in Seq(Pieces) /\ Total(Offered) \in Nat /\ Total(Offered) <= Total(queue)
  BY OfferedIs DEF Counted
<1>2. n \in Nat /\ n \in 0 .. Total(queue)
  <2>1. n \in 1 .. Total(Offered)
    BY <1>1, SentIs DEF FlushRound
  <2>2. Total(queue) \in Nat
    BY <1>1, QueueIs
  <2> QED
    BY <1>1, <2>1, <2>2
<1>3. queue' \in Seq(Pieces) /\ Total(queue') = Total(queue) - n
  BY <1>1, <1>2, AdvanceTotal DEF FlushRound
<1>4. /\ bytes' = bytes - n /\ refs' = refs - (BufRefs(queue) - BufRefs(queue'))
      /\ UNCHANGED <<sends, parts>>
  BY DEF FlushRound
<1>5. refs' = 1 + BufRefs(queue')
  BY <1>1, <1>3, <1>4, BufRefsIs DEF Counted
<1>6. bytes' = Total(queue')
  BY <1>3, <1>4 DEF Counted
<1> QED
  BY <1>3, <1>4, <1>5, <1>6 DEF Counted

LEMMA ClearCounts ==
  ASSUME Counted, Discard \/ SessionClose
  PROVE  Counted'
<1>1. /\ queue' = <<>> /\ bytes' = 0 /\ refs' = refs - BufRefs(queue) /\ UNCHANGED <<sends, parts>>
  BY DEF Discard, SessionClose
<1>2. BufRefs(queue) \in Nat
  BY BufRefsIs DEF Counted
<1> QED
  BY <1>1, <1>2, EmptyQueue DEF Counted

LEMMA CountedStep ==
  ASSUME Counted, [Next]_vars
  PROVE  Counted'
<1>1. CASE UNCHANGED <<queue, bytes, refs, parts>>
  <2>1. sends' \in Nat
    BY SendsCount DEF Counted
  <2> QED
    BY <1>1, <2>1 DEF Counted
<1>2. CASE Session
  <2>1. CASE \E m \in Messages : SendQueued(m) \/ SendAgain(m) \/ SendError(m)
                                   \/ \E n \in Taken(Total(m)) : SendDirect(m, n)
    BY <2>1, SendCounts
  <2>2. CASE AppendPart
    BY <2>2, AppendCounts
  <2>3. CASE \E n \in Taken(bytes) : FlushRound(n)
    BY <2>3, FlushCounts
  <2>4. CASE Discard \/ SessionClose
    BY <2>4, ClearCounts
  <2>5. CASE AppendFails
    BY <2>5, EmptyQueue DEF AppendFails, Counted
  <2>6. CASE AppendDone \/ HighReturns \/ FlushReturns \/ FlushCall
    BY <1>1, <2>6 DEF AppendDone, HighReturns, FlushReturns, FlushCall
  <2> QED
    BY <1>2, <2>1, <2>2, <2>3, <2>4, <2>5, <2>6 DEF Session, SessionNext, SessionCall, SessionStep
<1>3. CASE Tcp \/ Tls \/ Net \/ Udp \/ Pool \/ Rtp \/ UNCHANGED vars
  BY <1>1, <1>3 DEF Tcp, Tls, Net, Udp, Pool, Rtp, vars, connVars, outVars
<1> QED
  BY <1>2, <1>3 DEF Next

LEMMA CountedInit == Init => Counted
<1> SUFFICES ASSUME Init PROVE Counted
  OBVIOUS
<1>1. queue = <<>> /\ parts = <<>> /\ bytes = 0 /\ refs = 1 /\ sends = 0
  BY DEF Init, SessionInit
<1> QED
  BY <1>1, EmptyQueue DEF Counted

\* out_pending is the number of bytes queued and the application's buffer has one reference
\* per chunk beside its own, however the socket splits the writes and wherever a discard
\* comes (session_out_enqueue, session_out_advance_sent, session_out_pop_chunk,
\* ztk_tcp_session_out_discard).
THEOREM CountersBalance == Spec => []SessionBalanced
<1>1. Counted => SessionBalanced
  BY DEF Counted, SessionBalanced
<1> QED
  BY <1>1, CountedInit, CountedStep, PTL DEF Spec

-----------------------------------------------------------------------------
(* The order of bytes and chunks                                           *)

\* Chunk c ends before chunk d begins; byte b comes before chunk c.
Precedes(c, d) == c.msg < d.msg \/ (c.msg = d.msg /\ c.off + c.len <= d.off)
Leads(b, c) == b[1] < c.msg \/ (b[1] = c.msg /\ b[2] <= c.off)

Sorted(s) == \A i, j \in 1 .. Len(s) : i < j => Before(s[i], s[j])
Ranked(q) == \A i, j \in 1 .. Len(q) : i < j => Precedes(q[i], q[j])
Leading(s, q) == \A j \in 1 .. Len(s), i \in 1 .. Len(q) : Leads(s[j], q[i])

\* Byte p of message x is among the bytes s, or in a chunk of q.
Among(s, x, p) == \E j \in 1 .. Len(s) : s[j] = <<x, p>>
Holds(q, x, p) ==
  \E i \in 1 .. Len(q) : q[i].msg = x /\ q[i].off < p /\ p <= q[i].off + q[i].len

\* Byte d of chunk i is where the lengths of the chunks before it say.
LEMMA ChunkIs ==
  ASSUME NEW q \in Seq(Pieces), NEW i \in 1 .. Len(q), NEW d \in 1 .. q[i].len
  PROVE  /\ Length(q, i - 1) + d \in 1 .. Total(q)
         /\ ChunkOf(q, Length(q, i - 1) + d) = i
<1>1. /\ Len(q) \in Nat /\ \A n \in 0 .. Len(q) : Length(q, n) \in Nat
      /\ q[i].len \in Nat /\ Length(q, i) = Length(q, i - 1) + q[i].len
  BY QueueIs
<1>2. \A a, b \in 0 .. Len(q) : a <= b => Length(q, a) <= Length(q, b)
  BY QueueGrows
<1>3. i - 1 \in 0 .. Len(q) /\ i \in 0 .. Len(q) /\ Len(q) \in 0 .. Len(q) /\ i <= Len(q)
  BY <1>1
<1>4. PICK j \in Nat : j = Length(q, i - 1) + d
  BY <1>1, <1>3
<1>5. Length(q, i - 1) < j /\ j <= Length(q, i)
  BY <1>1, <1>3, <1>4
<1>6. j \in 1 .. Total(q)
  <2>1. Length(q, i) <= Total(q) /\ Length(q, i) \in Nat /\ Total(q) \in Nat /\ Length(q, i - 1) \in Nat
    BY <1>1, <1>2, <1>3 DEF Total
  <2> QED
    BY <1>5, <2>1
<1>7. ASSUME NEW k \in 1 .. Len(q), Length(q, k - 1) < j, j <= Length(q, k) PROVE k = i
  <2>1. k - 1 \in 0 .. Len(q) /\ k \in 0 .. Len(q)
    BY <1>1
  <2>2. Length(q, k - 1) \in Nat /\ Length(q, k) \in Nat /\ Length(q, i - 1) \in Nat /\ Length(q, i) \in Nat
    BY <1>1, <1>3, <2>1
  <2>3. ~(k <= i - 1)
    BY <1>2, <1>3, <1>5, <1>7, <2>1, <2>2
  <2>4. ~(i <= k - 1)
    BY <1>2, <1>3, <1>5, <1>7, <2>1, <2>2
  <2> QED
    BY <1>1, <2>3, <2>4
<1>8. ChunkOf(q, j) = i
  BY <1>5, <1>7 DEF ChunkOf
<1> QED
  BY <1>4, <1>6, <1>8

\* The bytes of a queue are those of its chunks, in their order.
LEMMA BytesOfIs ==
  ASSUME NEW q \in Seq(Pieces)
  PROVE  /\ BytesOf(q) \in Seq(Nat \X Nat) /\ Len(BytesOf(q)) = Total(q)
         /\ \A i \in 1 .. Len(q) : \A d \in 1 .. q[i].len :
              BytesOf(q)[Length(q, i - 1) + d] = <<q[i].msg, q[i].off + d>>
         /\ \A j \in 1 .. Total(q) : \E i \in 1 .. Len(q) : \E d \in 1 .. q[i].len :
              j = Length(q, i - 1) + d /\ BytesOf(q)[j] = <<q[i].msg, q[i].off + d>>
<1> DEFINE b == BytesOf(q)
<1>1. /\ Len(q) \in Nat /\ Total(q) \in Nat /\ \A n \in 0 .. Len(q) : Length(q, n) \in Nat
      /\ \A i \in 1 .. Len(q) : q[i] \in Pieces /\ q[i].len \in Nat /\ Length(q, i) = Length(q, i - 1) + q[i].len
  BY QueueIs
<1>2. \A i \in 1 .. Len(q) : q[i].msg \in Nat /\ q[i].off \in Nat
  BY <1>1 DEF Pieces
<1>3. /\ b = [j \in 1 .. Total(q) |-> b[j]]
      /\ \A j \in 1 .. Total(q) :
           b[j] = <<q[ChunkOf(q, j)].msg, q[ChunkOf(q, j)].off + (j - Length(q, ChunkOf(q, j) - 1))>>
  BY DEF BytesOf
<1> HIDE DEF b
<1>4. ASSUME NEW i \in 1 .. Len(q), NEW d \in 1 .. q[i].len
      PROVE  b[Length(q, i - 1) + d] = <<q[i].msg, q[i].off + d>>
  <2>1. PICK j : j = Length(q, i - 1) + d
    OBVIOUS
  <2>2. j \in 1 .. Total(q) /\ ChunkOf(q, j) = i
    BY <2>1, ChunkIs
  <2>3. b[j] = <<q[i].msg, q[i].off + (j - Length(q, i - 1))>>
    BY <1>3, <2>2
  <2>4. j - Length(q, i - 1) = d
    <3>1. i - 1 \in 0 .. Len(q) /\ q[i].len \in Nat
      BY <1>1
    <3>2. Length(q, i - 1) \in Nat /\ d \in Nat
      BY <1>1, <3>1
    <3> QED
      BY <2>1, <3>2
  <2> QED
    BY <2>1, <2>3, <2>4
<1>5. ASSUME NEW j \in 1 .. Total(q)
      PROVE  \E i \in 1 .. Len(q) : \E d \in 1 .. q[i].len :
               j = Length(q, i - 1) + d /\ b[j] = <<q[i].msg, q[i].off + d>>
  <2>1. j \in 1 .. Length(q, Len(q))
    BY DEF Total
  <2>2. \A i \in 1 .. Len(q) : q[i].len \in Nat
    BY <1>1
  <2>3. PICK i \in 1 .. Len(q) : Length(q, i - 1) < j /\ j <= Length(q, i)
    BY <1>1, <2>1, <2>2, ByteHasChunk
  <2>4. i - 1 \in 0 .. Len(q)
    BY <1>1
  <2>5. PICK d \in 1 .. q[i].len : j = Length(q, i - 1) + d
    <3>1. Length(q, i - 1) \in Nat /\ q[i].len \in Nat /\ Length(q, i) = Length(q, i - 1) + q[i].len
      BY <1>1, <2>4
    <3>2. j - Length(q, i - 1) \in 1 .. q[i].len /\ j = Length(q, i - 1) + (j - Length(q, i - 1))
      BY <2>3, <3>1
    <3> QED
      BY <3>2
  <2> QED
    BY <1>4, <2>5
<1>6. \A j \in 1 .. Total(q) : b[j] \in Nat \X Nat
  <2> SUFFICES ASSUME NEW j \in 1 .. Total(q) PROVE b[j] \in Nat \X Nat
    OBVIOUS
  <2>1. PICK i \in 1 .. Len(q) : \E d \in 1 .. q[i].len : b[j] = <<q[i].msg, q[i].off + d>>
    BY <1>5
  <2>2. PICK d \in 1 .. q[i].len : b[j] = <<q[i].msg, q[i].off + d>>
    BY <2>1
  <2>3. d \in Nat /\ q[i].off + d \in Nat /\ q[i].msg \in Nat
    BY <1>1, <1>2
  <2> QED
    BY <2>2, <2>3
<1>7. b \in Seq(Nat \X Nat) /\ Len(b) = Total(q)
  BY <1>1, <1>3, <1>6
<1> QED
  BY <1>4, <1>5, <1>7 DEF b

\* A byte of a queue and the chunk it comes from.
LEMMA ByteOf ==
  ASSUME NEW q \in Seq(Pieces), NEW j \in 1 .. Total(q)
  PROVE  \E i \in 1 .. Len(q), d \in Nat :
            /\ 1 <= d /\ d <= q[i].len /\ j = Length(q, i - 1) + d
            /\ BytesOf(q)[j] = <<q[i].msg, q[i].off + d>>
<1>1. PICK i \in 1 .. Len(q) : \E d \in 1 .. q[i].len :
         j = Length(q, i - 1) + d /\ BytesOf(q)[j] = <<q[i].msg, q[i].off + d>>
  BY BytesOfIs
<1>2. PICK d \in 1 .. q[i].len : j = Length(q, i - 1) + d /\ BytesOf(q)[j] = <<q[i].msg, q[i].off + d>>
  BY <1>1
<1>3. q[i].len \in Nat
  BY QueueIs
<1>4. d \in Nat /\ 1 <= d /\ d <= q[i].len
  BY <1>3
<1> QED
  BY <1>2, <1>4

\* Where chunks end and bytes are: what the proofs below need of the numbers.
LEMMA UpTo ==
  ASSUME NEW x \in Nat, NEW y \in Nat, NEW z \in Nat
  PROVE  /\ x <= y /\ y <= z => x <= z
         /\ x <= y /\ y < z => x < z
OBVIOUS

LEMMA Past ==
  ASSUME NEW x \in Nat, NEW d \in Nat
  PROVE  x + d \in Nat /\ x <= x + d /\ (1 <= d => x < x + d)
OBVIOUS

LEMMA Within ==
  ASSUME NEW x \in Nat, NEW len \in Nat, NEW d \in Nat, d <= len
  PROVE  x + d \in Nat /\ x + len \in Nat /\ x + d <= x + len
OBVIOUS

LEMMA SameEnd ==
  ASSUME NEW off \in Nat, NEW len \in Nat, NEW t \in Nat
  PROVE  (off + t) + (len - t) = off + len
OBVIOUS

\* Chunks in order have bytes in order.
LEMMA SortedBytes ==
  ASSUME NEW q \in Seq(Pieces), Ranked(q)
  PROVE  Sorted(BytesOf(q))
<1>1. Len(BytesOf(q)) = Total(q) /\ Total(q) \in Nat /\ Len(q) \in Nat
  BY BytesOfIs, QueueIs
<1> SUFFICES ASSUME NEW a \in 1 .. Total(q), NEW b \in 1 .. Total(q), a < b
             PROVE  Before(BytesOf(q)[a], BytesOf(q)[b])
  BY <1>1 DEF Sorted
<1>2. PICK i \in 1 .. Len(q), d \in Nat :
         /\ 1 <= d /\ d <= q[i].len /\ a = Length(q, i - 1) + d
         /\ BytesOf(q)[a] = <<q[i].msg, q[i].off + d>>
  BY ByteOf
<1>3. PICK k \in 1 .. Len(q), e \in Nat :
         /\ 1 <= e /\ e <= q[k].len /\ b = Length(q, k - 1) + e
         /\ BytesOf(q)[b] = <<q[k].msg, q[k].off + e>>
  BY ByteOf
<1>4. q[i] \in Pieces /\ q[k] \in Pieces
  BY QueueIs
<1>5. i <= k
  <2>1. i - 1 \in 0 .. Len(q) /\ k - 1 \in 0 .. Len(q) /\ k \in 0 .. Len(q)
    BY <1>1
  <2>2. Length(q, i - 1) \in Nat /\ Length(q, k - 1) \in Nat /\ Length(q, k) = Length(q, k - 1) + q[k].len
    BY <2>1, QueueIs
  <2>3. k <= i - 1 => Length(q, k) <= Length(q, i - 1)
    BY <2>1, QueueGrows
  <2>4. q[k].len \in Nat
    BY <1>4 DEF Pieces
  <2>5. ~(k <= i - 1)
    <3>1. b <= Length(q, k)
      BY <1>3, <2>2, <2>4
    <3>2. Length(q, i - 1) < a
      BY <1>2, <2>2
    <3>3. Length(q, k) \in Nat
      BY <2>2, <2>4
    <3> QED
      BY <2>2, <2>3, <3>1, <3>2, <3>3
  <2> QED
    BY <1>1, <2>5
<1>6. CASE i = k
  <2>1. i - 1 \in 0 .. Len(q)
    BY <1>1
  <2>2. Length(q, i - 1) \in Nat
    BY <2>1, QueueIs
  <2>3. d < e
    BY <1>2, <1>3, <1>6, <2>2
  <2>4. q[i].off \in Nat
    BY <1>4 DEF Pieces
  <2>5. q[i].off + d < q[i].off + e
    BY <2>3, <2>4
  <2> QED
    BY <1>2, <1>3, <1>6, <2>5 DEF Before
<1>7. CASE i # k
  <2>1. i < k
    BY <1>1, <1>5, <1>7
  <2>2. Precedes(q[i], q[k])
    BY <2>1 DEF Ranked
  <2>3. /\ q[i].msg \in Nat /\ q[k].msg \in Nat /\ q[i].off \in Nat /\ q[k].off \in Nat
        /\ q[i].len \in Nat
    BY <1>4 DEF Pieces
  <2>4. q[i].off + q[i].len <= q[k].off => q[i].off + d < q[k].off + e
    <3>1. d <= q[i].len /\ 1 <= e
      BY <1>2, <1>3
    <3>2. /\ q[i].off + d \in Nat /\ q[i].off + q[i].len \in Nat
          /\ q[i].off + d <= q[i].off + q[i].len
      BY <2>3, <3>1, Within, Zenon
    <3>3. q[k].off + e \in Nat /\ q[k].off < q[k].off + e
      BY <2>3, <3>1, Past, Zenon
    <3>4. q[i].off + q[i].len <= q[k].off => q[i].off + d <= q[k].off
      BY <2>3, <3>2, UpTo, Zenon
    <3> QED
      BY <2>3, <3>2, <3>3, <3>4, UpTo, Zenon
  <2>5. /\ BytesOf(q)[a][1] = q[i].msg /\ BytesOf(q)[a][2] = q[i].off + d
        /\ BytesOf(q)[b][1] = q[k].msg /\ BytesOf(q)[b][2] = q[k].off + e
    BY <1>2, <1>3
  <2> QED
    BY <2>2, <2>4, <2>5 DEF Before, Precedes
<1> QED
  BY <1>6, <1>7

-----------------------------------------------------------------------------
(* The bytes taken off a queue and the chunks that stay                    *)

\* The first n bytes of q, and what stays of it.
Off(q, n) == SubSeq(BytesOf(q), 1, n)

LEMMA OffIs ==
  ASSUME NEW q \in Seq(Pieces), NEW n \in 0 .. Total(q)
  PROVE  /\ n \in Nat /\ Off(q, n) \in Seq(Nat \X Nat) /\ Len(Off(q, n)) = n
         /\ \A j \in 1 .. n : j \in 1 .. Total(q) /\ Off(q, n)[j] = BytesOf(q)[j]
<1>1. BytesOf(q) \in Seq(Nat \X Nat) /\ Len(BytesOf(q)) = Total(q) /\ Total(q) \in Nat
  BY BytesOfIs, QueueIs
<1>2. PICK b : b = BytesOf(q)
  OBVIOUS
<1>3. /\ n \in Nat /\ SubSeq(b, 1, n) \in Seq(Nat \X Nat) /\ Len(SubSeq(b, 1, n)) = n
      /\ \A j \in 1 .. n : j \in 1 .. Total(q) /\ SubSeq(b, 1, n)[j] = b[j]
  BY <1>1, <1>2
<1> QED
  BY <1>2, <1>3 DEF Off

\* Where n bytes end: in chunk k + 1, after skip bytes of it.
Ends(q, n, k, skip) ==
  /\ k \in 0 .. Len(q) /\ skip \in Nat
  /\ n = Length(q, k) + skip
  /\ k = Len(q) => skip = 0
  /\ k < Len(q) => skip < q[k + 1].len
  /\ Remains(Advance(q, n), q, k, skip)

LEMMA EndsSomewhere ==
  ASSUME NEW q \in Seq(Pieces), NEW n \in 0 .. Total(q)
  PROVE  \E k, skip : Ends(q, n, k, skip)
  BY AdvanceIs DEF Ends

\* Chunk i of what stays is chunk k + i, shorter if it is the first.
LEMMA StaysIs ==
  ASSUME NEW q \in Seq(Pieces), NEW n, NEW k, NEW skip, Ends(q, n, k, skip),
         NEW i \in 1 .. Len(Advance(q, n))
  PROVE  /\ k \in Nat /\ i \in Nat /\ k + i \in 1 .. Len(q)
         /\ q[k + i] \in Pieces /\ Advance(q, n)[i] \in Pieces
         /\ Advance(q, n)[i].msg = q[k + i].msg
         /\ Advance(q, n)[i].off = q[k + i].off + (IF i = 1 THEN skip ELSE 0)
         /\ Advance(q, n)[i].len = q[k + i].len - (IF i = 1 THEN skip ELSE 0)
<1>1. Len(q) \in Nat /\ k \in 0 .. Len(q)
  BY QueueIs DEF Ends
<1>2. /\ Advance(q, n) \in Seq(Pieces) /\ Len(Advance(q, n)) = Len(q) - k
      /\ \A a \in 1 .. Len(q) - k :
           /\ Advance(q, n)[a].msg = q[k + a].msg
           /\ Advance(q, n)[a].off = q[k + a].off + (IF a = 1 THEN skip ELSE 0)
           /\ Advance(q, n)[a].len = q[k + a].len - (IF a = 1 THEN skip ELSE 0)
  BY DEF Ends, Remains
<1>3. i \in Nat /\ i \in 1 .. Len(q) - k /\ k + i \in 1 .. Len(q) /\ k \in Nat
  BY <1>1, <1>2
<1> QED
  BY <1>2, <1>3, QueueIs

\* A byte taken is of a chunk before k + 1, or one of the first skip of that.
Early(q, n, k, skip, j) ==
  \E i \in 1 .. Len(q), d \in Nat :
     /\ 1 <= d /\ d <= q[i].len /\ Off(q, n)[j] = <<q[i].msg, q[i].off + d>>
     /\ i <= k \/ (i = k + 1 /\ d <= skip)

LEMMA TakenIsEarly ==
  ASSUME NEW q \in Seq(Pieces), NEW n \in 0 .. Total(q), NEW k, NEW skip, Ends(q, n, k, skip),
         NEW j \in 1 .. n
  PROVE  Early(q, n, k, skip, j)
<1>1. j \in 1 .. Total(q) /\ Off(q, n)[j] = BytesOf(q)[j] /\ n \in Nat
  BY OffIs
<1>2. PICK i \in 1 .. Len(q), d \in Nat :
         /\ 1 <= d /\ d <= q[i].len /\ j = Length(q, i - 1) + d
         /\ BytesOf(q)[j] = <<q[i].msg, q[i].off + d>>
  BY <1>1, ByteOf
<1>3. Len(q) \in Nat /\ k \in 0 .. Len(q) /\ skip \in Nat /\ n = Length(q, k) + skip
  BY QueueIs DEF Ends
<1>4. i - 1 \in 0 .. Len(q) /\ k \in Nat /\ i \in Nat
  BY <1>3
<1>5. Length(q, i - 1) \in Nat /\ Length(q, k) \in Nat
  BY <1>3, <1>4, QueueIs
<1>6. ~(i > k + 1)
  <2> SUFFICES ASSUME i > k + 1 PROVE FALSE
    OBVIOUS
  <2>1. k + 1 \in 1 .. Len(q) /\ k + 1 \in 0 .. Len(q) /\ k + 1 <= i - 1 /\ (k + 1) - 1 = k
    BY <1>3, <1>4
  <2>2. Length(q, k + 1) <= Length(q, i - 1)
    BY <1>4, <2>1, QueueGrows
  <2>3. Length(q, k + 1) = Length(q, k) + q[k + 1].len /\ q[k + 1].len \in Nat
    BY <2>1, QueueIs
  <2>4. skip < q[k + 1].len
    <3>1. k < Len(q)
      BY <1>3, <2>1
    <3> QED
      BY <3>1 DEF Ends
  <2>5. j <= n /\ j > Length(q, i - 1)
    BY <1>1, <1>2, <1>5
  <2>6. n < Length(q, k + 1) /\ Length(q, k + 1) \in Nat
    BY <1>3, <1>5, <2>3, <2>4
  <2> QED
    BY <1>1, <1>5, <2>2, <2>5, <2>6
<1>7. i = k + 1 => d <= skip
  <2> SUFFICES ASSUME i = k + 1 PROVE d <= skip
    OBVIOUS
  <2>1. i - 1 = k
    BY <1>4
  <2>2. Length(q, k) + d <= Length(q, k) + skip
    BY <1>1, <1>2, <1>3, <2>1
  <2> QED
    BY <1>3, <1>5, <2>2
<1>8. i <= k \/ i = k + 1
  BY <1>4, <1>6
<1> QED
  BY <1>1, <1>2, <1>7, <1>8 DEF Early

LEMMA RankedIs ==
  ASSUME NEW q, Ranked(q), NEW i \in 1 .. Len(q), NEW j \in 1 .. Len(q), i < j
  PROVE  Precedes(q[i], q[j])
BY DEF Ranked

LEMMA AdvanceRanked ==
  ASSUME NEW q \in Seq(Pieces), NEW n \in 0 .. Total(q), Ranked(q)
  PROVE  Ranked(Advance(q, n))
<1>1. PICK k, skip : Ends(q, n, k, skip)
  BY EndsSomewhere
<1> SUFFICES ASSUME NEW i \in 1 .. Len(Advance(q, n)), NEW j \in 1 .. Len(Advance(q, n)), i < j
             PROVE  Precedes(Advance(q, n)[i], Advance(q, n)[j])
  BY DEF Ranked
<1>2. PICK c, d : c = Advance(q, n)[i] /\ d = Advance(q, n)[j]
  OBVIOUS
<1>3. PICK a, b : a = q[k + i] /\ b = q[k + j]
  OBVIOUS
<1>4. /\ k \in Nat /\ i \in Nat /\ j \in Nat /\ k + i \in 1 .. Len(q) /\ k + j \in 1 .. Len(q)
      /\ a \in Pieces /\ b \in Pieces /\ c.msg = a.msg /\ d.msg = b.msg
      /\ c.off = a.off + (IF i = 1 THEN skip ELSE 0) /\ c.len = a.len - (IF i = 1 THEN skip ELSE 0)
  <2>1. /\ k \in Nat /\ i \in Nat /\ k + i \in 1 .. Len(q) /\ a \in Pieces /\ c.msg = a.msg
        /\ c.off = a.off + (IF i = 1 THEN skip ELSE 0) /\ c.len = a.len - (IF i = 1 THEN skip ELSE 0)
    BY <1>1, <1>2, <1>3, StaysIs
  <2>2. j \in Nat /\ k + j \in 1 .. Len(q) /\ b \in Pieces /\ d.msg = b.msg
    BY <1>1, <1>2, <1>3, StaysIs
  <2> QED
    BY <2>1, <2>2
<1>5. Precedes(a, b)
  <2>1. k + i < k + j
    BY <1>4
  <2> QED
    BY <1>3, <1>4, <2>1, RankedIs
<1>6. a.off \in Nat /\ a.len \in Nat /\ b.off \in Nat /\ skip \in Nat
  <2>1. skip \in Nat
    BY <1>1 DEF Ends
  <2> QED
    BY <1>4, <2>1 DEF Pieces
<1>7. c.off + c.len = a.off + a.len
  <2>1. PICK t : t = IF i = 1 THEN skip ELSE 0
    OBVIOUS
  <2>2. t \in Nat
    BY <1>6, <2>1
  <2>3. c.off = a.off + t /\ c.len = a.len - t
    BY <1>4, <2>1
  <2>4. (a.off + t) + (a.len - t) = a.off + a.len
    BY <1>6, <2>2, SameEnd
  <2> QED
    BY <2>3, <2>4, Zenon
<1>8. d.off = b.off
  <2>1. d.off = b.off + (IF j = 1 THEN skip ELSE 0)
    BY <1>1, <1>2, <1>3, StaysIs
  <2>2. j # 1
    BY <1>4
  <2> QED
    BY <1>6, <2>1, <2>2
<1> QED
  BY <1>2, <1>4, <1>5, <1>7, <1>8 DEF Precedes

LEMMA TakenLeads ==
  ASSUME NEW q \in Seq(Pieces), NEW n \in 0 .. Total(q), Ranked(q)
  PROVE  Sorted(Off(q, n)) /\ Leading(Off(q, n), Advance(q, n))
<1>1. Sorted(Off(q, n))
  <2>1. Sorted(BytesOf(q)) /\ Len(BytesOf(q)) = Total(q)
    BY SortedBytes, BytesOfIs
  <2>2. /\ Len(Off(q, n)) = n
        /\ \A j \in 1 .. n : j \in 1 .. Total(q) /\ Off(q, n)[j] = BytesOf(q)[j]
    BY OffIs
  <2> QED
    BY <2>1, <2>2 DEF Sorted
<1>2. ASSUME NEW j \in 1 .. n, NEW i \in 1 .. Len(Advance(q, n))
      PROVE  Leads(Off(q, n)[j], Advance(q, n)[i])
  <2>1. PICK k, skip : Ends(q, n, k, skip)
    BY EndsSomewhere
  <2>2. Early(q, n, k, skip, j)
    BY <2>1, TakenIsEarly
  <2>3. PICK a \in 1 .. Len(q), d \in Nat :
          /\ 1 <= d /\ d <= q[a].len /\ Off(q, n)[j] = <<q[a].msg, q[a].off + d>>
          /\ a <= k \/ (a = k + 1 /\ d <= skip)
    BY <2>2 DEF Early
  <2>4. PICK c : c = Advance(q, n)[i]
    OBVIOUS
  <2>5. /\ k \in Nat /\ i \in Nat /\ k + i \in 1 .. Len(q) /\ q[k + i] \in Pieces
        /\ c.msg = q[k + i].msg /\ c.off = q[k + i].off + (IF i = 1 THEN skip ELSE 0)
    BY <2>1, <2>4, StaysIs
  <2>6. q[a] \in Pieces /\ skip \in Nat /\ i >= 1
    BY <2>1, QueueIs DEF Ends
  <2>7. /\ q[a].msg \in Nat /\ q[a].off \in Nat /\ q[a].len \in Nat
        /\ q[k + i].msg \in Nat /\ q[k + i].off \in Nat /\ c.off \in Nat /\ q[k + i].off <= c.off
    <3>1. /\ q[a].msg \in Nat /\ q[a].off \in Nat /\ q[a].len \in Nat
          /\ q[k + i].msg \in Nat /\ q[k + i].off \in Nat
      BY <2>5, <2>6 DEF Pieces
    <3>2. PICK t : t = IF i = 1 THEN skip ELSE 0
      OBVIOUS
    <3>3. t \in Nat
      BY <2>6, <3>2
    <3>4. c.off = q[k + i].off + t
      BY <2>5, <3>2
    <3>5. c.off \in Nat /\ q[k + i].off <= c.off
      BY <3>1, <3>3, <3>4, Past, Zenon
    <3> QED
      BY <3>1, <3>5
  <2>8. CASE a < k + i
    <3>1. Precedes(q[a], q[k + i])
      <4>1. k + i \in 1 .. Len(q)
        BY <2>5
      <4> QED
        BY <2>8, <4>1, RankedIs
    <3>2. d <= q[a].len
      BY <2>3
    <3>3. q[a].off + q[a].len <= q[k + i].off => q[a].off + d <= c.off
      <4>1. /\ q[a].off + d \in Nat /\ q[a].off + q[a].len \in Nat
            /\ q[a].off + d <= q[a].off + q[a].len
        BY <2>7, <3>2, Within, Zenon
      <4>2. q[a].off + q[a].len <= q[k + i].off => q[a].off + d <= q[k + i].off
        BY <2>7, <4>1, UpTo, Zenon
      <4> QED
        BY <2>7, <4>1, <4>2, UpTo, Zenon
    <3>4. Off(q, n)[j][1] = q[a].msg /\ Off(q, n)[j][2] = q[a].off + d /\ c.msg = q[k + i].msg
      BY <2>3, <2>5
    <3>5. Leads(Off(q, n)[j], c)
      BY <3>1, <3>3, <3>4 DEF Precedes, Leads
    <3> QED
      BY <2>4, <3>5
  <2>9. CASE ~(a < k + i)
    <3>1. a = k + 1 /\ i = 1 /\ d <= skip
      BY <2>3, <2>5, <2>6, <2>9
    <3>2. c.off = q[a].off + skip /\ c.msg = q[a].msg
      BY <2>5, <3>1
    <3>3. q[a].off + d <= c.off
      BY <2>6, <2>7, <3>1, <3>2
    <3> QED
      BY <2>3, <2>4, <3>2, <3>3 DEF Leads
  <2> QED
    BY <2>8, <2>9
<1>3. Len(Off(q, n)) = n
  BY OffIs
<1> QED
  BY <1>1, <1>2, <1>3 DEF Leading

\* No byte is lost.
LEMMA AdvanceHolds ==
  ASSUME NEW q \in Seq(Pieces), NEW n \in 0 .. Total(q), NEW x \in Nat, NEW p \in Nat, Holds(q, x, p)
  PROVE  Among(Off(q, n), x, p) \/ Holds(Advance(q, n), x, p)
<1>1. PICK k, skip : Ends(q, n, k, skip)
  BY EndsSomewhere
<1>2. PICK i \in 1 .. Len(q) : q[i].msg = x /\ q[i].off < p /\ p <= q[i].off + q[i].len
  BY DEF Holds
<1>3. /\ Len(q) \in Nat /\ q[i] \in Pieces /\ k \in 0 .. Len(q) /\ skip \in Nat /\ n = Length(q, k) + skip
      /\ Length(q, k) \in Nat
  BY <1>1, QueueIs DEF Ends
<1>4. q[i].off \in Nat /\ q[i].len \in Nat
  BY <1>3 DEF Pieces
<1>5. PICK d \in Nat : d = p - q[i].off /\ d \in 1 .. q[i].len /\ q[i].off + d = p
  <2>1. p - q[i].off \in Nat /\ p - q[i].off \in 1 .. q[i].len /\ q[i].off + (p - q[i].off) = p
    BY <1>2, <1>4
  <2> QED
    BY <2>1
<1>6. PICK j : j = Length(q, i - 1) + d
  OBVIOUS
<1>7. j \in 1 .. Total(q) /\ BytesOf(q)[j] = <<x, p>>
  BY <1>2, <1>5, <1>6, ChunkIs, BytesOfIs
<1>8. CASE j <= n
  <2>1. n \in Nat /\ Len(Off(q, n)) = n /\ \A a \in 1 .. n : Off(q, n)[a] = BytesOf(q)[a]
    BY OffIs
  <2>2. j \in 1 .. n
    BY <1>7, <1>8, <2>1
  <2> QED
    BY <1>7, <2>1, <2>2 DEF Among
<1>9. CASE ~(j <= n)
  <2>1. i - 1 \in 0 .. Len(q) /\ i \in 0 .. Len(q)
    BY <1>3
  <2>2. Length(q, i - 1) \in Nat /\ Length(q, i) = Length(q, i - 1) + q[i].len
    BY <2>1, QueueIs
  <2>3. ~(i <= k)
    <3>1. i <= k => Length(q, i) <= Length(q, k)
      BY <1>3, <2>1, QueueGrows
    <3>2. j <= Length(q, i) /\ j \in Nat /\ Length(q, i) \in Nat
      <4>1. d <= q[i].len
        BY <1>4, <1>5
      <4>2. /\ Length(q, i - 1) + d \in Nat /\ Length(q, i - 1) + q[i].len \in Nat
            /\ Length(q, i - 1) + d <= Length(q, i - 1) + q[i].len
        BY <1>4, <2>2, <4>1, Within, Zenon
      <4> QED
        BY <1>6, <2>2, <4>2
    <3>3. i <= k => j <= n
      <4>1. Length(q, k) <= n /\ n \in Nat /\ Length(q, k) \in Nat
        BY <1>3
      <4> QED
        BY <3>1, <3>2, <4>1
    <3> QED
      BY <1>9, <3>3
  <2>4. PICK a \in Nat : a = i - k
    BY <1>3, <2>3
  <2>5. Len(Advance(q, n)) = Len(q) - k
    BY <1>1 DEF Ends, Remains
  <2>6. a \in 1 .. Len(Advance(q, n)) /\ k + a = i
    BY <1>3, <2>3, <2>4, <2>5
  <2>7. PICK c : c = Advance(q, n)[a]
    OBVIOUS
  <2>8. /\ c.msg = q[i].msg /\ c.off = q[i].off + (IF a = 1 THEN skip ELSE 0)
        /\ c.len = q[i].len - (IF a = 1 THEN skip ELSE 0)
    BY <1>1, <2>6, <2>7, StaysIs
  <2>9. c.off + c.len = q[i].off + q[i].len
    <3>1. PICK t : t = IF a = 1 THEN skip ELSE 0
      OBVIOUS
    <3>2. t \in Nat
      BY <1>3, <3>1
    <3>3. c.off = q[i].off + t /\ c.len = q[i].len - t
      BY <2>8, <3>1
    <3>4. (q[i].off + t) + (q[i].len - t) = q[i].off + q[i].len
      <4>1. PICK off \in Nat, len \in Nat : off = q[i].off /\ len = q[i].len
        BY <1>4
      <4>2. (off + t) + (len - t) = off + len
        BY <3>2, SameEnd
      <4> QED
        BY <4>1, <4>2, Zenon
    <3> QED
      BY <3>3, <3>4, Zenon
  <2>10. c.off < p
    <3>1. CASE a = 1
      <4>1. i - 1 = k
        BY <1>3, <2>6, <3>1
      <4>2. skip < d
        <5>1. j = Length(q, k) + d
          BY <1>6, <4>1
        <5>2. d <= skip => Length(q, k) + d <= Length(q, k) + skip
          BY <1>3, Within, Zenon
        <5>3. ~(d <= skip)
          BY <1>3, <1>9, <5>1, <5>2
        <5> QED
          BY <1>3, <5>3
      <4>3. c.off = q[i].off + skip /\ p = q[i].off + d
        BY <1>5, <2>8, <3>1
      <4>4. \A off \in Nat : off + skip < off + d
        BY <1>3, <4>2
      <4> QED
        BY <1>4, <4>3, <4>4
    <3>2. CASE a # 1
      <4>1. c.off = q[i].off
        BY <1>4, <2>8, <3>2
      <4> QED
        BY <1>2, <4>1
    <3> QED
      BY <3>1, <3>2
  <2> QED
    BY <1>2, <2>6, <2>7, <2>8, <2>9, <2>10 DEF Holds
<1> QED
  BY <1>8, <1>9

\* What came before the queue comes before the bytes taken and the chunks that stay.
LEMMA AdvanceFollows ==
  ASSUME NEW q \in Seq(Pieces), NEW n \in 0 .. Total(q), NEW w \in Seq(Nat \X Nat), Leading(w, q)
  PROVE  /\ Leading(w, Advance(q, n))
         /\ \A a \in 1 .. Len(w), j \in 1 .. n : Before(w[a], Off(q, n)[j])
<1>1. PICK k, skip : Ends(q, n, k, skip)
  BY EndsSomewhere
<1>2. skip \in Nat
  BY <1>1 DEF Ends
<1>3. ASSUME NEW a \in 1 .. Len(w) PROVE w[a][1] \in Nat /\ w[a][2] \in Nat
  OBVIOUS
<1>4. ASSUME NEW a \in 1 .. Len(w), NEW i \in 1 .. Len(Advance(q, n))
      PROVE  Leads(w[a], Advance(q, n)[i])
  <2>1. /\ k + i \in 1 .. Len(q) /\ q[k + i] \in Pieces
        /\ Advance(q, n)[i].msg = q[k + i].msg
        /\ Advance(q, n)[i].off = q[k + i].off + (IF i = 1 THEN skip ELSE 0)
    BY <1>1, StaysIs
  <2>2. Leads(w[a], q[k + i])
    BY <2>1 DEF Leading
  <2>3. q[k + i].off \in Nat
    BY <2>1 DEF Pieces
  <2>4. w[a][2] <= q[k + i].off => w[a][2] <= Advance(q, n)[i].off
    <3>1. q[k + i].off <= Advance(q, n)[i].off /\ Advance(q, n)[i].off \in Nat
      <4>1. PICK t : t = IF i = 1 THEN skip ELSE 0
        OBVIOUS
      <4>2. t \in Nat
        BY <1>2, <4>1
      <4>3. Advance(q, n)[i].off = q[k + i].off + t
        BY <2>1, <4>1
      <4> QED
        BY <2>3, <4>2, <4>3, Past, Zenon
    <3>2. w[a][2] \in Nat
      BY <1>3
    <3> QED
      BY <2>3, <3>1, <3>2, UpTo, Zenon
  <2>5. Advance(q, n)[i].msg = q[k + i].msg
    BY <2>1
  <2> QED
    BY <2>2, <2>4, <2>5 DEF Leads
<1>5. ASSUME NEW a \in 1 .. Len(w), NEW j \in 1 .. n PROVE Before(w[a], Off(q, n)[j])
  <2>1. Early(q, n, k, skip, j)
    BY <1>1, TakenIsEarly
  <2>2. PICK i \in 1 .. Len(q), d \in Nat :
          1 <= d /\ Off(q, n)[j] = <<q[i].msg, q[i].off + d>>
    BY <2>1 DEF Early
  <2>3. Leads(w[a], q[i]) /\ q[i] \in Pieces
    BY QueueIs DEF Leading
  <2>4. q[i].off \in Nat
    BY <2>3 DEF Pieces
  <2>5. w[a][2] <= q[i].off => w[a][2] < q[i].off + d
    <3>1. w[a][2] \in Nat /\ 1 <= d
      BY <1>3, <2>2
    <3>2. q[i].off + d \in Nat /\ q[i].off < q[i].off + d
      BY <2>4, <3>1, Past, Zenon
    <3> QED
      BY <2>4, <3>1, <3>2, UpTo, Zenon
  <2>6. Off(q, n)[j][1] = q[i].msg /\ Off(q, n)[j][2] = q[i].off + d
    BY <2>2
  <2> QED
    BY <2>3, <2>5, <2>6 DEF Before, Leads
<1> QED
  BY <1>4, <1>5 DEF Leading

\* The messages are those of the queue.
LEMMA AdvanceMessages ==
  ASSUME NEW q \in Seq(Pieces), NEW n \in 0 .. Total(q)
  PROVE  /\ \A i \in 1 .. Len(Advance(q, n)) : \E a \in 1 .. Len(q) : Advance(q, n)[i].msg = q[a].msg
         /\ \A j \in 1 .. n : \E a \in 1 .. Len(q) : Off(q, n)[j][1] = q[a].msg
<1>1. PICK k, skip : Ends(q, n, k, skip)
  BY EndsSomewhere
<1>2. ASSUME NEW i \in 1 .. Len(Advance(q, n))
      PROVE  \E a \in 1 .. Len(q) : Advance(q, n)[i].msg = q[a].msg
  <2>1. k + i \in 1 .. Len(q) /\ Advance(q, n)[i].msg = q[k + i].msg
    BY <1>1, StaysIs
  <2> QED
    BY <2>1
<1>3. ASSUME NEW j \in 1 .. n PROVE \E a \in 1 .. Len(q) : Off(q, n)[j][1] = q[a].msg
  <2>1. Early(q, n, k, skip, j)
    BY <1>1, TakenIsEarly
  <2>2. PICK i \in 1 .. Len(q), d \in Nat : Off(q, n)[j] = <<q[i].msg, q[i].off + d>>
    BY <2>1 DEF Early
  <2> QED
    BY <2>2
<1> QED
  BY <1>2, <1>3

\* The kernel has taken bytes of the messages sent so far, in order.
WireGood ==
  /\ wire \in Seq(Nat \X Nat) /\ Sorted(wire)
  /\ \A j \in 1 .. Len(wire) : wire[j][1] <= sends

\* What has been taken from the application is in order: the wire first, then the queue, then
\* the parts of the message in progress.
Lined ==
  /\ Ranked(queue) /\ Leading(wire, queue)
  /\ \A i \in 1 .. Len(queue) : queue[i].msg <= sends
  /\ step \in {"append", "high"} =>
       /\ Ranked(parts) /\ Leading(wire, parts)
       /\ \A i \in 1 .. Len(queue), j \in 1 .. Len(parts) : Precedes(queue[i], parts[j])
       /\ \A j \in 1 .. Len(parts) : parts[j].msg = sends

\* And none of it is lost, except what a discard has cut.
AllThere ==
  /\ size \in Nat
  /\ \A w \in whole : /\ w = <<w[1], w[2]>> /\ w[1] \in Nat /\ w[2] \in Nat
                      /\ w[1] \notin cut =>
                           \A p \in 1 .. w[2] : Among(wire, w[1], p) \/ Holds(queue, w[1], p)
  /\ step \in {"append", "high"} /\ sends \notin cut =>
       \A p \in 1 .. size : Among(wire, sends, p) \/ Holds(queue, sends, p) \/ Holds(parts, sends, p)

\* The messages a TLS client has queued follow those on the wire that were not sent ahead;
\* once the handshake is over nothing is queued where a send would be written, unless OpenSSL
\* waits or on_connect is running.
Queued ==
  /\ pend \in Seq(Nat) /\ \A i, j \in 1 .. Len(pend) : i < j => pend[i] < pend[j]
  /\ \A i \in 1 .. Len(pend) : pend[i] <= sends
  /\ \A j \in 1 .. Len(wire), i \in 1 .. Len(pend) :
       wire[j][1] < pend[i] \/ (wire[j][1] \in ahead /\ pend[i] < wire[j][1])
  /\ pend # <<>> => kind = "tls"
  /\ state = "ready" /\ owed = "none" /\ pend # <<>> => at \in {"hello", "flush", "fail"}

\* Records in the order of the calls, apart from those of the messages in a.
InOrder(x, y, a) == Before(x, y) \/ (x[1] \in a /\ Before(y, x))
Ordered(s, a) == \A i, j \in 1 .. Len(s) : i < j => InOrder(s[i], s[j], a)

Wired ==
  /\ wire \in Seq(Nat \X Nat) /\ Ordered(wire, ahead)
  /\ \A j \in 1 .. Len(wire) : wire[j][1] <= sends

\* All of it: a session until it is over, and the other parts, which have no session's state.
OrderInv ==
  /\ kind = "session" => WireGood
  /\ kind = "session" /\ step \notin {"closed", "killed"} => Lined /\ AllThere
  /\ kind # "session" => Wired /\ queue = <<>> /\ whole = {}
  /\ Queued

-----------------------------------------------------------------------------
(* Bytes put on the wire                                                   *)

LEMMA JoinIs ==
  ASSUME NEW w \in Seq(Nat \X Nat), NEW f \in Seq(Nat \X Nat)
  PROVE  /\ w \o f \in Seq(Nat \X Nat) /\ Len(w \o f) = Len(w) + Len(f)
         /\ Len(w) \in Nat /\ Len(f) \in Nat
         /\ \A i \in 1 .. Len(w) : (w \o f)[i] = w[i]
         /\ \A j \in 1 .. Len(f) : (w \o f)[Len(w) + j] = f[j]
         /\ \A k \in 1 .. Len(w) + Len(f) :
              k \in 1 .. Len(w) \/ \E j \in 1 .. Len(f) : k = Len(w) + j
<1>1. /\ w \o f \in Seq(Nat \X Nat) /\ Len(w \o f) = Len(w) + Len(f)
      /\ Len(w) \in Nat /\ Len(f) \in Nat
      /\ \A i \in 1 .. Len(w) : (w \o f)[i] = w[i]
  OBVIOUS
<1>2. ASSUME NEW j \in 1 .. Len(f) PROVE (w \o f)[Len(w) + j] = f[j]
  <2>1. Len(w) + j \in 1 .. Len(w) + Len(f) /\ ~(Len(w) + j <= Len(w)) /\ (Len(w) + j) - Len(w) = j
    BY <1>1
  <2> QED
    BY <1>1, <2>1
<1>3. ASSUME NEW k \in 1 .. Len(w) + Len(f), k \notin 1 .. Len(w)
      PROVE  \E j \in 1 .. Len(f) : k = Len(w) + j
  <2>1. k - Len(w) \in 1 .. Len(f) /\ k = Len(w) + (k - Len(w))
    BY <1>1, <1>3
  <2> QED
    BY <2>1
<1> QED
  BY <1>1, <1>2, <1>3

\* Bytes in order, put behind others that all come before them, are in order.
LEMMA JoinSorted ==
  ASSUME NEW w \in Seq(Nat \X Nat), NEW f \in Seq(Nat \X Nat), Sorted(w), Sorted(f),
         \A i \in 1 .. Len(w), j \in 1 .. Len(f) : Before(w[i], f[j])
  PROVE  Sorted(w \o f)
<1>1. PICK s : s = w \o f
  OBVIOUS
<1>2. /\ Len(s) = Len(w) + Len(f) /\ Len(w) \in Nat /\ Len(f) \in Nat
      /\ \A i \in 1 .. Len(w) : s[i] = w[i]
      /\ \A j \in 1 .. Len(f) : s[Len(w) + j] = f[j]
      /\ \A k \in 1 .. Len(w) + Len(f) : k \in 1 .. Len(w) \/ \E j \in 1 .. Len(f) : k = Len(w) + j
  BY <1>1, JoinIs
<1> SUFFICES ASSUME NEW a \in 1 .. Len(w) + Len(f), NEW b \in 1 .. Len(w) + Len(f), a < b
             PROVE  Before(s[a], s[b])
  BY <1>1, <1>2 DEF Sorted
<1>3. CASE b \in 1 .. Len(w)
  <2>1. a \in 1 .. Len(w)
    BY <1>2, <1>3
  <2> QED
    BY <1>2, <1>3, <2>1 DEF Sorted
<1>4. CASE b \notin 1 .. Len(w)
  <2>1. PICK j \in 1 .. Len(f) : b = Len(w) + j
    BY <1>2, <1>4
  <2>2. CASE a \in 1 .. Len(w)
    BY <1>2, <2>1, <2>2
  <2>3. CASE a \notin 1 .. Len(w)
    <3>1. PICK i \in 1 .. Len(f) : a = Len(w) + i
      BY <1>2, <2>3
    <3>2. i < j
      BY <1>2, <2>1, <3>1
    <3> QED
      BY <1>2, <2>1, <3>1, <3>2 DEF Sorted
  <2> QED
    BY <2>2, <2>3
<1> QED
  BY <1>3, <1>4

LEMMA JoinAmong ==
  ASSUME NEW w \in Seq(Nat \X Nat), NEW f \in Seq(Nat \X Nat), NEW x, NEW p,
         Among(w, x, p) \/ Among(f, x, p)
  PROVE  Among(w \o f, x, p)
<1>1. PICK s : s = w \o f
  OBVIOUS
<1>2. /\ Len(s) = Len(w) + Len(f) /\ Len(w) \in Nat /\ Len(f) \in Nat
      /\ \A i \in 1 .. Len(w) : s[i] = w[i]
      /\ \A j \in 1 .. Len(f) : s[Len(w) + j] = f[j]
  BY <1>1, JoinIs
<1>3. CASE Among(w, x, p)
  <2>1. PICK i \in 1 .. Len(w) : w[i] = <<x, p>>
    BY <1>3 DEF Among
  <2>2. i \in 1 .. Len(s) /\ s[i] = w[i]
    BY <1>2
  <2> QED
    BY <1>1, <2>1, <2>2 DEF Among
<1>4. CASE Among(f, x, p)
  <2>1. PICK j \in 1 .. Len(f) : f[j] = <<x, p>>
    BY <1>4 DEF Among
  <2>2. Len(w) + j \in 1 .. Len(s) /\ s[Len(w) + j] = f[j]
    BY <1>2
  <2> QED
    BY <1>1, <2>1, <2>2 DEF Among
<1> QED
  BY <1>3, <1>4

LEMMA JoinLeading ==
  ASSUME NEW w \in Seq(Nat \X Nat), NEW f \in Seq(Nat \X Nat), NEW q, Leading(w, q), Leading(f, q)
  PROVE  Leading(w \o f, q)
<1>1. PICK s : s = w \o f
  OBVIOUS
<1>2. /\ Len(s) = Len(w) + Len(f)
      /\ \A i \in 1 .. Len(w) : s[i] = w[i]
      /\ \A j \in 1 .. Len(f) : s[Len(w) + j] = f[j]
      /\ \A k \in 1 .. Len(w) + Len(f) : k \in 1 .. Len(w) \/ \E j \in 1 .. Len(f) : k = Len(w) + j
  BY <1>1, JoinIs
<1>3. ASSUME NEW k \in 1 .. Len(s), NEW i \in 1 .. Len(q) PROVE Leads(s[k], q[i])
  <2>1. CASE k \in 1 .. Len(w)
    BY <1>2, <2>1 DEF Leading
  <2>2. CASE k \notin 1 .. Len(w)
    <3>1. PICK j \in 1 .. Len(f) : k = Len(w) + j
      BY <1>2, <2>2
    <3> QED
      BY <1>2, <3>1 DEF Leading
  <2> QED
    BY <2>1, <2>2
<1> QED
  BY <1>1, <1>3 DEF Leading

\* The messages of the bytes of both.
LEMMA JoinMessages ==
  ASSUME NEW w \in Seq(Nat \X Nat), NEW f \in Seq(Nat \X Nat), NEW x \in Nat,
         \A i \in 1 .. Len(w) : w[i][1] <= x, \A j \in 1 .. Len(f) : f[j][1] <= x
  PROVE  \A k \in 1 .. Len(w \o f) : (w \o f)[k][1] <= x
<1>1. PICK s : s = w \o f
  OBVIOUS
<1>2. /\ Len(s) = Len(w) + Len(f)
      /\ \A i \in 1 .. Len(w) : s[i] = w[i]
      /\ \A j \in 1 .. Len(f) : s[Len(w) + j] = f[j]
      /\ \A k \in 1 .. Len(w) + Len(f) : k \in 1 .. Len(w) \/ \E j \in 1 .. Len(f) : k = Len(w) + j
  BY <1>1, JoinIs
<1>3. ASSUME NEW k \in 1 .. Len(s) PROVE s[k][1] <= x
  <2>1. CASE k \in 1 .. Len(w)
    BY <1>2, <2>1
  <2>2. CASE k \notin 1 .. Len(w)
    <3>1. PICK j \in 1 .. Len(f) : k = Len(w) + j
      BY <1>2, <2>2
    <3> QED
      BY <1>2, <3>1
  <2> QED
    BY <2>1, <2>2
<1> QED
  BY <1>1, <1>3

\* A message's parts are in order and hold all of it.
LEMMA MessageRanked ==
  ASSUME NEW m, NEW x \in Nat, MessageOf(m, x)
  PROVE  Ranked(m) /\ \A p \in 1 .. Total(m) : Holds(m, x, p)
<1>1. m \in Seq(Pieces) /\ \A i \in 1 .. Len(m) : m[i].msg = x /\ m[i].off = Length(m, i - 1)
  BY DEF MessageOf
<1>2. /\ Len(m) \in Nat /\ \A n \in 0 .. Len(m) : Length(m, n) \in Nat
      /\ \A i \in 1 .. Len(m) : m[i].len \in Nat /\ Length(m, i) = Length(m, i - 1) + m[i].len
  BY <1>1, QueueIs
<1>3. ASSUME NEW i \in 1 .. Len(m), NEW j \in 1 .. Len(m), i < j PROVE Precedes(m[i], m[j])
  <2>1. i \in 0 .. Len(m) /\ j - 1 \in 0 .. Len(m) /\ i <= j - 1
    BY <1>2, <1>3
  <2>2. Length(m, i) <= Length(m, j - 1)
    BY <1>1, <2>1, QueueGrows
  <2>3. m[i].off + m[i].len <= m[j].off
    BY <1>1, <1>2, <2>2
  <2> QED
    BY <1>1, <2>3 DEF Precedes
<1>4. ASSUME NEW p \in 1 .. Total(m) PROVE Holds(m, x, p)
  <2>1. p \in 1 .. Length(m, Len(m))
    BY DEF Total
  <2>2. PICK i \in 1 .. Len(m) : Length(m, i - 1) < p /\ p <= Length(m, i)
    BY <1>2, <2>1, ByteHasChunk
  <2> QED
    BY <1>1, <1>2, <2>2 DEF Holds
<1> QED
  BY <1>3, <1>4 DEF Ranked

\* A queue without bytes has no chunk.
LEMMA NoBytes ==
  ASSUME NEW q \in Seq(Pieces), Total(q) = 0
  PROVE  Len(q) = 0
<1>1. Len(q) \in Nat
  OBVIOUS
<1> SUFFICES ASSUME Len(q) # 0 PROVE FALSE
  OBVIOUS
<1>2. 0 \in 0 .. Len(q) /\ Len(q) \in 0 .. Len(q) /\ 0 < Len(q) /\ Len(q) \in 1 .. Len(q)
  BY <1>1
<1>3. Length(q, 0) = 0 /\ q[Len(q)].len \in Nat \ {0}
  BY <1>2, QueueIs
<1>4. Length(q, 0) + q[Len(q)].len <= Length(q, Len(q))
  BY <1>2, QueueGrows
<1> QED
  BY <1>3, <1>4 DEF Total

-----------------------------------------------------------------------------
(* A session's calls keep the order                                        *)

\* What the calls of a session find, and what they leave unless the session is over.
SessionGood == Counted /\ WireGood /\ Lined /\ AllThere
SessionLeft == WireGood /\ (step \notin {"closed", "killed"} => Lined /\ AllThere)

\* A new message comes after everything there is.
LEMMA NewMessage ==
  ASSUME SessionGood, NEW m \in Messages
  PROVE  /\ sends \in Nat /\ m \in Seq(Pieces) /\ Total(m) \in Nat /\ Ranked(m)
         /\ Leading(wire, m)
         /\ \A p \in 1 .. Total(m) : Holds(m, sends + 1, p)
         /\ \A i \in 1 .. Len(m) : m[i].msg = sends + 1
         /\ \A i \in 1 .. Len(queue), j \in 1 .. Len(m) : Precedes(queue[i], m[j])
<1>1. sends \in Nat /\ sends + 1 \in Nat
  BY DEF SessionGood, Counted, WireGood
<1>2. MessageOf(m, sends + 1)
  BY <1>1, MessagesAre
<1>3. m \in Seq(Pieces) /\ \A i \in 1 .. Len(m) : m[i].msg = sends + 1
  BY <1>2 DEF MessageOf
<1>4. Total(m) \in Nat
  BY <1>3, QueueIs
<1>5. Ranked(m) /\ \A p \in 1 .. Total(m) : Holds(m, sends + 1, p)
  BY <1>1, <1>2, MessageRanked
<1>6. Leading(wire, m)
  <2> SUFFICES ASSUME NEW j \in 1 .. Len(wire), NEW i \in 1 .. Len(m) PROVE Leads(wire[j], m[i])
    BY DEF Leading
  <2>1. wire[j][1] \in Nat /\ wire[j][1] <= sends
    BY DEF SessionGood, WireGood
  <2>2. wire[j][1] < m[i].msg
    BY <1>1, <1>3, <2>1
  <2> QED
    BY <2>2 DEF Leads
<1>7. ASSUME NEW i \in 1 .. Len(queue), NEW j \in 1 .. Len(m) PROVE Precedes(queue[i], m[j])
  <2>1. queue[i].msg \in Nat /\ queue[i].msg <= sends
    <3>1. queue[i] \in Pieces
      BY QueueIs DEF SessionGood, Counted, WireGood
    <3> QED
      BY <3>1 DEF Pieces, SessionGood, Lined, WireGood
  <2>2. queue[i].msg < m[j].msg
    BY <1>1, <1>3, <2>1
  <2> QED
    BY <2>2 DEF Precedes
<1> QED
  BY <1>1, <1>3, <1>4, <1>5, <1>6, <1>7

LEMMA QueuedSendOrder ==
  ASSUME SessionGood, NEW m \in Messages, SendQueued(m) \/ SendAgain(m)
  PROVE  SessionLeft'
<1>1. /\ sends' = sends + 1 /\ size' = Total(m) /\ parts' = m /\ step' = "append"
      /\ UNCHANGED <<wire, queue, whole, cut>>
  BY DEF SendQueued, SendAgain, Begin
<1>2. /\ sends \in Nat /\ m \in Seq(Pieces) /\ Total(m) \in Nat /\ Ranked(m) /\ Leading(wire, m)
      /\ \A p \in 1 .. Total(m) : Holds(m, sends + 1, p)
      /\ \A i \in 1 .. Len(m) : m[i].msg = sends + 1
      /\ \A i \in 1 .. Len(queue), j \in 1 .. Len(m) : Precedes(queue[i], m[j])
  BY NewMessage
<1>3. \A j \in 1 .. Len(wire) : wire[j][1] <= sends + 1
  BY <1>2 DEF SessionGood, WireGood
<1>4. \A i \in 1 .. Len(queue) : queue[i].msg <= sends + 1
  <2>1. \A i \in 1 .. Len(queue) : queue[i].msg \in Nat /\ queue[i].msg <= sends
    BY QueueIs DEF SessionGood, Counted, Lined, Pieces
  <2>2. sends \in Nat
    BY <1>2
  <2> QED
    BY <2>1, <2>2
<1>5. Lined'
  BY <1>1, <1>2, <1>4 DEF Lined, SessionGood, WireGood
<1>6. AllThere'
  BY <1>1, <1>2 DEF AllThere, SessionGood, WireGood
<1> QED
  BY <1>1, <1>3, <1>5, <1>6 DEF SessionLeft, WireGood, SessionGood

\* The wire w holds some of the bytes of q after those of the wire now, r the others.
Grown(q, x, w, r) ==
  /\ w \in Seq(Nat \X Nat) /\ Sorted(w) /\ \A j \in 1 .. Len(w) : w[j][1] <= x
  /\ r \in Seq(Pieces) /\ Ranked(r) /\ Leading(w, r)
  /\ \A i \in 1 .. Len(r) : \E a \in 1 .. Len(q) : r[i].msg = q[a].msg
  /\ \A y \in Nat, p \in Nat :
       Among(wire, y, p) \/ Holds(q, y, p) => Among(w, y, p) \/ Holds(r, y, p)

\* The bytes taken off a queue that follows the wire go to the wire.
LEMMA WireGrows ==
  ASSUME WireGood, sends \in Nat, NEW q \in Seq(Pieces), NEW n \in 0 .. Total(q), NEW x \in Nat,
         sends <= x, Ranked(q), Leading(wire, q), \A i \in 1 .. Len(q) : q[i].msg <= x
  PROVE  Grown(q, x, wire \o Off(q, n), Advance(q, n))
<1> DEFINE f == Off(q, n)
           r == Advance(q, n)
<1>1. f \in Seq(Nat \X Nat) /\ Len(f) = n /\ wire \in Seq(Nat \X Nat) /\ Sorted(wire)
  BY OffIs DEF WireGood
<1>2. r \in Seq(Pieces) /\ Ranked(r)
  BY AdvanceTotal, AdvanceRanked
<1>3. Sorted(f) /\ Leading(f, r)
  BY TakenLeads
<1>4. Leading(wire, r) /\ \A a \in 1 .. Len(wire), j \in 1 .. n : Before(wire[a], f[j])
  BY <1>1, AdvanceFollows
<1>5. /\ \A i \in 1 .. Len(r) : \E a \in 1 .. Len(q) : r[i].msg = q[a].msg
      /\ \A j \in 1 .. n : \E a \in 1 .. Len(q) : f[j][1] = q[a].msg
  BY AdvanceMessages
<1>6. ASSUME NEW y \in Nat, NEW p \in Nat, Holds(q, y, p)
      PROVE  Among(f, y, p) \/ Holds(r, y, p)
  BY <1>6, AdvanceHolds
<1> HIDE DEF f, r
<1>7. Sorted(wire \o f)
  BY <1>1, <1>3, <1>4, JoinSorted
<1>8. Leading(wire \o f, r)
  BY <1>1, <1>3, <1>4, JoinLeading
<1>9. \A j \in 1 .. Len(wire \o f) : (wire \o f)[j][1] <= x
  <2>1. \A j \in 1 .. Len(f) : f[j][1] <= x
    BY <1>1, <1>5
  <2>2. \A j \in 1 .. Len(wire) : wire[j][1] <= x
    <3>1. \A j \in 1 .. Len(wire) : wire[j][1] \in Nat /\ wire[j][1] <= sends
      BY DEF WireGood
    <3> QED
      BY <3>1
  <2> QED
    BY <1>1, <2>1, <2>2, JoinMessages
<1>10. ASSUME NEW y \in Nat, NEW p \in Nat, Among(wire, y, p) \/ Holds(q, y, p)
       PROVE  Among(wire \o f, y, p) \/ Holds(r, y, p)
  BY <1>1, <1>6, <1>10, JoinAmong
<1>11. wire \o f \in Seq(Nat \X Nat)
  BY <1>1
<1> QED
  BY <1>2, <1>5, <1>7, <1>8, <1>9, <1>10, <1>11 DEF Grown, f, r

LEMMA DirectSendOrder ==
  ASSUME SessionGood, NEW m \in Messages, NEW n, SendDirect(m, n)
  PROVE  SessionLeft'
<1>1. /\ sends' = sends + 1 /\ size' = Total(m) /\ parts' = Advance(m, n) /\ queue = <<>>
      /\ wire' = wire \o Off(m, n) /\ n \in Sent(sk, Total(m)) /\ UNCHANGED <<queue, cut>>
      /\ step' = IF n = Total(m) THEN "idle" ELSE "append"
      /\ whole' = IF n = Total(m) THEN whole \cup {<<sends + 1, Total(m)>>} ELSE whole
  BY DEF SendDirect, Begin, Off
<1>2. /\ sends \in Nat /\ m \in Seq(Pieces) /\ Total(m) \in Nat /\ Ranked(m) /\ Leading(wire, m)
      /\ \A p \in 1 .. Total(m) : Holds(m, sends + 1, p)
      /\ \A i \in 1 .. Len(m) : m[i].msg = sends + 1
  BY NewMessage
<1>3. n \in 0 .. Total(m)
  <2>1. n \in 1 .. Total(m)
    BY <1>1, <1>2, SentIs
  <2> QED
    BY <1>2, <2>1
<1>4. PICK x \in Nat : x = sends + 1 /\ sends <= x
  BY <1>2
<1>5. WireGood /\ \A i \in 1 .. Len(m) : m[i].msg <= x
  BY <1>2, <1>4 DEF SessionGood, WireGood
<1>6. /\ wire' \in Seq(Nat \X Nat) /\ Sorted(wire') /\ \A j \in 1 .. Len(wire') : wire'[j][1] <= x
      /\ parts' \in Seq(Pieces) /\ Ranked(parts') /\ Leading(wire', parts')
      /\ \A i \in 1 .. Len(parts') : \E a \in 1 .. Len(m) : parts'[i].msg = m[a].msg
      /\ \A y \in Nat, p \in Nat :
           Among(wire, y, p) \/ Holds(m, y, p) => Among(wire', y, p) \/ Holds(parts', y, p)
  <2>1. Grown(m, x, wire \o Off(m, n), Advance(m, n))
    BY <1>2, <1>3, <1>4, <1>5, WireGrows
  <2>2. Grown(m, x, wire', parts')
    BY <1>1, <2>1
  <2> QED
    BY <2>2 DEF Grown
<1>7. WireGood'
  BY <1>1, <1>4, <1>6 DEF WireGood
<1>8. Len(queue) = 0 /\ queue' = queue
  BY <1>1
<1>9. Lined'
  <2>1. \A i \in 1 .. Len(parts') : parts'[i].msg = sends'
    BY <1>1, <1>2, <1>6
  <2>2. \A i \in 1 .. Len(queue') : FALSE
    BY <1>8
  <2>3. Ranked(queue') /\ Leading(wire', queue')
    BY <2>2 DEF Ranked, Leading
  <2> QED
    BY <1>6, <2>1, <2>2, <2>3 DEF Lined
<1>10. \A y \in Nat, p \in Nat : Among(wire, y, p) => Among(wire', y, p)
  <2>1. Off(m, n) \in Seq(Nat \X Nat) /\ wire \in Seq(Nat \X Nat)
    BY <1>2, <1>3, OffIs DEF SessionGood, WireGood
  <2> QED
    BY <1>1, <2>1, JoinAmong
<1>11. \A p \in 1 .. Total(m) : Among(wire', sends', p) \/ Holds(parts', sends', p)
  <2>1. \A p \in 1 .. Total(m) : p \in Nat
    BY <1>2
  <2> QED
    BY <1>1, <1>2, <1>4, <1>6, <2>1
<1>12. \A y, p : ~Holds(queue, y, p)
  BY <1>8 DEF Holds
<1>13. \A w \in whole : /\ w = <<w[1], w[2]>> /\ w[1] \in Nat /\ w[2] \in Nat
                        /\ w[1] \notin cut => \A p \in 1 .. w[2] : Among(wire', w[1], p)
  <2> SUFFICES ASSUME NEW w \in whole
               PROVE  /\ w = <<w[1], w[2]>> /\ w[1] \in Nat /\ w[2] \in Nat
                      /\ w[1] \notin cut => \A p \in 1 .. w[2] : Among(wire', w[1], p)
    OBVIOUS
  <2>1. /\ w = <<w[1], w[2]>> /\ w[1] \in Nat /\ w[2] \in Nat
        /\ w[1] \notin cut => \A p \in 1 .. w[2] : Among(wire, w[1], p)
    BY <1>12 DEF SessionGood, AllThere, WireGood
  <2>2. \A p \in 1 .. w[2] : p \in Nat
    BY <2>1
  <2> QED
    BY <1>10, <2>1, <2>2
<1>14. AllThere'
  <2>1. CASE n = Total(m)
    <3>1. Len(parts') = 0
      <4>1. Total(Advance(m, n)) = Total(m) - n
        BY <1>2, <1>3, AdvanceTotal
      <4>2. Total(parts') = 0
        BY <1>1, <1>2, <2>1, <4>1
      <4> QED
        BY <1>6, <4>2, NoBytes
    <3>2. \A p \in 1 .. Total(m) : Among(wire', sends', p)
      BY <1>11, <3>1 DEF Holds
    <3>3. PICK u : u = <<sends', Total(m)>>
      OBVIOUS
    <3>4. u[1] = sends' /\ u[2] = Total(m) /\ u = <<u[1], u[2]>> /\ u[1] \in Nat /\ u[2] \in Nat
      BY <1>1, <1>2, <1>4, <3>3
    <3>5. whole' = whole \cup {u} /\ step' = "idle" /\ size' \in Nat /\ cut' = cut
      BY <1>1, <1>2, <2>1, <3>3
    <3>6. \A w \in whole' : /\ w = <<w[1], w[2]>> /\ w[1] \in Nat /\ w[2] \in Nat
                            /\ w[1] \notin cut' => \A p \in 1 .. w[2] : Among(wire', w[1], p)
      BY <1>13, <3>2, <3>4, <3>5
    <3> QED
      BY <3>5, <3>6 DEF AllThere
  <2>2. CASE n # Total(m)
    <3>1. whole' = whole /\ size' = Total(m) /\ size' \in Nat /\ cut' = cut
      BY <1>1, <1>2, <2>2
    <3> QED
      BY <1>11, <1>13, <3>1 DEF AllThere
  <2> QED
    BY <2>1, <2>2
<1> QED
  BY <1>7, <1>9, <1>14 DEF SessionLeft

LEMMA AppendOrder ==
  ASSUME SessionGood, AppendPart
  PROVE  SessionLeft'
<1>1. PICK c : c = Head(parts)
  OBVIOUS
<1>2. /\ step = "append" /\ step' \in {"append", "high"} /\ queue' = Append(queue, c)
      /\ parts' = Tail(parts) /\ UNCHANGED <<wire, sends, size, whole, cut>>
  BY <1>1 DEF AppendPart
<1>3. queue \in Seq(Pieces) /\ parts \in Seq(Pieces) /\ parts # <<>> /\ sends \in Nat
  BY DEF SessionGood, Counted, AppendPart, WireGood
<1>4. /\ Len(parts) \in Nat \ {0} /\ c = parts[1] /\ Len(parts') = Len(parts) - 1
      /\ \A j \in 1 .. Len(parts') : j + 1 \in 1 .. Len(parts) /\ parts'[j] = parts[j + 1] /\ 1 < j + 1
      /\ 1 \in 1 .. Len(parts)
  BY <1>1, <1>2, <1>3
<1>5. /\ Len(queue) \in Nat /\ Len(queue') = Len(queue) + 1 /\ queue'[Len(queue) + 1] = c
      /\ \A i \in 1 .. Len(queue) : queue'[i] = queue[i]
      /\ \A i \in 1 .. Len(queue') : i \in 1 .. Len(queue) \/ i = Len(queue) + 1
      /\ \A i \in 1 .. Len(queue) : i \in 1 .. Len(queue')
      /\ Len(queue) + 1 \in 1 .. Len(queue')
  <2>1. c \in Pieces
    BY <1>3, <1>4
  <2> QED
    BY <1>2, <1>3, <2>1
<1>6. /\ Ranked(queue) /\ Leading(wire, queue) /\ Ranked(parts) /\ Leading(wire, parts)
      /\ \A i \in 1 .. Len(queue) : queue[i].msg <= sends
      /\ \A i \in 1 .. Len(queue), j \in 1 .. Len(parts) : Precedes(queue[i], parts[j])
      /\ \A j \in 1 .. Len(parts) : parts[j].msg = sends
  BY <1>2 DEF SessionGood, Lined, WireGood
<1>7. Ranked(queue')
  <2> SUFFICES ASSUME NEW i \in 1 .. Len(queue'), NEW j \in 1 .. Len(queue'), i < j
               PROVE  Precedes(queue'[i], queue'[j])
    BY DEF Ranked
  <2>1. i \in 1 .. Len(queue)
    BY <1>5
  <2>2. CASE j \in 1 .. Len(queue)
    BY <1>5, <1>6, <2>1, <2>2 DEF Ranked
  <2>3. CASE j = Len(queue) + 1
    <3>1. queue'[i] = queue[i] /\ queue'[j] = parts[1]
      BY <1>4, <1>5, <2>1, <2>3
    <3> QED
      BY <1>4, <1>6, <2>1, <3>1
  <2> QED
    BY <1>5, <2>2, <2>3
<1>8. Leading(wire, queue')
  <2> SUFFICES ASSUME NEW j \in 1 .. Len(wire), NEW i \in 1 .. Len(queue')
               PROVE  Leads(wire[j], queue'[i])
    BY DEF Leading
  <2>1. CASE i \in 1 .. Len(queue)
    BY <1>5, <1>6, <2>1 DEF Leading
  <2>2. CASE i = Len(queue) + 1
    <3>1. queue'[i] = parts[1]
      BY <1>4, <1>5, <2>2
    <3> QED
      BY <1>4, <1>6, <3>1 DEF Leading
  <2> QED
    BY <1>5, <2>1, <2>2
<1>9. Lined'
  <2>1. \A i \in 1 .. Len(queue') : queue'[i].msg <= sends
    <3>1. c.msg <= sends
      BY <1>3, <1>4, <1>6
    <3> QED
      BY <1>5, <1>6, <3>1
  <2>2. Ranked(parts')
    <3> SUFFICES ASSUME NEW i \in 1 .. Len(parts'), NEW j \in 1 .. Len(parts'), i < j
                 PROVE  Precedes(parts'[i], parts'[j])
      BY DEF Ranked
    <3>1. /\ i + 1 \in 1 .. Len(parts) /\ parts'[i] = parts[i + 1]
          /\ j + 1 \in 1 .. Len(parts) /\ parts'[j] = parts[j + 1]
      BY <1>4
    <3>2. i + 1 < j + 1
      BY <1>4
    <3> QED
      BY <1>6, <3>1, <3>2 DEF Ranked
  <2>3. Leading(wire, parts')
    BY <1>4, <1>6 DEF Leading
  <2>4. ASSUME NEW i \in 1 .. Len(queue'), NEW j \in 1 .. Len(parts')
        PROVE  Precedes(queue'[i], parts'[j])
    <3>1. j + 1 \in 1 .. Len(parts) /\ parts'[j] = parts[j + 1] /\ 1 < j + 1
      BY <1>4
    <3>2. CASE i \in 1 .. Len(queue)
      BY <1>5, <1>6, <3>1, <3>2
    <3>3. CASE i = Len(queue) + 1
      <4>1. queue'[i] = parts[1]
        BY <1>4, <1>5, <3>3
      <4> QED
        BY <1>4, <1>6, <3>1, <4>1 DEF Ranked
    <3> QED
      BY <1>5, <3>2, <3>3
  <2>5. \A j \in 1 .. Len(parts') : parts'[j].msg = sends
    BY <1>4, <1>6
  <2> QED
    BY <1>2, <1>7, <1>8, <2>1, <2>2, <2>3, <2>4, <2>5 DEF Lined
<1>10. \A x, p : Holds(queue, x, p) => Holds(queue', x, p)
  <2> SUFFICES ASSUME NEW x, NEW p, Holds(queue, x, p) PROVE Holds(queue', x, p)
    OBVIOUS
  <2>1. PICK i \in 1 .. Len(queue) :
          queue[i].msg = x /\ queue[i].off < p /\ p <= queue[i].off + queue[i].len
    BY DEF Holds
  <2>2. i \in 1 .. Len(queue') /\ queue'[i] = queue[i]
    BY <1>5
  <2> QED
    BY <2>1, <2>2 DEF Holds
<1>11. \A x, p : Holds(parts, x, p) => Holds(queue', x, p) \/ Holds(parts', x, p)
  <2> SUFFICES ASSUME NEW x, NEW p, Holds(parts, x, p) PROVE Holds(queue', x, p) \/ Holds(parts', x, p)
    OBVIOUS
  <2>1. PICK i \in 1 .. Len(parts) :
          parts[i].msg = x /\ parts[i].off < p /\ p <= parts[i].off + parts[i].len
    BY DEF Holds
  <2>2. CASE i = 1
    <3>1. Len(queue) + 1 \in 1 .. Len(queue') /\ queue'[Len(queue) + 1] = parts[i]
      BY <1>4, <1>5, <2>2
    <3> QED
      BY <2>1, <3>1 DEF Holds
  <2>3. CASE i # 1
    <3>1. i - 1 \in 1 .. Len(parts') /\ (i - 1) + 1 = i
      BY <1>4, <2>3
    <3>2. parts'[i - 1] = parts[i]
      BY <1>4, <3>1
    <3> QED
      BY <2>1, <3>1, <3>2 DEF Holds
  <2> QED
    BY <2>2, <2>3
<1>12. AllThere'
  <2>1. size' \in Nat
    BY <1>2 DEF SessionGood, AllThere, WireGood
  <2>2. ASSUME NEW w \in whole
        PROVE  /\ w = <<w[1], w[2]>> /\ w[1] \in Nat /\ w[2] \in Nat
               /\ w[1] \notin cut => \A p \in 1 .. w[2] : Among(wire, w[1], p) \/ Holds(queue', w[1], p)
    BY <1>10 DEF SessionGood, AllThere, WireGood
  <2>3. sends \notin cut =>
          \A p \in 1 .. size : Among(wire, sends, p) \/ Holds(queue', sends, p) \/ Holds(parts', sends, p)
    BY <1>2, <1>10, <1>11 DEF SessionGood, AllThere, WireGood
  <2> QED
    BY <1>2, <2>1, <2>2, <2>3 DEF AllThere
<1> QED
  BY <1>2, <1>9, <1>12 DEF SessionLeft, WireGood, SessionGood

LEMMA FlushOrder ==
  ASSUME SessionGood, NEW n, FlushRound(n)
  PROVE  SessionLeft'
<1>1. /\ step = "flush" /\ wire' = wire \o Off(queue, n) /\ queue' = Advance(queue, n)
      /\ UNCHANGED <<sends, step, size, whole, cut>>
  BY DEF FlushRound, Off
<1>2. queue \in Seq(Pieces) /\ sends \in Nat /\ Total(queue) \in Nat
  BY QueueIs DEF SessionGood, Counted, WireGood
<1>3. n \in 0 .. Total(queue)
  <2>1. Total(Offered) \in Nat /\ Total(Offered) <= Total(queue)
    BY <1>2, OfferedIs
  <2>2. n \in 1 .. Total(Offered)
    BY <2>1, SentIs DEF FlushRound
  <2> QED
    BY <1>2, <2>1, <2>2
<1>4. /\ WireGood /\ Ranked(queue) /\ Leading(wire, queue) /\ sends <= sends
      /\ \A i \in 1 .. Len(queue) : queue[i].msg <= sends
  BY <1>2 DEF SessionGood, WireGood, Lined
<1>5. Grown(queue, sends, wire', queue')
  <2>1. Grown(queue, sends, wire \o Off(queue, n), Advance(queue, n))
    BY <1>2, <1>3, <1>4, WireGrows
  <2> QED
    BY <1>1, <2>1
<1>6. WireGood'
  BY <1>1, <1>5 DEF Grown, WireGood
<1>7. Lined'
  <2>1. \A i \in 1 .. Len(queue') : queue'[i].msg <= sends
    BY <1>4, <1>5 DEF Grown
  <2> QED
    BY <1>1, <1>5, <2>1 DEF Grown, Lined
<1>8. AllThere'
  <2>1. ASSUME NEW w \in whole
        PROVE  /\ w = <<w[1], w[2]>> /\ w[1] \in Nat /\ w[2] \in Nat
               /\ w[1] \notin cut => \A p \in 1 .. w[2] : Among(wire', w[1], p) \/ Holds(queue', w[1], p)
    <3>1. /\ w = <<w[1], w[2]>> /\ w[1] \in Nat /\ w[2] \in Nat
          /\ w[1] \notin cut => \A p \in 1 .. w[2] : Among(wire, w[1], p) \/ Holds(queue, w[1], p)
      BY DEF SessionGood, AllThere, WireGood
    <3>2. \A p \in 1 .. w[2] : p \in Nat
      BY <3>1
    <3> QED
      BY <1>5, <3>1, <3>2 DEF Grown
  <2>2. size' \in Nat
    BY <1>1 DEF SessionGood, AllThere, WireGood
  <2> QED
    BY <1>1, <2>1, <2>2 DEF AllThere
<1> QED
  BY <1>6, <1>7, <1>8 DEF SessionLeft

LEMMA DiscardOrder ==
  ASSUME SessionGood, Discard
  PROVE  SessionLeft'
<1>1. /\ queue' = <<>> /\ cut' = cut \cup {queue[i].msg : i \in DOMAIN queue}
      /\ UNCHANGED <<wire, sends, step, parts, size, whole>>
  BY DEF Discard
<1>2. DOMAIN queue = 1 .. Len(queue)
  BY DEF SessionGood, Counted, WireGood
<1>3. \A i \in 1 .. Len(queue') : FALSE
  BY <1>1
<1>4. \A x, p : x \notin cut' => x \notin cut /\ ~Holds(queue, x, p)
  BY <1>1, <1>2 DEF Holds
<1>5. Lined'
  BY <1>1, <1>3 DEF SessionGood, Lined, Ranked, Leading, WireGood
<1>6. AllThere'
  <2>1. \A w \in whole : /\ w = <<w[1], w[2]>> /\ w[1] \in Nat /\ w[2] \in Nat
                         /\ w[1] \notin cut' => \A p \in 1 .. w[2] : Among(wire, w[1], p)
    BY <1>4 DEF SessionGood, AllThere, WireGood
  <2>2. step \in {"append", "high"} /\ sends \notin cut' =>
          \A p \in 1 .. size : Among(wire, sends, p) \/ Holds(parts, sends, p)
    BY <1>4 DEF SessionGood, AllThere, WireGood
  <2>3. size' \in Nat
    BY <1>1 DEF SessionGood, AllThere, WireGood
  <2> QED
    BY <1>1, <2>1, <2>2, <2>3 DEF AllThere
<1> QED
  BY <1>1, <1>5, <1>6 DEF SessionLeft, WireGood, SessionGood

\* The steps that move no byte.
LEMMA StillOrder ==
  ASSUME SessionGood,
         \/ \E m \in Messages : SendError(m)
         \/ AppendFails \/ AppendDone \/ HighReturns \/ FlushReturns \/ FlushCall \/ SessionClose
  PROVE  SessionLeft'
<1>1. CASE SessionClose
  BY <1>1 DEF SessionClose, SessionLeft, WireGood, SessionGood
<1>2. CASE \E m \in Messages : SendError(m)
  <2>1. PICK m \in Messages : SendError(m)
    BY <1>2
  <2>2. /\ sends' = sends + 1 /\ size' = Total(m) /\ step' \in {"idle", "killed"}
        /\ UNCHANGED <<wire, queue, parts, whole, cut>>
    BY <2>1 DEF SendError, Begin
  <2>3. sends \in Nat /\ Total(m) \in Nat
    BY NewMessage
  <2>4. \A i \in 1 .. Len(queue) : queue[i].msg <= sends + 1
    <3>1. \A i \in 1 .. Len(queue) : queue[i].msg \in Nat /\ queue[i].msg <= sends
      BY QueueIs DEF SessionGood, Counted, Lined, Pieces
    <3>2. sends \in Nat
      BY <2>3
    <3> QED
      BY <3>1, <3>2
  <2>5. \A j \in 1 .. Len(wire) : wire[j][1] <= sends + 1
    BY <2>3 DEF SessionGood, WireGood
  <2>6. Lined' /\ AllThere'
    BY <2>2, <2>3, <2>4 DEF SessionGood, Lined, AllThere, WireGood
  <2> QED
    BY <2>2, <2>5, <2>6 DEF SessionLeft, WireGood, SessionGood
<1>3. CASE AppendFails \/ HighReturns \/ FlushReturns \/ FlushCall
  <2>1. /\ UNCHANGED <<wire, queue, sends, size, whole, cut>>
        /\ step' \in {"idle", "killed", "flush"} \/ (step \in {"append", "high"} /\ parts' = parts)
    BY <1>3 DEF AppendFails, HighReturns, FlushReturns, FlushCall
  <2>2. Lined' /\ AllThere'
    BY <2>1 DEF SessionGood, Lined, AllThere, WireGood
  <2> QED
    BY <2>1, <2>2 DEF SessionLeft, WireGood, SessionGood
<1>4. CASE AppendDone
  <2>1. /\ UNCHANGED <<wire, queue, sends, size, cut>> /\ step = "append" /\ parts = <<>>
        /\ step' \in {"idle", "flush"} /\ whole' = whole \cup {<<sends, size>>}
    BY <1>4 DEF AppendDone
  <2>2. sends \in Nat /\ size \in Nat
    BY DEF SessionGood, Counted, AllThere, WireGood
  <2>3. PICK u : u = <<sends, size>>
    OBVIOUS
  <2>4. u[1] = sends /\ u[2] = size /\ u = <<u[1], u[2]>> /\ u[1] \in Nat /\ u[2] \in Nat
    BY <2>2, <2>3
  <2>5. \A x, p : ~Holds(parts, x, p)
    BY <2>1 DEF Holds
  <2>6. sends \notin cut => \A p \in 1 .. size : Among(wire, sends, p) \/ Holds(queue, sends, p)
    BY <2>1, <2>5 DEF SessionGood, AllThere, WireGood
  <2>7. Lined'
    BY <2>1 DEF SessionGood, Lined, WireGood
  <2>8. AllThere'
    <3>1. \A w \in whole \cup {u} :
             /\ w = <<w[1], w[2]>> /\ w[1] \in Nat /\ w[2] \in Nat
             /\ w[1] \notin cut => \A p \in 1 .. w[2] : Among(wire, w[1], p) \/ Holds(queue, w[1], p)
      BY <2>4, <2>6 DEF SessionGood, AllThere, WireGood
    <3> QED
      BY <2>1, <2>2, <2>3, <3>1 DEF AllThere
  <2> QED
    BY <2>1, <2>7, <2>8 DEF SessionLeft, WireGood, SessionGood
<1> QED
  BY <1>1, <1>2, <1>3, <1>4

LEMMA SessionOrder ==
  ASSUME SessionGood, SessionNext
  PROVE  SessionLeft'
<1>1. CASE \E m \in Messages : SendQueued(m) \/ SendAgain(m)
  BY <1>1, QueuedSendOrder
<1>2. CASE \E m \in Messages : \E n \in Taken(Total(m)) : SendDirect(m, n)
  BY <1>2, DirectSendOrder
<1>3. CASE AppendPart
  BY <1>3, AppendOrder
<1>4. CASE \E n \in Taken(bytes) : FlushRound(n)
  BY <1>4, FlushOrder
<1>5. CASE Discard
  BY <1>5, DiscardOrder
<1>6. CASE \/ \E m \in Messages : SendError(m)
           \/ AppendFails \/ AppendDone \/ HighReturns \/ FlushReturns \/ FlushCall \/ SessionClose
  BY <1>6, StillOrder
<1> QED
  BY <1>1, <1>2, <1>3, <1>4, <1>5, <1>6 DEF SessionNext, SessionCall, SessionStep

-----------------------------------------------------------------------------
(* The clients keep the order                                              *)

\* What a client finds and leaves: nothing but the wire and the messages queued.
Sending == sends \in Nat /\ Wired /\ Queued

LEMMA JoinOrdered ==
  ASSUME NEW w \in Seq(Nat \X Nat), NEW f \in Seq(Nat \X Nat), NEW a, Ordered(w, a), Ordered(f, a),
         \A i \in 1 .. Len(w), j \in 1 .. Len(f) : InOrder(w[i], f[j], a)
  PROVE  Ordered(w \o f, a)
<1>1. PICK s : s = w \o f
  OBVIOUS
<1>2. /\ Len(s) = Len(w) + Len(f) /\ Len(w) \in Nat /\ Len(f) \in Nat
      /\ \A i \in 1 .. Len(w) : s[i] = w[i]
      /\ \A j \in 1 .. Len(f) : s[Len(w) + j] = f[j]
      /\ \A k \in 1 .. Len(w) + Len(f) : k \in 1 .. Len(w) \/ \E j \in 1 .. Len(f) : k = Len(w) + j
  BY <1>1, JoinIs
<1> SUFFICES ASSUME NEW i \in 1 .. Len(w) + Len(f), NEW k \in 1 .. Len(w) + Len(f), i < k
             PROVE  InOrder(s[i], s[k], a)
  BY <1>1, <1>2 DEF Ordered
<1>3. CASE k \in 1 .. Len(w)
  <2>1. i \in 1 .. Len(w)
    BY <1>2, <1>3
  <2> QED
    BY <1>2, <1>3, <2>1 DEF Ordered
<1>4. CASE k \notin 1 .. Len(w)
  <2>1. PICK j \in 1 .. Len(f) : k = Len(w) + j
    BY <1>2, <1>4
  <2>2. CASE i \in 1 .. Len(w)
    BY <1>2, <2>1, <2>2
  <2>3. CASE i \notin 1 .. Len(w)
    <3>1. PICK h \in 1 .. Len(f) : i = Len(w) + h
      BY <1>2, <2>3
    <3>2. h < j
      BY <1>2, <2>1, <3>1
    <3> QED
      BY <1>2, <2>1, <3>1, <3>2 DEF Ordered
  <2> QED
    BY <2>2, <2>3
<1> QED
  BY <1>3, <1>4

LEMMA SortedIsOrdered ==
  ASSUME NEW s, NEW a, Sorted(s)
  PROVE  Ordered(s, a)
BY DEF Sorted, Ordered, InOrder

LEMMA NothingQueued ==
  ASSUME pend' = <<>>
  PROVE  Queued'
<1>1. pend' \in Seq(Nat) /\ \A i \in 1 .. Len(pend') : FALSE
  OBVIOUS
<1> QED
  BY <1>1 DEF Queued

\* A message sent after all others.
LEMMA NewOnWire ==
  ASSUME sends \in Nat, Wired, NEW f \in Seq(Nat \X Nat), Sorted(f),
         \A j \in 1 .. Len(f) : f[j][1] > sends /\ f[j][1] <= sends',
         sends' \in Nat, sends <= sends', wire' = wire \o f, ahead \subseteq ahead'
  PROVE  Wired'
<1>1. /\ wire \in Seq(Nat \X Nat) /\ Ordered(wire, ahead')
      /\ \A i \in 1 .. Len(wire) : wire[i][1] \in Nat /\ wire[i][1] <= sends
  <2>1. PICK a : a = ahead'
    OBVIOUS
  <2>2. Ordered(wire, a)
    BY <2>1 DEF Wired, Ordered, InOrder
  <2> QED
    BY <2>1, <2>2 DEF Wired
<1>2. \A j \in 1 .. Len(f) : f[j][1] \in Nat
  OBVIOUS
<1>3. \A i \in 1 .. Len(wire), j \in 1 .. Len(f) : Before(wire[i], f[j])
  <2> SUFFICES ASSUME NEW i \in 1 .. Len(wire), NEW j \in 1 .. Len(f) PROVE wire[i][1] < f[j][1]
    BY DEF Before
  <2>1. wire[i][1] \in Nat /\ wire[i][1] <= sends
    BY <1>1
  <2>2. f[j][1] \in Nat /\ sends < f[j][1]
    BY <1>2
  <2> QED
    BY <2>1, <2>2, UpTo, Zenon
<1>4. Ordered(wire \o f, ahead')
  <2>1. PICK a : a = ahead'
    OBVIOUS
  <2>2. wire \in Seq(Nat \X Nat) /\ Ordered(wire, a) /\ Ordered(f, a)
    BY <1>1, <2>1, SortedIsOrdered
  <2>3. \A i \in 1 .. Len(wire), j \in 1 .. Len(f) : InOrder(wire[i], f[j], a)
    BY <1>3 DEF InOrder
  <2> QED
    BY <2>1, <2>2, <2>3, JoinOrdered
<1>5. PICK x \in Nat : x = sends'
  OBVIOUS
<1>6. \A i \in 1 .. Len(wire) : wire[i][1] <= x
  <2>1. sends \in Nat /\ sends <= x
    BY <1>5
  <2> QED
    BY <1>1, <2>1
<1>7. \A k \in 1 .. Len(wire \o f) : (wire \o f)[k][1] <= x
  BY <1>1, <1>5, <1>6, JoinMessages
<1>8. wire \o f \in Seq(Nat \X Nat)
  BY <1>1
<1> QED
  BY <1>4, <1>5, <1>7, <1>8 DEF Wired

LEMMA TcpOrder ==
  ASSUME Sending, kind = "tcp", Tcp
  PROVE  Sending'
<1>1. pend = <<>> /\ pend' = pend /\ ahead' = ahead
  BY DEF Sending, Queued, Tcp, tlsVars
<1>2. Queued'
  BY <1>1, NothingQueued
<1>3. CASE \E len, n : len \in 1 .. MaxLen /\ Send(len, n)
  <2>1. PICK len, n : len \in 1 .. MaxLen /\ Send(len, n)
    BY <1>3
  <2>2. sends' = sends + 1 /\ wire' = wire \o Bytes(sends', 0, n) /\ n \in {0} \cup Sent(sk, len)
    BY <2>1 DEF Send
  <2>3. sends \in Nat /\ Wired /\ len \in Nat
    BY <2>1, SessionOutAssumption DEF Sending
  <2>4. n \in Nat
    <3>1. n \in Sent(sk, len) => n \in 1 .. len
      BY <2>3, SentIs
    <3> QED
      BY <2>2, <2>3, <3>1
  <2>5. PICK x \in Nat : x = sends + 1
    BY <2>3
  <2>6. PICK f : f = Bytes(x, 0, n)
    OBVIOUS
  <2>7. f \in Seq(Nat \X Nat) /\ Len(f) = n /\ \A i \in 1 .. n : f[i] = <<x, 0 + i>>
    <3>1. f = [i \in 1 .. n |-> <<x, 0 + i>>]
      BY <2>6 DEF Bytes
    <3>2. \A i \in 1 .. n : <<x, 0 + i>> \in Nat \X Nat
      BY <2>4
    <3> QED
      BY <2>4, <3>1, <3>2
  <2>8. Sorted(f)
    <3> SUFFICES ASSUME NEW i \in 1 .. n, NEW j \in 1 .. n, i < j PROVE Before(f[i], f[j])
      BY <2>7 DEF Sorted
    <3>1. f[i] = <<x, 0 + i>> /\ f[j] = <<x, 0 + j>> /\ 0 + i < 0 + j
      BY <2>4, <2>7
    <3> QED
      BY <3>1 DEF Before
  <2>9. \A j \in 1 .. Len(f) : f[j][1] > sends /\ f[j][1] <= sends'
    BY <2>2, <2>3, <2>5, <2>7
  <2>10. Wired'
    <3>1. sends' \in Nat /\ sends <= sends' /\ wire' = wire \o f /\ ahead \subseteq ahead'
      BY <1>1, <2>2, <2>3, <2>5, <2>6
    <3> QED
      BY <2>3, <2>7, <2>8, <2>9, <3>1, NewOnWire
  <2> QED
    BY <1>2, <2>2, <2>5, <2>10 DEF Sending
<1>4. CASE UNCHANGED <<wire, sends>>
  BY <1>1, <1>2, <1>4 DEF Sending, Wired
<1> QED
  BY <1>3, <1>4 DEF Tcp, TcpNext, Connect, Close, Destroy, Poll, PollerCb, ClientStep, OnWritable, OnReadable,
     FireError, ErrorReturns

\* Records(pend) in the order of the calls, behind what was not sent ahead.
LEMMA RecordsAre ==
  ASSUME Sending
  PROVE  /\ Records(pend) \in Seq(Nat \X Nat) /\ Len(Records(pend)) = Len(pend) /\ Sorted(Records(pend))
         /\ \A j \in 1 .. Len(pend) : Records(pend)[j][1] <= sends
         /\ \A i \in 1 .. Len(wire), j \in 1 .. Len(pend) : InOrder(wire[i], Records(pend)[j], ahead)
<1>1. /\ pend \in Seq(Nat) /\ \A i, j \in 1 .. Len(pend) : i < j => pend[i] < pend[j]
      /\ \A i \in 1 .. Len(pend) : pend[i] <= sends
      /\ \A j \in 1 .. Len(wire), i \in 1 .. Len(pend) :
           wire[j][1] < pend[i] \/ (wire[j][1] \in ahead /\ pend[i] < wire[j][1])
  BY DEF Sending, Queued
<1>2. PICK f : f = Records(pend)
  OBVIOUS
<1>3. f = [i \in 1 .. Len(pend) |-> <<pend[i], 1>>]
  BY <1>1, <1>2 DEF Records
<1>4. Len(pend) \in Nat /\ \A i \in 1 .. Len(pend) : <<pend[i], 1>> \in Nat \X Nat
  BY <1>1
<1>5. f \in Seq(Nat \X Nat) /\ Len(f) = Len(pend) /\ \A i \in 1 .. Len(pend) : f[i] = <<pend[i], 1>>
  BY <1>3, <1>4
<1>6. \A i \in 1 .. Len(pend) : f[i][1] = pend[i]
  BY <1>5
<1>7. Sorted(f)
  BY <1>1, <1>5, <1>6 DEF Sorted, Before
<1> QED
  BY <1>1, <1>2, <1>5, <1>6, <1>7 DEF Before, InOrder

\* A TLS send puts the message behind those queued, or on the wire when none is or when
\* on_connect sends it.
LEMMA TlsSendOrder ==
  ASSUME Sending, kind = "tls", kind' = "tls",
         SendEarly \/ SendReady \/ \E out \in BOOLEAN : SendWaits(out)
  PROVE  Sending'
<1>1. /\ sends \in Nat /\ sends' = sends + 1 /\ sends' \in Nat /\ Wired /\ Queued
      /\ ahead \subseteq ahead'
  BY DEF Sending, SendEarly, SendReady, SendWaits
<1>2. CASE SendReady
  <2>1. /\ wire' = Append(wire, <<sends + 1, 1>>) /\ MaySend /\ state = "ready" /\ owed = "none"
        /\ UNCHANGED <<pend, state, owed, at>>
        /\ at = "hello" /\ pend # <<>> => ahead' = ahead \cup {sends + 1}
    BY <1>1, <1>2 DEF SendReady, clientVars
  <2>2. pend # <<>> => at = "hello" /\ sends + 1 \in ahead'
    BY <1>1, <2>1 DEF MaySend, Queued
  <2>3. PICK f : f = <<<<sends + 1, 1>>>>
    OBVIOUS
  <2>4. f \in Seq(Nat \X Nat) /\ Len(f) = 1 /\ f[1] = <<sends + 1, 1>>
    BY <1>1, <2>3
  <2>5. wire' = wire \o f
    <3>1. PICK e : e = <<sends + 1, 1>>
      OBVIOUS
    <3>2. e \in Nat \X Nat /\ wire \in Seq(Nat \X Nat) /\ wire' = Append(wire, e) /\ f = <<e>>
      BY <1>1, <2>1, <2>3, <3>1 DEF Wired
    <3> QED
      BY <3>2, AppendIsConcat
  <2>6. Sorted(f) /\ \A j \in 1 .. Len(f) : f[j][1] > sends /\ f[j][1] <= sends'
    BY <1>1, <2>4 DEF Sorted
  <2>7. Wired'
    <3>1. sends <= sends'
      BY <1>1
    <3> QED
      BY <1>1, <2>4, <2>5, <2>6, <3>1, NewOnWire
  <2>8. CASE pend = <<>>
    BY <1>1, <2>1, <2>7, <2>8, NothingQueued DEF Sending
  <2>9. CASE pend # <<>>
    <3>1. /\ pend \in Seq(Nat) /\ \A i, j \in 1 .. Len(pend) : i < j => pend[i] < pend[j]
          /\ \A i \in 1 .. Len(pend) : pend[i] \in Nat /\ pend[i] <= sends
          /\ \A j \in 1 .. Len(wire), i \in 1 .. Len(pend) :
               wire[j][1] < pend[i] \/ (wire[j][1] \in ahead /\ pend[i] < wire[j][1])
      BY <1>1 DEF Queued
    <3>2. \A i \in 1 .. Len(pend) : pend[i] <= sends' /\ pend[i] < sends + 1
      BY <1>1, <3>1
    <3>3. /\ Len(wire) \in Nat /\ Len(wire') = Len(wire) + 1
          /\ \A j \in 1 .. Len(wire) : wire'[j] = wire[j]
          /\ wire'[Len(wire) + 1] = <<sends + 1, 1>>
          /\ \A j \in 1 .. Len(wire') : j \in 1 .. Len(wire) \/ j = Len(wire) + 1
      BY <2>1, <1>1 DEF Wired
    <3>4. wire'[Len(wire) + 1][1] = sends + 1
      BY <3>3
    <3>5. ASSUME NEW j \in 1 .. Len(wire'), NEW i \in 1 .. Len(pend)
          PROVE  wire'[j][1] < pend[i] \/ (wire'[j][1] \in ahead' /\ pend[i] < wire'[j][1])
      <4>1. CASE j \in 1 .. Len(wire)
        BY <1>1, <3>1, <3>3, <4>1
      <4>2. CASE j = Len(wire) + 1
        BY <2>2, <2>9, <3>2, <3>4, <4>2
      <4> QED
        BY <3>3, <4>1, <4>2
    <3>6. Queued'
      BY <2>1, <2>2, <2>9, <3>1, <3>2, <3>5 DEF Queued
    <3> QED
      BY <1>1, <2>7, <3>6 DEF Sending
  <2> QED
    BY <2>8, <2>9
<1>3. CASE SendEarly \/ \E out \in BOOLEAN : SendWaits(out)
  <2>1. /\ UNCHANGED <<wire, at, ahead>> /\ pend' \in {pend, Append(pend, sends + 1)}
        /\ ~(state' = "ready" /\ owed' = "none")
    BY <1>1, <1>3 DEF SendEarly, SendWaits, clientVars
  <2>2. \A j \in 1 .. Len(wire) : wire[j][1] \in Nat /\ wire[j][1] <= sends
    BY <1>1 DEF Wired
  <2>3. Wired'
    <3>1. wire' = wire /\ ahead' = ahead
      BY <2>1
    <3>2. \A j \in 1 .. Len(wire) : wire[j][1] <= sends'
      BY <1>1, <2>2
    <3> QED
      BY <1>1, <3>1, <3>2 DEF Wired, Ordered
  <2>4. /\ pend \in Seq(Nat) /\ \A i, j \in 1 .. Len(pend) : i < j => pend[i] < pend[j]
        /\ \A i \in 1 .. Len(pend) : pend[i] \in Nat /\ pend[i] <= sends
        /\ \A j \in 1 .. Len(wire), i \in 1 .. Len(pend) :
             wire[j][1] < pend[i] \/ (wire[j][1] \in ahead /\ pend[i] < wire[j][1])
    BY <1>1 DEF Queued
  <2>5. CASE pend' = pend
    <3>1. ASSUME NEW i \in 1 .. Len(pend) PROVE pend[i] <= sends'
      <4>1. pend[i] \in Nat /\ pend[i] <= sends
        BY <2>4
      <4> QED
        BY <1>1, <4>1
    <3>2. Queued'
      BY <2>1, <2>4, <2>5, <3>1 DEF Queued
    <3> QED
      BY <1>1, <2>3, <3>2 DEF Sending
  <2>6. CASE pend' = Append(pend, sends + 1)
    <3>1. /\ pend' \in Seq(Nat) /\ Len(pend) \in Nat /\ Len(pend') = Len(pend) + 1
          /\ \A i \in 1 .. Len(pend) : pend'[i] = pend[i]
          /\ pend'[Len(pend) + 1] = sends + 1
          /\ \A i \in 1 .. Len(pend') : i \in 1 .. Len(pend) \/ i = Len(pend) + 1
      BY <1>1, <2>4, <2>6
    <3>2. ASSUME NEW i \in 1 .. Len(pend') PROVE pend'[i] <= sends'
      <4>1. CASE i \in 1 .. Len(pend)
        <5>1. pend'[i] = pend[i] /\ pend[i] \in Nat /\ pend[i] <= sends
          BY <2>4, <3>1, <4>1
        <5> QED
          BY <1>1, <5>1
      <4>2. CASE i = Len(pend) + 1
        BY <1>1, <3>1, <4>2
      <4> QED
        BY <3>1, <4>1, <4>2
    <3>3. ASSUME NEW i \in 1 .. Len(pend'), NEW j \in 1 .. Len(pend'), i < j PROVE pend'[i] < pend'[j]
      <4>1. i \in 1 .. Len(pend)
        BY <3>1, <3>3
      <4>2. CASE j \in 1 .. Len(pend)
        <5>1. pend'[i] = pend[i] /\ pend'[j] = pend[j]
          BY <3>1, <4>1, <4>2
        <5>2. pend[i] < pend[j]
          BY <2>4, <3>3, <4>1, <4>2
        <5> QED
          BY <5>1, <5>2
      <4>3. CASE j = Len(pend) + 1
        <5>1. pend'[i] = pend[i] /\ pend'[j] = sends + 1
          BY <3>1, <4>1, <4>3
        <5>2. pend[i] \in Nat /\ pend[i] <= sends
          BY <2>4, <4>1
        <5> QED
          BY <1>1, <5>1, <5>2
      <4> QED
        BY <3>1, <4>2, <4>3
    <3>4. ASSUME NEW j \in 1 .. Len(wire), NEW i \in 1 .. Len(pend')
          PROVE  wire[j][1] < pend'[i] \/ (wire[j][1] \in ahead /\ pend'[i] < wire[j][1])
      <4>1. CASE i \in 1 .. Len(pend)
        BY <2>4, <3>1, <4>1
      <4>2. CASE i = Len(pend) + 1
        BY <1>1, <2>2, <3>1, <4>2
      <4> QED
        BY <3>1, <4>1, <4>2
    <3>5. Queued'
      BY <2>1, <3>1, <3>2, <3>3, <3>4 DEF Queued
    <3> QED
      BY <1>1, <2>3, <3>5 DEF Sending
  <2> QED
    BY <2>1, <2>5, <2>6
<1> QED
  BY <1>2, <1>3

LEMMA TlsFlushOrder ==
  ASSUME Sending, kind = "tls", kind' = "tls", FlushPending
  PROVE  Sending'
<1>1. /\ sends \in Nat /\ sends' = sends /\ state' = state /\ at = "flush" /\ Wired /\ Queued
      /\ ahead' = ahead
  BY DEF Sending, FlushPending
<1>2. CASE wire' = wire \o Records(pend) /\ pend' = <<>>
  <2>1. /\ Records(pend) \in Seq(Nat \X Nat) /\ Len(Records(pend)) = Len(pend) /\ Sorted(Records(pend))
        /\ \A j \in 1 .. Len(pend) : Records(pend)[j][1] <= sends
        /\ \A i \in 1 .. Len(wire), j \in 1 .. Len(pend) : InOrder(wire[i], Records(pend)[j], ahead)
    BY RecordsAre
  <2>2. PICK f : f = Records(pend)
    OBVIOUS
  <2>3. wire \in Seq(Nat \X Nat) /\ Ordered(wire, ahead) /\ \A j \in 1 .. Len(wire) : wire[j][1] <= sends
    BY <1>1 DEF Wired
  <2>4. Ordered(wire \o f, ahead)
    <3>1. Ordered(f, ahead)
      BY <2>1, <2>2, SortedIsOrdered
    <3> QED
      BY <2>1, <2>2, <2>3, <3>1, JoinOrdered
  <2>5. \A k \in 1 .. Len(wire \o f) : (wire \o f)[k][1] <= sends
    BY <1>1, <2>1, <2>2, <2>3, JoinMessages
  <2>6. wire \o f \in Seq(Nat \X Nat)
    BY <2>1, <2>2, <2>3
  <2>7. Wired'
    BY <1>1, <1>2, <2>2, <2>4, <2>5, <2>6 DEF Wired
  <2> QED
    BY <1>1, <1>2, <2>7, NothingQueued DEF Sending
<1>3. CASE UNCHANGED <<wire, pend>>
  <2>1. Wired'
    BY <1>1, <1>3 DEF Wired
  <2>2. state' = "ready" /\ owed' = "none" /\ pend' # <<>> => at' \in {"hello", "flush", "fail"}
    BY <1>1, <1>3 DEF FlushPending
  <2>3. Queued'
    BY <1>1, <1>3, <2>2 DEF Queued
  <2> QED
    BY <1>1, <2>1, <2>3 DEF Sending
<1> QED
  BY <1>2, <1>3 DEF FlushPending

LEMMA TlsOrder ==
  ASSUME Sending, kind = "tls", Tls
  PROVE  Sending'
<1>1. kind' = "tls" /\ TlsNext(MaxSends)
  BY DEF Tls, partVars
<1>2. CASE SendEarly \/ SendReady \/ \E out \in BOOLEAN : SendWaits(out)
  BY <1>1, <1>2, TlsSendOrder
<1>3. CASE FlushPending
  BY <1>1, <1>3, TlsFlushOrder
<1>4. CASE TlsConnect \/ TlsClose \/ TlsDestroy \/ SendFails \/ TlsFireError
  <2>1. wire' = wire /\ sends' \in {sends, sends + 1} /\ pend' = <<>> /\ ahead' = ahead
    BY <1>4 DEF TlsConnect, TlsClose, TlsDestroy, SendFails, TlsFireError, Reset
  <2>2. sends \in Nat /\ sends' \in Nat /\ sends <= sends'
    BY <2>1 DEF Sending
  <2>3. Wired'
    <3>1. \A j \in 1 .. Len(wire) : wire[j][1] \in Nat /\ wire[j][1] <= sends
      BY DEF Sending, Wired
    <3>2. \A j \in 1 .. Len(wire) : wire[j][1] <= sends'
      BY <2>2, <3>1
    <3> QED
      BY <2>1, <3>2 DEF Sending, Wired
  <2> QED
    BY <2>1, <2>2, <2>3, NothingQueued DEF Sending
<1>5. CASE \/ UNCHANGED tlsVars /\ (PollerCb \/ \E e \in EventSets(sk) : Poll(e))
           \/ TlsWritable \/ TlsReadable \/ StartSsl \/ TlsHandshake
           \/ HelloReturns \/ DrainPlain \/ RecvReturns
  <2>1. /\ UNCHANGED <<wire, sends, pend, ahead>>
        /\ \/ UNCHANGED <<state, owed>> /\ (at \notin {"hello", "flush", "fail"} \/ at' = "flush")
           \/ state' = "hs" \/ at' \in {"hello", "fail"}
           \/ at = "shake" /\ state' = state /\ owed' \in {"read", "write"}
    BY <1>5 DEF PollerCb, Poll, TlsWritable, TlsReadable, StartSsl, TlsHandshake, Shaken, ShakeFails,
       ShakeWaits, HelloReturns, DrainPlain, RecvReturns, tlsVars
  <2>2. state' = "ready" /\ owed' = "none" /\ pend' # <<>> => at' \in {"hello", "flush", "fail"}
    BY <2>1 DEF Sending, Queued
  <2>3. Queued'
    BY <1>1, <2>1, <2>2 DEF Sending, Queued
  <2> QED
    BY <2>1, <2>3 DEF Sending, Wired
<1> QED
  BY <1>1, <1>2, <1>3, <1>4, <1>5 DEF TlsNext, TlsStep

-----------------------------------------------------------------------------
(* The order of the wire                                                   *)

LEMMA OrderInit == Init => OrderInv
<1> SUFFICES ASSUME Init PROVE OrderInv
  OBVIOUS
<1>1. /\ wire = <<>> /\ queue = <<>> /\ whole = {} /\ step = "idle" /\ pend = <<>> /\ size = 0
  BY DEF Init, SessionInit, TlsInit
<1>2. /\ wire \in Seq(Nat \X Nat) /\ pend \in Seq(Nat)
      /\ \A i \in 1 .. Len(wire) : FALSE
      /\ \A i \in 1 .. Len(queue) : FALSE
      /\ \A i \in 1 .. Len(pend) : FALSE
  BY <1>1
<1>3. Lined /\ AllThere /\ Queued /\ Sorted(wire) /\ Ordered(wire, ahead)
  BY <1>1, <1>2 DEF Lined, AllThere, Queued, Sorted, Ordered, Ranked, Leading
<1> QED
  BY <1>1, <1>2, <1>3 DEF OrderInv, WireGood, Wired

LEMMA OrderStep ==
  ASSUME Counted, OrderInv, [Next]_vars
  PROVE  OrderInv'
<1>1. sends \in Nat /\ Queued
  BY DEF Counted, OrderInv
<1>2. CASE Session
  <2>1. kind = "session" /\ kind' = "session" /\ SessionNext /\ UNCHANGED pend
    BY <1>2 DEF Session, tlsVars, partVars
  <2>2. step \notin {"closed", "killed"}
    BY <2>1 DEF SessionNext, SessionCall, SessionStep, SendQueued, SendAgain, SendError, SendDirect, Begin,
       Discard, SessionClose, AppendPart, AppendFails, AppendDone, HighReturns, FlushRound, FlushReturns,
       FlushCall
  <2>3. SessionGood
    BY <2>1, <2>2 DEF SessionGood, OrderInv, WireGood
  <2>4. SessionLeft'
    BY <2>1, <2>3, SessionOrder
  <2>5. pend' = <<>>
    BY <2>1 DEF OrderInv, Queued, WireGood
  <2> QED
    BY <2>1, <2>4, <2>5, NothingQueued DEF SessionLeft, WireGood, OrderInv
<1>3. CASE Tcp \/ Tls
  <2>1. kind \in {"tcp", "tls"} /\ kind' = kind /\ UNCHANGED <<queue, whole>>
    BY <1>3 DEF Tcp, Tls, outVars, partVars
  <2>2. Sending
    BY <1>1, <2>1 DEF Sending, OrderInv
  <2>3. Sending'
    BY <1>3, <2>2, TcpOrder, TlsOrder DEF Tcp, Tls
  <2> QED
    BY <2>1, <2>3 DEF OrderInv, Sending
<1>4. CASE Net \/ Udp \/ Pool \/ Rtp \/ UNCHANGED vars
  <2>1. UNCHANGED <<kind, wire, sends, queue, step, parts, size, whole, cut, state, pend, owed, ahead, at>>
    BY <1>4 DEF Net, Transport, Udp, Pool, Rtp, vars, partVars, connVars, outVars, clientVars, tlsVars
  <2>2. Lined' = Lined /\ AllThere' = AllThere /\ Queued' = Queued
    BY <2>1 DEF Lined, AllThere, Queued
  <2> QED
    BY <2>1, <2>2 DEF OrderInv, WireGood, Wired
<1> QED
  BY <1>2, <1>3, <1>4 DEF Next

\* Bytes in order are each before the next.
LEMMA OneAfterAnother ==
  ASSUME NEW s \in Seq(Nat \X Nat), Sorted(s)
  PROVE  \A i \in 1 .. Len(s) - 1 : Before(s[i], s[i + 1])
<1> SUFFICES ASSUME NEW i \in 1 .. Len(s) - 1 PROVE Before(s[i], s[i + 1])
  OBVIOUS
<1>1. i \in 1 .. Len(s) /\ i + 1 \in 1 .. Len(s) /\ i < i + 1
  OBVIOUS
<1> QED
  BY <1>1 DEF Sorted

LEMMA OrderShows ==
  ASSUME Counted, OrderInv
  PROVE  WireOrder
<1>1. wire \in Seq(Nat \X Nat) /\ queue \in Seq(Pieces) /\ sends \in Nat
  BY DEF OrderInv, Counted, WireGood, Wired
<1>2. ASSUME kind = "session" PROVE SessionInOrder
  <2>10. Sorted(wire)
    BY <1>2 DEF OrderInv, WireGood
  <2> SUFFICES ASSUME step \notin {"closed", "killed"}
               PROVE  /\ \A i \in 1 .. Len(wire \o BytesOf(queue)) - 1 :
                           Before((wire \o BytesOf(queue))[i], (wire \o BytesOf(queue))[i + 1])
                      /\ \A w \in whole : w[1] \notin cut =>
                           ToSet(Bytes(w[1], 0, w[2])) \subseteq ToSet(wire \o BytesOf(queue))
    BY DEF SessionInOrder
  <2>1. PICK b : b = BytesOf(queue)
    OBVIOUS
  <2>2. b \in Seq(Nat \X Nat) /\ Len(b) = Total(queue) /\ Total(queue) \in Nat
    BY <1>1, <2>1, BytesOfIs, QueueIs
  <2>3. Ranked(queue) /\ Leading(wire, queue)
    BY <1>2 DEF OrderInv, Lined
  <2>4. Sorted(b)
    BY <1>1, <2>1, <2>3, SortedBytes
  <2>5. \A i \in 1 .. Len(wire), j \in 1 .. Len(b) : Before(wire[i], b[j])
    <3>1. PICK n : n = Total(queue)
      OBVIOUS
    <3>2. n \in 0 .. Total(queue)
      BY <2>2, <3>1
    <3>3. \A i \in 1 .. Len(wire), j \in 1 .. n : Before(wire[i], Off(queue, n)[j])
      BY <1>1, <2>3, <3>2, AdvanceFollows
    <3>4. \A j \in 1 .. n : Off(queue, n)[j] = b[j]
      BY <1>1, <2>1, <3>2, OffIs
    <3> QED
      BY <2>2, <3>1, <3>3, <3>4
  <2>6. PICK s : s = wire \o b
    OBVIOUS
  <2>7. Sorted(s) /\ s \in Seq(Nat \X Nat)
    <3>1. Sorted(s)
      BY <1>1, <2>10, <2>2, <2>4, <2>5, <2>6, JoinSorted
    <3>2. s \in Seq(Nat \X Nat)
      BY <1>1, <2>2, <2>6
    <3> QED
      BY <3>1, <3>2
  <2>8. \A i \in 1 .. Len(s) - 1 : Before(s[i], s[i + 1])
    BY <2>7, OneAfterAnother
  <2>9. ASSUME NEW w \in whole, w[1] \notin cut
        PROVE  ToSet(Bytes(w[1], 0, w[2])) \subseteq ToSet(s)
    <3>2. /\ w[1] \in Nat /\ w[2] \in Nat
          /\ \A p \in 1 .. w[2] : Among(wire, w[1], p) \/ Holds(queue, w[1], p)
      BY <1>2, <2>9 DEF OrderInv, AllThere
    <3>3. PICK x \in Nat, l \in Nat : x = w[1] /\ l = w[2]
      BY <3>2
    <3>4. ASSUME NEW p \in 1 .. l PROVE Among(s, x, p)
      <4>1. CASE Among(wire, x, p)
        BY <1>1, <2>2, <2>6, <4>1, JoinAmong
      <4>2. CASE Holds(queue, x, p)
        <5>1. PICK i \in 1 .. Len(queue) :
                queue[i].msg = x /\ queue[i].off < p /\ p <= queue[i].off + queue[i].len
          BY <4>2 DEF Holds
        <5>2. queue[i] \in Pieces
          BY <1>1, QueueIs
        <5>3. queue[i].off \in Nat /\ queue[i].len \in Nat
          BY <5>2 DEF Pieces
        <5>4. p - queue[i].off \in 1 .. queue[i].len /\ queue[i].off + (p - queue[i].off) = p
          BY <5>1, <5>3
        <5>5. PICK d \in 1 .. queue[i].len : queue[i].off + d = p
          BY <5>4
        <5>6. PICK j : j = Length(queue, i - 1) + d
          OBVIOUS
        <5>7. j \in 1 .. Total(queue)
          BY <1>1, <5>6, ChunkIs
        <5>8. b[j] = <<x, p>>
          BY <1>1, <2>1, <5>1, <5>5, <5>6, BytesOfIs
        <5>9. Among(b, x, p)
          BY <2>2, <5>7, <5>8 DEF Among
        <5> QED
          BY <1>1, <2>2, <2>6, <5>9, JoinAmong
      <4> QED
        BY <3>2, <3>3, <4>1, <4>2
    <3>5. \A p \in 1 .. l : <<x, p>> \in ToSet(s)
      <4> SUFFICES ASSUME NEW p \in 1 .. l PROVE <<x, p>> \in ToSet(s)
        OBVIOUS
      <4>1. PICK j \in 1 .. Len(s) : s[j] = <<x, p>>
        BY <3>4 DEF Among
      <4>2. j \in DOMAIN s
        BY <2>7
      <4> QED
        BY <4>1, <4>2 DEF ToSet
    <3>6. \A e \in ToSet(Bytes(x, 0, l)) : \E p \in 1 .. l : e = <<x, p>>
      <4> SUFFICES ASSUME NEW e \in ToSet(Bytes(x, 0, l)) PROVE \E p \in 1 .. l : e = <<x, p>>
        OBVIOUS
      <4>1. DOMAIN Bytes(x, 0, l) = 1 .. l /\ \A p \in 1 .. l : Bytes(x, 0, l)[p] = <<x, 0 + p>>
        BY DEF Bytes
      <4>2. PICK p \in 1 .. l : e = <<x, 0 + p>>
        BY <4>1 DEF ToSet
      <4>3. 0 + p = p
        BY <3>3
      <4> QED
        BY <4>2, <4>3
    <3> QED
      BY <3>3, <3>5, <3>6
  <2> QED
    BY <2>1, <2>6, <2>8, <2>9
<1>3. ASSUME kind \in {"tcp", "tls"} PROVE Ordered(wire \o Records(pend), ahead)
  <2>1. Sending
    BY <1>1, <1>3 DEF Sending, OrderInv
  <2>2. PICK f : f = Records(pend)
    OBVIOUS
  <2>3. /\ f \in Seq(Nat \X Nat) /\ Len(f) = Len(pend) /\ Ordered(f, ahead)
        /\ \A i \in 1 .. Len(wire), j \in 1 .. Len(pend) : InOrder(wire[i], f[j], ahead)
    BY <2>1, <2>2, RecordsAre, SortedIsOrdered
  <2>4. Ordered(wire, ahead)
    BY <2>1 DEF Sending, Wired
  <2> QED
    BY <1>1, <2>2, <2>3, <2>4, JoinOrdered
<1> QED
  BY <1>2, <1>3 DEF WireOrder, Ordered, InOrder

\* What is on the wire, followed by what is queued, is in the order of the application's
\* calls and none twice, except that a TLS client's send from on_connect goes ahead of what
\* was queued; and for a session none is missing of the first IovMax parts of a message
\* reported ZTK_OK and not discarded: for messages of any number, parts and lengths, any
\* split of the writes, any IOV limit (ztk_tcp_session_send, sendv, send_buf,
\* session_out_flush; ztk_tcp_client_send; ztk_tls_client_send, tls_flush_pending).
THEOREM BytesInOrder == Spec => []WireOrder
<1>1. Counted /\ OrderInv /\ [Next]_vars => (Counted /\ OrderInv)'
  BY CountedStep, OrderStep
<1> QED
  BY <1>1, CountedInit, OrderInit, OrderShows, PTL DEF Spec

-----------------------------------------------------------------------------
(* The choice of a poller                                                  *)

Loads == [run : Nat, sleep : Nat, last : Nat, sleeping : BOOLEAN]

\* No account is ahead of the clock, and thread_pos is a place of the pool.
PoolInv ==
  /\ now \in Nat /\ threadPos \in Slots0
  /\ load \in [Slots0 -> Loads] /\ \A p \in Slots0 : load[p].last <= now

LEMMA QuotientNat ==
  ASSUME NEW a \in Nat, NEW b \in Nat, b # 0
  PROVE  a \div b \in Nat
OBVIOUS

LEMMA LoadFields ==
  ASSUME NEW l \in Loads
  PROVE  /\ l = [run |-> l.run, sleep |-> l.sleep, last |-> l.last, sleeping |-> l.sleeping]
         /\ l.run \in Nat /\ l.sleep \in Nat /\ l.last \in Nat /\ l.sleeping \in BOOLEAN
BY DEF Loads

LEMMA ChargedIs ==
  ASSUME now \in Nat, NEW l \in Loads, l.last <= now
  PROVE  Charged(l) \in Loads /\ Charged(l).last = now
<1>1. PICK t, r, s, a, b : t = now /\ r = l.run /\ s = l.sleep /\ a = l.last /\ b = l.sleeping
  OBVIOUS
<1>2. l = [run |-> r, sleep |-> s, last |-> a, sleeping |-> b]
  BY <1>1, LoadFields
<1>3. r \in Nat /\ s \in Nat /\ t \in Nat /\ r + (t - a) \in Nat /\ s + (t - a) \in Nat /\ b \in BOOLEAN
  <2>1. r \in Nat /\ s \in Nat /\ a \in Nat /\ t \in Nat /\ a <= t /\ b \in BOOLEAN
    BY <1>1, LoadFields
  <2> QED
    BY <2>1
<1>4. \/ Charged(l) = [run |-> r, sleep |-> s + (t - a), last |-> t, sleeping |-> b]
      \/ Charged(l) = [run |-> r + (t - a), sleep |-> s, last |-> t, sleeping |-> b]
  BY <1>1, <1>2 DEF Charged
<1> QED
  BY <1>1, <1>3, <1>4 DEF Loads

LEMMA MarkTimeIs ==
  ASSUME now \in Nat, NEW l \in Loads, l.last <= now, NEW b \in BOOLEAN
  PROVE  MarkTime(l, b) \in Loads /\ MarkTime(l, b).last = now
<1>1. PICK e : e = Charged(l)
  OBVIOUS
<1>2. e \in Loads /\ e.last = now
  BY <1>1, ChargedIs
<1>3. PICK r \in Nat, s \in Nat : r = e.run /\ s = e.sleep
  BY <1>2, LoadFields
<1>4. PICK c : c = [run |-> r, sleep |-> s, last |-> now, sleeping |-> b]
  OBVIOUS
<1>5. c = [e EXCEPT !.sleeping = b]
  <2>1. e = [run |-> r, sleep |-> s, last |-> now, sleeping |-> e.sleeping]
    BY <1>2, <1>3, LoadFields
  <2> QED
    BY <1>4, <2>1
<1>6. PICK x \in Nat, y \in Nat : x = r \div 2 /\ y = s \div 2
  OBVIOUS
<1>7. c.run = r /\ c.sleep = s
  BY <1>4
<1>8. MarkTime(l, b) = c \/ MarkTime(l, b) = [c EXCEPT !.run = x, !.sleep = y]
  BY <1>1, <1>5, <1>6, <1>7 DEF MarkTime
<1>9. ASSUME NEW g, g = [c EXCEPT !.run = x, !.sleep = y]
      PROVE  g = [run |-> x, sleep |-> y, last |-> now, sleeping |-> b]
  BY <1>4, <1>9
<1> QED
  BY <1>4, <1>8, <1>9 DEF Loads

LEMMA PercentIs ==
  ASSUME now \in Nat, NEW l \in Loads, l.last <= now
  PROVE  Percent(l) \in Nat
<1>1. PICK r \in Nat, s \in Nat : r = Charged(l).run /\ s = Charged(l).sleep
  BY ChargedIs, LoadFields
<1>2. Percent(l) = IF r + s > 0 THEN (r * 100) \div (r + s) ELSE 0
  BY <1>1 DEF Percent
<1>3. CASE r + s > 0
  <2>1. PICK a \in Nat, b \in Nat : a = r * 100 /\ b = r + s
    OBVIOUS
  <2>2. a \div b \in Nat
    BY <1>3, <2>1, QuotientNat
  <2> QED
    BY <1>2, <1>3, <2>1, <2>2
<1>4. CASE ~(r + s > 0)
  BY <1>2, <1>4
<1> QED
  BY <1>3, <1>4

-----------------------------------------------------------------------------
(* The scan                                                                *)

\* Every poller has a load that can be compared.
Weighed == \A p \in Slots0 : Percent(load[p]) \in Nat

LEMMA AllWeighed == PoolInv => Weighed
BY PercentIs DEF PoolInv, Weighed

\* A state of the scan: the poller taken is where the scan is and as light as any it has
\* looked at, and the scan ends early only at a load of 0.
Scanning(s) ==
  /\ s \in [pos : Slots0, best : Slots0, min : Nat, done : BOOLEAN, seen : SUBSET Slots0]
  /\ s.best = s.pos /\ s.min = Percent(load[s.best])
  /\ s.done => s.min = 0
  /\ threadPos \in s.seen /\ \A p \in s.seen : s.min <= Percent(load[p])

LEMMA IndexIs ==
  ASSUME NEW a \in Nat, NEW i \in Nat
  PROVE  (a + i) % NPool \in Slots0
BY PoolAssumption DEF Slots0

\* What a turn assigns.
LEMMA Moved ==
  ASSUME NEW a, NEW m, NEW f, NEW e, NEW x, NEW w, NEW s, NEW t,
         s = [pos |-> a, best |-> a, min |-> m, done |-> f, seen |-> e],
         t = [s EXCEPT !.min = w, !.best = x, !.pos = x]
  PROVE  t = [pos |-> x, best |-> x, min |-> w, done |-> f, seen |-> e]
OBVIOUS

LEMMA Looked ==
  ASSUME NEW a, NEW m, NEW f, NEW e, NEW d, NEW x, NEW s, NEW t,
         s = [pos |-> a, best |-> a, min |-> m, done |-> f, seen |-> e],
         t = [s EXCEPT !.done = d, !.seen = x]
  PROVE  t = [pos |-> a, best |-> a, min |-> m, done |-> d, seen |-> x]
OBVIOUS

LEMMA ScanTurn ==
  ASSUME Weighed, NEW s, Scanning(s), NEW i \in Nat
  PROVE  /\ Scanning(Scan(s, i))
         /\ ~s.done => Scan(s, i).seen = s.seen \cup {(s.pos + i) % NPool}
         /\ s.done => Scan(s, i) = s
<1>1. CASE s.done
  BY <1>1 DEF Scan
<1>2. CASE ~s.done
  <2>1. PICK idx, w, a, m, e : /\ idx = (s.pos + i) % NPool /\ w = Percent(load[idx])
                              /\ a = s.pos /\ m = s.min /\ e = s.seen
    OBVIOUS
  <2>2. /\ a \in Slots0 /\ m \in Nat /\ e \in SUBSET Slots0 /\ m = Percent(load[a])
        /\ threadPos \in e /\ \A p \in e : m <= Percent(load[p])
    BY <2>1 DEF Scanning
  <2>3. s = [pos |-> a, best |-> a, min |-> m, done |-> FALSE, seen |-> e]
    BY <1>2, <2>1 DEF Scanning
  <2>4. a \in Nat
    BY <2>2, PoolAssumption DEF Slots0
  <2>5. idx \in Slots0
    BY <2>1, <2>4, IndexIs
  <2>6. w \in Nat
    BY <2>1, <2>5 DEF Weighed
  <2>7. PICK b, n : /\ b = (IF w < m THEN idx ELSE a) /\ n = (IF w < m THEN w ELSE m)
    OBVIOUS
  <2>8. PICK d \in BOOLEAN : d = (n = 0)
    OBVIOUS
  <2>9. Scan(s, i) = [pos |-> b, best |-> b, min |-> n, done |-> d, seen |-> e \cup {idx}]
    <3>1. s.pos = a /\ s.min = m /\ ~s.done /\ s.seen = e
      BY <1>2, <2>1 DEF Scanning
    <3>2. PICK t : t = IF w < m THEN [s EXCEPT !.min = w, !.best = idx, !.pos = idx] ELSE s
      OBVIOUS
    <3>3. Scan(s, i) = [t EXCEPT !.done = (t.min = 0), !.seen = @ \cup {idx}]
      BY <2>1, <3>1, <3>2 DEF Scan
    <3>4. t = [pos |-> b, best |-> b, min |-> n, done |-> FALSE, seen |-> e]
      <4>1. CASE w < m
        <5>1. t = [s EXCEPT !.min = w, !.best = idx, !.pos = idx]
          BY <3>2, <4>1
        <5>2. t = [pos |-> idx, best |-> idx, min |-> w, done |-> FALSE, seen |-> e]
          BY <2>3, <5>1, Moved
        <5> QED
          BY <2>7, <4>1, <5>2
      <4>2. CASE ~(w < m)
        BY <2>3, <2>7, <3>2, <4>2
      <4> QED
        BY <4>1, <4>2
    <3>5. t.min = n /\ t.seen = e
      BY <3>4
    <3>6. Scan(s, i) = [t EXCEPT !.done = d, !.seen = e \cup {idx}]
      BY <2>8, <3>3, <3>5
    <3> QED
      BY <3>4, <3>6, Looked
  <2>10. b \in Slots0 /\ n \in Nat /\ n = Percent(load[b]) /\ n <= m /\ n <= w
    BY <2>1, <2>2, <2>5, <2>6, <2>7
  <2>11. \A p \in e \cup {idx} : n <= Percent(load[p])
    <3> SUFFICES ASSUME NEW p \in e \cup {idx} PROVE n <= Percent(load[p])
      OBVIOUS
    <3>1. CASE p = idx
      BY <2>1, <2>10, <3>1
    <3>2. CASE p \in e
      <4>1. PICK v \in Nat : v = Percent(load[p])
        BY <2>2, <3>2 DEF Weighed
      <4>2. m <= v
        BY <2>2, <3>2, <4>1
      <4> QED
        BY <2>2, <2>10, <4>1, <4>2
    <3> QED
      BY <3>1, <3>2
  <2>12. Scanning(Scan(s, i))
    <3>1. PICK g : g = Scan(s, i)
      OBVIOUS
    <3>2. g.pos = b /\ g.best = b /\ g.min = n /\ g.done = d /\ g.seen = e \cup {idx}
      BY <2>9, <3>1
    <3>3. g \in [pos : Slots0, best : Slots0, min : Nat, done : BOOLEAN, seen : SUBSET Slots0]
      BY <2>2, <2>5, <2>9, <2>10, <3>1
    <3> QED
      BY <2>2, <2>10, <2>11, <2>8, <3>1, <3>2, <3>3 DEF Scanning
  <2> QED
    BY <1>2, <2>1, <2>9, <2>12
<1> QED
  BY <1>1, <1>2

ScanRun(run, n) == run = [k \in 0 .. n |-> IF k = 0 THEN ScanInit ELSE Scan(run[k - 1], k - 1)]

LEMMA ScanRuns ==
  ASSUME NEW n \in Nat
  PROVE  \E run : ScanRun(run, n)
<1> DEFINE S == {m \in Nat : \E run : ScanRun(run, m)}
<1>1. 0 \in S
  <2>1. PICK run : run = [k \in 0 .. 0 |-> ScanInit]
    OBVIOUS
  <2>2. run = [k \in 0 .. 0 |-> IF k = 0 THEN ScanInit ELSE Scan(run[k - 1], k - 1)]
    BY <2>1
  <2> QED
    BY <2>2 DEF ScanRun
<1>2. ASSUME NEW m \in Nat, m \in S PROVE m + 1 \in S
  <2>1. PICK run : ScanRun(run, m)
    BY <1>2
  <2>2. \A k \in 0 .. m : run[k] = IF k = 0 THEN ScanInit ELSE Scan(run[k - 1], k - 1)
    BY <2>1 DEF ScanRun
  <2>3. PICK e : e = [k \in 0 .. m + 1 |-> IF k = m + 1 THEN Scan(run[m], m) ELSE run[k]]
    OBVIOUS
  <2>4. ASSUME NEW k \in 0 .. m + 1 PROVE e[k] = IF k = 0 THEN ScanInit ELSE Scan(e[k - 1], k - 1)
    <3>1. CASE k = m + 1
      <4>1. k # 0 /\ k - 1 = m /\ m \in 0 .. m + 1 /\ m # m + 1
        BY <3>1
      <4> QED
        BY <2>3, <3>1, <4>1
    <3>2. CASE k # m + 1
      <4>1. k \in 0 .. m /\ (k # 0 => k - 1 \in 0 .. m + 1 /\ k - 1 # m + 1)
        BY <3>2
      <4>2. e[k] = run[k] /\ (k # 0 => e[k - 1] = run[k - 1])
        BY <2>3, <3>2, <4>1
      <4> QED
        BY <2>2, <4>1, <4>2
    <3> QED
      BY <3>1, <3>2
  <2>5. ScanRun(e, m + 1)
    <3>1. e = [k \in 0 .. m + 1 |-> e[k]]
      BY <2>3
    <3> QED
      BY <2>4, <3>1, Zenon DEF ScanRun
  <2> QED
    BY <2>5
<1> HIDE DEF S
<1>3. n \in S
  BY <1>1, <1>2, Counting
<1> QED
  BY <1>3 DEF S

LEMMA ChoiceRun ==
  \E run : /\ Choice = run[NPool] /\ run[0] = ScanInit
           /\ \A k \in 0 .. NPool : k # 0 => run[k] = Scan(run[k - 1], k - 1)
<1>1. PICK c : c = CHOOSE run : ScanRun(run, NPool)
  OBVIOUS
<1>2. ScanRun(c, NPool)
  BY <1>1, ScanRuns, PoolAssumption, Zenon
<1>3. Choice = c[NPool]
  BY <1>1, Zenon DEF Choice, ScanRun
<1>4. \A k \in 0 .. NPool : c[k] = IF k = 0 THEN ScanInit ELSE Scan(c[k - 1], k - 1)
  BY <1>2, Zenon DEF ScanRun
<1>5. 0 \in 0 .. NPool
  BY PoolAssumption
<1>6. c[0] = ScanInit
  BY <1>4, <1>5
<1>7. \A k \in 0 .. NPool : k # 0 => c[k] = Scan(c[k - 1], k - 1)
  BY <1>4, Zenon
<1> QED
  BY <1>3, <1>6, <1>7

LEMMA ScanStarts ==
  ASSUME PoolInv
  PROVE  Scanning(ScanInit) /\ ~ScanInit.done /\ ScanInit.pos = threadPos /\ ScanInit.seen = {threadPos}
<1>1. threadPos \in Slots0 /\ Percent(load[threadPos]) \in Nat
  BY AllWeighed DEF PoolInv, Weighed
<1>2. PICK w \in Nat : w = Percent(load[threadPos])
  BY <1>1
<1>3. ScanInit = [pos |-> threadPos, best |-> threadPos, min |-> w, done |-> FALSE, seen |-> {threadPos}]
  BY <1>2 DEF ScanInit
<1> QED
  BY <1>1, <1>2, <1>3 DEF Scanning

\* What the loop of ztk_poller_pool_get leaves: it has stopped at a load of 0 or looked at
\* the poller behind the first.
Behind == (threadPos + 1) % NPool

LEMMA ChoiceIs ==
  ASSUME PoolInv
  PROVE  Scanning(Choice) /\ (Choice.done \/ Behind \in Choice.seen)
<1>1. PICK run : /\ Choice = run[NPool] /\ run[0] = ScanInit
                 /\ \A k \in 0 .. NPool : k # 0 => run[k] = Scan(run[k - 1], k - 1)
  BY ChoiceRun
<1>2. Weighed
  BY AllWeighed
<1>3. NPool \in Nat /\ NPool # 0
  BY PoolAssumption
<1>4. ScanInit.pos = threadPos /\ threadPos \in Slots0 /\ threadPos \in Nat
  BY ScanStarts, PoolAssumption DEF PoolInv, Slots0
<1> DEFINE S == {k \in Nat : k <= NPool => Scanning(run[k])}
<1>5. 0 \in S
  BY <1>1, ScanStarts
<1>6. ASSUME NEW k \in Nat, k \in S PROVE k + 1 \in S
  <2> SUFFICES ASSUME k + 1 <= NPool PROVE Scanning(run[k + 1])
    BY SMT
  <2>1. k <= NPool /\ k + 1 \in 0 .. NPool /\ k + 1 # 0 /\ (k + 1) - 1 = k
    BY <1>3
  <2>2. run[k + 1] = Scan(run[k], k)
    BY <1>1, <2>1
  <2>3. Scanning(run[k])
    BY <1>6, <2>1
  <2> QED
    BY <1>2, <2>2, <2>3, ScanTurn
<1> HIDE DEF S
<1>7. Nat \subseteq S
  BY <1>5, <1>6, Counting
<1>8. \A k \in 0 .. NPool : Scanning(run[k])
  BY <1>3, <1>7 DEF S
<1>9. Scanning(Choice)
  BY <1>1, <1>3, <1>8
<1>10. CASE NPool = 1
  <2>1. Behind = threadPos
    BY <1>4, <1>10 DEF Behind, Slots0
  <2> QED
    BY <1>9, <2>1 DEF Scanning
<1>11. CASE NPool # 1
  <2>1. 1 \in 0 .. NPool /\ 2 \in 0 .. NPool
    BY <1>3, <1>11
  <2>2. run[1] = Scan(ScanInit, 0) /\ run[2] = Scan(run[1], 1) /\ Scanning(run[1]) /\ Scanning(run[2])
    BY <1>1, <1>8, <2>1
  <2>3. run[1].pos = threadPos
    <3>1. (threadPos + 0) % NPool = threadPos
      BY <1>3, <1>4 DEF Slots0
    <3>2. ~(Percent(load[threadPos]) < ScanInit.min)
      <4>1. PICK w \in Nat : w = Percent(load[threadPos])
        BY <1>2, <1>4 DEF Weighed
      <4>2. ScanInit.min = w
        BY <4>1 DEF ScanInit
      <4> QED
        BY <4>1, <4>2
    <3>3. Scan(ScanInit, 0) = [ScanInit EXCEPT !.done = (ScanInit.min = 0), !.seen = @ \cup {threadPos}]
      BY <1>4, <3>1, <3>2, ScanStarts DEF Scan
    <3> QED
      BY <2>2, <3>3 DEF ScanInit
  <2>4. run[2].done \/ Behind \in run[2].seen
    <3>1. CASE run[1].done
      BY <1>2, <2>2, <3>1, ScanTurn
    <3>2. CASE ~run[1].done
      <4>1. run[2].seen = run[1].seen \cup {Behind}
        BY <1>2, <2>2, <2>3, <3>2, ScanTurn DEF Behind
      <4> QED
        BY <4>1
    <3> QED
      BY <3>1, <3>2
  <2> DEFINE T == {k \in Nat : k + 2 <= NPool => run[k + 2].done \/ Behind \in run[k + 2].seen}
  <2>5. 0 \in T
    BY <2>4
  <2>6. ASSUME NEW k \in Nat, k \in T PROVE k + 1 \in T
    <3> SUFFICES ASSUME (k + 1) + 2 <= NPool PROVE run[(k + 1) + 2].done \/ Behind \in run[(k + 1) + 2].seen
      BY SMT
    <3>1. PICK n \in Nat : n = k + 2
      OBVIOUS
    <3>2. n <= NPool /\ n \in 0 .. NPool /\ n + 1 \in 0 .. NPool /\ n + 1 # 0 /\ (n + 1) - 1 = n
          /\ (k + 1) + 2 = n + 1
      BY <1>3, <3>1
    <3>3. run[n + 1] = Scan(run[n], n) /\ Scanning(run[n])
      BY <1>1, <1>8, <3>2
    <3>4. run[n].done \/ Behind \in run[n].seen
      BY <2>6, <3>1, <3>2
    <3>5. run[n + 1].done \/ Behind \in run[n + 1].seen
      BY <1>2, <3>3, <3>4, ScanTurn
    <3> QED
      BY <3>2, <3>5
  <2> HIDE DEF T
  <2>7. Nat \subseteq T
    BY <2>5, <2>6, Counting
  <2>8. PICK k \in Nat : k + 2 = NPool
    BY <1>3, <1>11
  <2>9. k \in T
    BY <2>7, <2>8
  <2> QED
    BY <1>1, <1>3, <1>9, <2>8, <2>9 DEF T
<1> QED
  BY <1>9, <1>10, <1>11

\* What a call of ztk_poller_pool_get by load does, for a pool of any size.
LEMMA GetTakes ==
  ASSUME PoolInv, Get
  PROVE  /\ threadPos' = (picked'.best + 1) % NPool
         /\ \A p \in Choice.seen \cup {threadPos, (threadPos + 1) % NPool} :
              picked'.loads[picked'.best] <= picked'.loads[p]
<1>1. PICK c, b : c = Choice /\ b = c.best
  OBVIOUS
<1>2. Scanning(c) /\ (c.done \/ Behind \in c.seen)
  BY <1>1, ChoiceIs
<1>3. /\ b \in Slots0 /\ c.pos = b /\ c.min = Percent(load[b]) /\ c.seen \subseteq Slots0
      /\ threadPos \in c.seen /\ (c.done => c.min = 0)
      /\ \A p \in c.seen : c.min <= Percent(load[p])
  BY <1>1, <1>2 DEF Scanning
<1>4. picked' = [best |-> b, loads |-> [p \in Slots0 |-> Percent(load[p])]]
  BY <1>1 DEF Get
<1>5. picked'.best = b /\ \A p \in Slots0 : picked'.loads[p] = Percent(load[p])
  BY <1>4
<1>6. threadPos' = (b + 1) % NPool
  BY <1>1, <1>3 DEF Get
<1>7. \A p \in c.seen : picked'.loads[b] <= picked'.loads[p]
  BY <1>3, <1>5
<1>8. picked'.loads[b] <= picked'.loads[Behind]
  <2>1. CASE Behind \in c.seen
    BY <1>7, <2>1
  <2>2. CASE c.done
    <3>1. picked'.loads[b] = 0
      BY <1>3, <1>5, <2>2
    <3>2. threadPos \in Nat
      BY PoolAssumption DEF PoolInv, Slots0
    <3>3. Behind \in Slots0
      BY <3>2, IndexIs DEF Behind
    <3>4. picked'.loads[Behind] \in Nat
      BY <1>5, <3>3, AllWeighed DEF Weighed
    <3> QED
      BY <3>1, <3>4
  <2> QED
    BY <1>2, <2>1, <2>2
<1> QED
  BY <1>1, <1>3, <1>5, <1>6, <1>7, <1>8 DEF Behind

\* Accounts brought up to date leave the pool's state sound.
LEMMA AccountsKept ==
  ASSUME PoolInv, now' = now, threadPos' \in Slots0, load' \in [Slots0 -> Loads],
         \A p \in Slots0 : load'[p].last = now \/ load'[p] = load[p]
  PROVE  PoolInv'
<1>1. now \in Nat /\ \A p \in Slots0 : load[p].last <= now
  BY DEF PoolInv
<1>2. \A p \in Slots0 : load'[p].last <= now
  BY <1>1
<1>3. Slots0' = Slots0 /\ Loads' = Loads
  BY DEF Slots0, Loads
<1> QED
  BY <1>1, <1>2, <1>3 DEF PoolInv

LEMMA PoolKept ==
  ASSUME PoolInv, PoolNext
  PROVE  PoolInv'
<1>1. now \in Nat /\ threadPos \in Slots0 /\ load \in [Slots0 -> Loads] /\ \A p \in Slots0 : load[p].last <= now
  BY DEF PoolInv
<1>2. \A p \in Slots0 : Charged(load[p]) \in Loads /\ Charged(load[p]).last = now
  BY <1>1, ChargedIs
<1>4. CASE Tick
  <2>1. now' \in Nat /\ now <= now' /\ threadPos' = threadPos /\ load' = load
    BY <1>1, <1>4 DEF Tick
  <2>2. \A p \in Slots0 : load[p].last \in Nat /\ load[p].last <= now
    BY <1>1, LoadFields
  <2>3. \A p \in Slots0 : load[p].last <= now'
    BY <1>1, <2>1, <2>2
  <2>4. Slots0' = Slots0 /\ Loads' = Loads
    BY DEF Slots0, Loads
  <2> QED
    BY <1>1, <2>1, <2>3, <2>4 DEF PoolInv
<1>5. CASE Get
  <2>2. threadPos' \in Slots0
    <3>1. PICK a \in Nat : a = Choice.pos
      <4>1. Choice.pos \in Slots0
        BY ChoiceIs DEF Scanning
      <4> QED
        BY <4>1, PoolAssumption DEF Slots0
    <3> QED
      BY <1>5, <3>1, IndexIs DEF Get
  <2>3. load' = [p \in Slots0 |-> IF p \in Choice.seen THEN Charged(load[p]) ELSE load[p]] /\ now' = now
    BY <1>5 DEF Get
  <2>4. /\ load' \in [Slots0 -> Loads]
        /\ \A p \in Slots0 : load'[p].last = now \/ load'[p] = load[p]
    <3>1. \A p \in Slots0 : load'[p] = Charged(load[p]) \/ load'[p] = load[p]
      BY <2>3
    <3>2. \A p \in Slots0 : load'[p] \in Loads
      BY <1>1, <1>2, <3>1
    <3>3. load' = [p \in Slots0 |-> load'[p]]
      BY <2>3
    <3> QED
      BY <1>2, <3>1, <3>2, <3>3
  <2> QED
    BY <2>2, <2>3, <2>4, AccountsKept
<1>6. CASE SetPrefer
  BY <1>1, <1>6, AccountsKept DEF SetPrefer
<1>7. ASSUME NEW p \in Slots0, OnSleep(p) \/ OnWake(p)
      PROVE  PoolInv'
  <2>1. PICK b \in BOOLEAN : load' = [load EXCEPT ![p] = MarkTime(load[p], b)]
    BY <1>7 DEF OnSleep, OnWake
  <2>2. MarkTime(load[p], b) \in Loads /\ MarkTime(load[p], b).last = now
    BY <1>1, MarkTimeIs
  <2>3. /\ load' \in [Slots0 -> Loads]
        /\ \A q \in Slots0 : load'[q].last = now \/ load'[q] = load[q]
    BY <1>1, <2>1, <2>2
  <2>4. now' = now /\ threadPos' = threadPos
    BY <1>7 DEF OnSleep, OnWake
  <2> QED
    BY <1>1, <2>3, <2>4, AccountsKept
<1>8. ASSUME NEW n, GetLoads(n)
      PROVE  PoolInv'
  <2>1. load' = [p \in Slots0 |-> IF p < n THEN Charged(load[p]) ELSE load[p]]
    BY <1>8 DEF GetLoads
  <2>2. now' = now /\ threadPos' = threadPos
    BY <1>8 DEF GetLoads
  <2>3. \A p \in Slots0 : load'[p] = Charged(load[p]) \/ load'[p] = load[p]
    BY <2>1
  <2>4. load' \in [Slots0 -> Loads]
    <3>1. \A p \in Slots0 : load'[p] \in Loads
      BY <1>1, <1>2, <2>3
    <3>2. load' = [p \in Slots0 |-> load'[p]]
      BY <2>1
    <3> QED
      BY <3>1, <3>2
  <2>5. \A p \in Slots0 : load'[p].last = now \/ load'[p] = load[p]
    BY <1>2, <2>3
  <2> QED
    BY <1>1, <2>2, <2>4, <2>5, AccountsKept
<1> QED
  BY <1>4, <1>5, <1>6, <1>7, <1>8 DEF PoolNext

LEMMA PoolStart == PoolInit => PoolInv
<1> SUFFICES ASSUME PoolInit PROVE PoolInv
  OBVIOUS
<1>1. 0 \in Slots0
  BY PoolAssumption DEF Slots0
<1>2. NewLoad \in Loads /\ NewLoad.last = 0
  BY DEF NewLoad, Loads
<1>3. now = 0 /\ threadPos = 0 /\ load = [p \in Slots0 |-> NewLoad]
  BY DEF PoolInit
<1> QED
  BY <1>1, <1>2, <1>3 DEF PoolInv

LEMMA PoolAlways == Spec => []PoolInv
<1>1. Init => PoolInv
  BY PoolStart DEF Init
<1>2. PoolInv /\ [Next]_vars => PoolInv'
  <2> SUFFICES ASSUME PoolInv, [Next]_vars PROVE PoolInv'
    OBVIOUS
  <2>1. CASE Pool
    BY <2>1, PoolKept DEF Pool
  <2>2. CASE UNCHANGED poolVars
    BY <2>2 DEF PoolInv, poolVars, Slots0, Loads
  <2> QED
    BY <2>1, <2>2 DEF Next, Session, Tcp, Tls, Net, Udp, Rtp, vars, otherVars
<1> QED
  BY <1>1, <1>2, PTL DEF Spec

\* In a pool of any size ztk_poller_pool_get takes a poller no heavier than the one at
\* thread_pos, the one behind it and any other it has looked at, and leaves thread_pos behind
\* the one taken.
THEOREM PoolTakesLightestSeen == Spec => TakesLightestSeen
<1>1. PoolInv => [Get => /\ threadPos' = (picked'.best + 1) % NPool
                         /\ \A p \in Choice.seen \cup {threadPos, (threadPos + 1) % NPool} :
                              picked'.loads[picked'.best] <= picked'.loads[p]]_poolVars
  BY GetTakes
<1> QED
  BY <1>1, PoolAlways, PTL DEF TakesLightestSeen

=============================================================================
