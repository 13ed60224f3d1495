----------------------------- MODULE SessionOut -----------------------------
(***************************************************************************)
(* The output side of a ztk_tcp_session: send, sendv and send_buf write to *)
(* the socket while nothing is queued and queue the rest; the queue is     *)
(* flushed by later calls, by ztk_tcp_session_flush and by the manager     *)
(* timer if there is one, since POLL_OUT is not watched.  All of it runs   *)
(* on the thread of the session's poller.  on_out_highwater runs in the    *)
(* middle of a call and may discard the queue; it does not send, flush or  *)
(* close.                                                                  *)
(***************************************************************************)
EXTENDS Socket

CONSTANTS
  MaxSends,   \* bound: messages
  MaxLen,     \* bound: bytes in a part of a message
  MaxParts,   \* bound: parts given to sendv
  IovMax,     \* ZTK_SOCKET_IOV_MAX
  HighWater   \* out_highwater_bytes; a callback is set

ASSUME SessionOutAssumption ==
  /\ MaxSends \in Nat /\ MaxLen \in Nat \ {0} /\ MaxParts \in Nat \ {0}
  /\ IovMax \in Nat \ {0} /\ HighWater \in Nat \ {0}

VARIABLES
  queue,    \* out_head: the chunks, oldest first
  bytes,    \* out_pending
  hit,      \* out_highwater_hit
  refs,     \* references to the buffer the application sends again and again
  step,     \* where the session is: idle, append, high, flush, closed, killed
  parts,    \* parts of the message still to be queued
  flushing, \* the call flushes when they are
  size,     \* history: length of the message being sent
  whole,    \* history: messages reported ZTK_OK, with their lengths
  cut       \* history: messages a discard has cut

outVars == <<queue, bytes, hit, refs, step, parts, flushing, size, whole, cut>>

Chunks == [msg : 1 .. MaxSends, off : Nat, len : Nat \ {0}, buf : BOOLEAN]

SessionTypeOK ==
  /\ queue \in Seq(Chunks) /\ parts \in Seq(Chunks)
  /\ bytes \in Nat /\ refs \in Nat /\ hit \in BOOLEAN /\ flushing \in BOOLEAN
  /\ step \in {"idle", "append", "high", "flush", "closed", "killed"}
  /\ size \in Nat /\ whole \subseteq (1 .. MaxSends) \X Nat /\ cut \subseteq 1 .. MaxSends

SessionInit ==
  /\ queue = <<>> /\ bytes = 0 /\ hit = FALSE /\ refs = 1
  /\ step = "idle" /\ parts = <<>> /\ flushing = FALSE /\ size = 0 /\ whole = {} /\ cut = {}

\* Total length of the first n chunks: how many places for a byte they have.
Length(q, n) == Cardinality(UNION {{i} \X (1 .. q[i].len) : i \in 1 .. n})
Total(q) == Length(q, Len(q))

\* The chunk that holds byte j of q, and the bytes of q in order.
ChunkOf(q, j) == CHOOSE i \in 1 .. Len(q) : Length(q, i - 1) < j /\ j <= Length(q, i)
BytesOf(q) ==
  [j \in 1 .. Total(q) |->
     LET i == ChunkOf(q, j) IN <<q[i].msg, q[i].off + (j - Length(q, i - 1))>>]
BufRefs(q) == Cardinality({i \in DOMAIN q : q[i].buf})

\* session_out_advance_sent on a queue, and the same walk over the parts in sendv: whole
\* chunks are popped, the next one loses its beginning.
Advance(q, n) ==
  LET k == Max({i \in 0 .. Len(q) : Length(q, i) <= n})
      rest == SubSeq(q, k + 1, Len(q))
      skip == n - Length(q, k)
  IN  IF skip = 0 THEN rest
      ELSE [rest EXCEPT ![1].off = @ + skip, ![1].len = @ - skip]

-----------------------------------------------------------------------------
(* ztk_tcp_session_send, sendv, send_buf                                   *)

\* sendv cuts a longer vector, and the caller is told ZTK_OK for what is left of it.
Kept(lens) == SubSeq(lens, 1, Min({IovMax, Len(lens)}))

\* A message as parts: a send or a send_buf has one, sendv has several.
Message(lens, buf) ==
  [i \in DOMAIN lens |-> [msg |-> sends + 1, off |-> Length([j \in DOMAIN lens |-> [len |-> lens[j]]], i - 1),
                          len |-> lens[i], buf |-> buf]]

Messages ==
  {Message(Kept(lens), FALSE) : lens \in UNION {[1 .. n -> 1 .. MaxLen] : n \in 1 .. MaxParts}}
    \cup {Message(<<len>>, TRUE) : len \in 1 .. MaxLen}

Begin(m) == step = "idle" /\ sends < MaxSends /\ sends' = sends + 1 /\ size' = Total(m)

\* Something is queued already: the message goes behind it.
SendQueued(m) ==
  /\ Begin(m) /\ queue # <<>>
  /\ parts' = m /\ flushing' = TRUE /\ step' = "append"
  /\ UNCHANGED <<sk, wire, queue, bytes, hit, refs, whole, cut>>

\* Nothing is queued: the socket takes n bytes and the rest is queued.
SendDirect(m, n) ==
  /\ Begin(m) /\ queue = <<>> /\ n \in Sent(sk, Total(m))
  /\ wire' = wire \o SubSeq(BytesOf(m), 1, n)
  /\ parts' = Advance(m, n) /\ flushing' = TRUE
  /\ step' = (IF n = Total(m) THEN "idle" ELSE "append")
  /\ whole' = (IF n = Total(m) THEN whole \cup {<<sends', Total(m)>>} ELSE whole)
  /\ UNCHANGED <<sk, queue, bytes, hit, refs, cut>>

\* Nothing is queued and the socket is full: the message is queued, without a flush.
SendAgain(m) ==
  /\ Begin(m) /\ queue = <<>> /\ sk.net \in {"est", "eof"}
  /\ parts' = m /\ flushing' = FALSE /\ step' = "append"
  /\ UNCHANGED <<sk, wire, queue, bytes, hit, refs, whole, cut>>

\* Nothing is queued and the connection is broken: the error is returned.  A vector is
\* written by writev, which raises SIGPIPE where send with MSG_NOSIGNAL does not.
SendError(m) ==
  /\ Begin(m) /\ queue = <<>> /\ sk.net = "lost"
  /\ step' \in (IF Len(m) > 1 THEN {"idle", "killed"} ELSE {"idle"})
  /\ UNCHANGED <<sk, wire, queue, bytes, hit, refs, parts, flushing, whole, cut>>

\* session_out_check_highwater after n bytes are queued: is the callback due, and the flag.
Crossed(n) == n >= HighWater /\ ~hit
HitAfter(n) == n >= HighWater

\* session_out_append_mem or _append_buf, session_out_enqueue and the mark.
AppendPart ==
  /\ step = "append" /\ parts # <<>>
  /\ queue' = Append(queue, Head(parts)) /\ parts' = Tail(parts)
  /\ bytes' = bytes + Head(parts).len
  /\ refs' = refs + BufRefs(<<Head(parts)>>)
  /\ hit' = HitAfter(bytes')
  /\ step' = (IF Crossed(bytes') THEN "high" ELSE step)
  /\ UNCHANGED <<sk, wire, sends, flushing, size, whole, cut>>

\* No memory: ZTK_ERR_NOMEM, the parts before this one stay queued or sent.
AppendFails ==
  /\ step = "append" /\ parts # <<>>
  /\ parts' = <<>> /\ step' = "idle"
  /\ UNCHANGED <<sk, wire, sends, queue, bytes, hit, refs, flushing, size, whole, cut>>

\* Every part is queued: ZTK_OK, after a flush where the code calls one.
AppendDone ==
  /\ step = "append" /\ parts = <<>>
  /\ step' = (IF flushing THEN "flush" ELSE "idle")
  /\ whole' = whole \cup {<<sends, size>>}
  /\ UNCHANGED <<sk, wire, sends, queue, bytes, hit, refs, parts, flushing, size, cut>>

\* on_out_highwater returns.
HighReturns ==
  /\ step = "high" /\ step' = "append"
  /\ UNCHANGED <<sk, wire, sends, queue, bytes, hit, refs, parts, flushing, size, whole, cut>>

-----------------------------------------------------------------------------
(* session_out_flush                                                       *)

\* session_out_try_sendv: what one call offers, at most IovMax chunks.
Offered == SubSeq(queue, 1, Min({IovMax, Len(queue)}))

\* Bug: only a queue over the mark is flushed by the manager.
FlushCallOnHigh ==
  /\ step = "idle" /\ queue # <<>> /\ hit
  /\ step' = "flush"
  /\ UNCHANGED <<sk, wire, sends, queue, bytes, hit, refs, parts, flushing, size, whole, cut>>

\* ztk_tcp_session_flush by the application, or by the manager timer.
FlushCall ==
  /\ step = "idle" /\ queue # <<>>
  /\ step' = "flush"
  /\ UNCHANGED <<sk, wire, sends, queue, bytes, hit, refs, parts, flushing, size, whole, cut>>

\* Bug: a partial write is taken for the whole batch.
FlushRoundAll(n) ==
  /\ step = "flush" /\ queue # <<>> /\ n \in Sent(sk, Total(Offered))
  /\ wire' = wire \o SubSeq(BytesOf(queue), 1, n)
  /\ queue' = SubSeq(queue, Len(Offered) + 1, Len(queue))
  /\ bytes' = Total(queue')
  /\ refs' = refs - (BufRefs(queue) - BufRefs(queue'))
  /\ UNCHANGED <<sk, sends, hit, step, parts, flushing, size, whole, cut>>

\* One round: the socket takes n of the bytes offered.
FlushRound(n) ==
  /\ step = "flush" /\ queue # <<>> /\ n \in Sent(sk, Total(Offered))
  /\ wire' = wire \o SubSeq(BytesOf(queue), 1, n)
  /\ queue' = Advance(queue, n) /\ bytes' = bytes - n
  /\ refs' = refs - (BufRefs(queue) - BufRefs(queue'))
  /\ UNCHANGED <<sk, sends, hit, step, parts, flushing, size, whole, cut>>

\* Nothing left, the socket is full, or it fails: the call returns all the same, unless
\* the failing call was a writev and the signal ends the process.
FlushReturns ==
  /\ step = "flush"
  /\ step' \in (IF sk.net = "lost" /\ Len(queue) > 1 THEN {"idle", "killed"} ELSE {"idle"})
  /\ UNCHANGED <<sk, wire, sends, queue, bytes, hit, refs, parts, flushing, size, whole, cut>>

\* Bug: discard leaves the references of the chunks behind.
DiscardKeepsRefs ==
  /\ step \in {"idle", "high"} /\ queue # <<>>
  /\ queue' = <<>> /\ bytes' = 0 /\ hit' = FALSE
  /\ cut' = cut \cup {queue[i].msg : i \in DOMAIN queue}
  /\ UNCHANGED <<sk, wire, sends, refs, step, parts, flushing, size, whole>>

\* ztk_tcp_session_out_discard, also from on_out_highwater.
Discard ==
  /\ step \in {"idle", "high"} /\ queue # <<>>
  /\ queue' = <<>> /\ bytes' = 0 /\ hit' = FALSE
  /\ refs' = refs - BufRefs(queue)
  /\ cut' = cut \cup {queue[i].msg : i \in DOMAIN queue}
  /\ UNCHANGED <<sk, wire, sends, step, parts, flushing, size, whole>>

\* session_remove: the application closes, or the connection has ended.
SessionClose ==
  /\ step = "idle"
  /\ queue' = <<>> /\ bytes' = 0 /\ refs' = refs - BufRefs(queue)
  /\ sk' = NoSocket
  /\ step' = "closed"
  /\ UNCHANGED <<wire, sends, hit, parts, flushing, size, whole, cut>>

SessionCall ==
  \/ \E m \in Messages : SendQueued(m) \/ SendAgain(m) \/ SendError(m)
                           \/ \E n \in Taken(Total(m)) : SendDirect(m, n)
  \/ Discard \/ SessionClose

SessionStep ==
  \/ AppendPart \/ AppendFails \/ AppendDone \/ HighReturns
  \/ \E n \in Taken(bytes) : FlushRound(n)
  \/ FlushReturns

SessionNext == SessionCall \/ SessionStep \/ FlushCall

-----------------------------------------------------------------------------
(* Properties                                                              *)

Before(a, b) == a[1] < b[1] \/ (a[1] = b[1] /\ a[2] < b[2])

\* The bytes the kernel has taken followed by those queued are in the order of the calls,
\* none twice, whatever was written directly, in part, or queued (ztk_tcp_session_send,
\* sendv, send_buf, session_out_flush); and of a message reported ZTK_OK the first IovMax
\* parts, beyond which sendv drops, are all there unless it was discarded.
SessionInOrder ==
  step \notin {"closed", "killed"} =>
    LET s == wire \o BytesOf(queue) IN
      /\ \A i \in 1 .. Len(s) - 1 : Before(s[i], s[i + 1])
      /\ \A w \in whole : w[1] \notin cut => ToSet(Bytes(w[1], 0, w[2])) \subseteq ToSet(s)

\* out_pending is the number of bytes queued, and the application's buffer has one
\* reference per chunk that points to it beside its own (session_out_enqueue,
\* session_out_advance_sent, session_out_pop_chunk, ztk_tcp_session_out_discard).
SessionBalanced == bytes = Total(queue) /\ refs = 1 + BufRefs(queue)

=============================================================================
