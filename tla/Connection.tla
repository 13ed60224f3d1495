----------------------------- MODULE Connection -----------------------------
(***************************************************************************)
(* What the user of ztk_tcp_client or ztk_tls_client is promised about the *)
(* callbacks of a connection: on_connect once, then on_recv, and at most   *)
(* one on_error, which is the last.                                        *)
(***************************************************************************)
EXTENDS Sequences

VARIABLES
  phase,   \* idle, opening, up, down
  log      \* callbacks since connect; repeated on_recv are written once

Init == phase = "idle" /\ log = <<>>

\* connect succeeds; on_connect may have run before it returns.
Open ==
  /\ phase # "down"
  /\ \/ phase' = "opening" /\ log' = <<>>
     \/ phase' = "up" /\ log' = <<"connect">>

Up == phase = "opening" /\ phase' = "up" /\ log' = Append(log, "connect")

Recv ==
  /\ phase = "up" /\ phase' = phase
  /\ log' = (IF log[Len(log)] = "recv" THEN log ELSE Append(log, "recv"))

Fail == phase \in {"opening", "up"} /\ phase' = "down" /\ log' = Append(log, "error")

\* close, destroy, or a connect that fails at once.
Close == phase' = "idle" /\ log' = <<>>

Next == Open \/ Up \/ Recv \/ Fail \/ Close

Spec == Init /\ [][Next]_<<phase, log>>

=============================================================================
