---------------------------- MODULE TicketQueue ----------------------------
(***************************************************************************)
(* What a bounded multi-producer single-consumer queue promises: a push    *)
(* takes a place in line, later fills it, and the consumer takes items     *)
(* strictly in the order of the places, each once.                         *)
(***************************************************************************)
EXTENDS Naturals, Sequences

CONSTANTS Value, Cap

VARIABLES
  line,   \* places taken and not yet consumed, in order
  out     \* items consumed so far

Init == line = <<>> /\ out = <<>>

Claim(x) ==
  /\ Len(line) < Cap
  /\ line' = Append(line, [item |-> x, ready |-> FALSE])
  /\ UNCHANGED out

Fill(i) ==
  /\ ~line[i].ready
  /\ line' = [line EXCEPT ![i].ready = TRUE]
  /\ UNCHANGED out

Take ==
  /\ line # <<>> /\ Head(line).ready
  /\ out' = Append(out, Head(line).item)
  /\ line' = Tail(line)

Next ==
  \/ \E x \in Value : Claim(x)
  \/ \E i \in 1 .. Len(line) : Fill(i)
  \/ Take

Spec == Init /\ [][Next]_<<line, out>>
=============================================================================
