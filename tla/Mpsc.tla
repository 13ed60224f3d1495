-------------------------------- MODULE Mpsc --------------------------------
(***************************************************************************)
(* ztk_mpsc_queue: a ring of cells, each with a sequence number that says  *)
(* whose turn the cell is.  One step per atomic access (all SEQ_CST) and   *)
(* one per plain access to a cell's data.  head and tail are uint64_t in   *)
(* the code and do not wrap in the life of a program; here they are        *)
(* natural numbers.                                                        *)
(***************************************************************************)
EXTENDS Naturals, Sequences, FiniteSets

CONSTANTS
  Producers,
  Cap,       \* cap_pow2
  MaxPush,   \* bound on the pushes of one producer that take a place
  None       \* the NULL of a cell never written

ASSUME MpscAssumption ==
  /\ Cap \in Nat /\ Cap >= 2
  /\ MaxPush \in Nat
  /\ None \notin Producers \X Nat

VARIABLES
  tail, head, seq, data,  \* the queue; seq and data by cell
  ppc, pos,       \* per producer: where it is in push, its local pos
  cpc, got,       \* the consumer: where it is in pop, its local data
  made,           \* per producer: pushes that took a place
  claimed, popped \* history: items by place, items returned by pop

vars == <<tail, head, seq, data, ppc, pos, cpc, got, made, claimed, popped>>
pushVars == <<ppc, pos, made, claimed>>
popVars == <<cpc, got, popped>>

Cells == 0 .. Cap - 1
Items == Producers \X (0 .. MaxPush - 1)
Cell(n) == n % Cap          \* pos & mask
Item(p) == <<p, made[p]>>   \* what p pushes next

TypeOK ==
  /\ tail \in Nat /\ head \in Nat
  /\ seq \in [Cells -> Nat]
  /\ data \in [Cells -> Items \cup {None}]
  /\ ppc \in [Producers -> {"idle", "cell", "cas", "reload", "write", "publish"}]
  /\ pos \in [Producers -> Nat]
  /\ cpc \in {"idle", "read", "release", "advance"}
  /\ got \in Items \cup {None}
  /\ made \in [Producers -> 0 .. MaxPush]
  /\ claimed \in Seq(Items) /\ popped \in Seq(Items)

\* ztk_mpsc_create
Init ==
  /\ tail = 0 /\ head = 0
  /\ seq = [c \in Cells |-> c]
  /\ data = [c \in Cells |-> None]
  /\ ppc = [p \in Producers |-> "idle"]
  /\ pos = [p \in Producers |-> 0]
  /\ cpc = "idle" /\ got = None
  /\ made = [p \in Producers |-> 0]
  /\ claimed = <<>> /\ popped = <<>>

-----------------------------------------------------------------------------
(* ztk_mpsc_push                                                           *)

\* pos = load(tail), on entry or after a cell found to be ahead of pos.
PushLoadTail(p) ==
  /\ ppc[p] \in {"idle", "reload"} /\ made[p] < MaxPush
  /\ pos' = [pos EXCEPT ![p] = tail]
  /\ ppc' = [ppc EXCEPT ![p] = "cell"]
  /\ UNCHANGED <<tail, head, seq, data, made, claimed, popVars>>

\* Bug: any cell that is not at pos is taken for a full queue.
PushLoadSeqStrict(p) ==
  /\ ppc[p] = "cell"
  /\ ppc' = [ppc EXCEPT ![p] = IF seq[Cell(pos[p])] = pos[p] THEN "cas" ELSE "idle"]
  /\ UNCHANGED <<tail, head, seq, data, pos, made, claimed, popVars>>

\* seq = load(cell->seq) and the three ways to go on: try to claim, give up
\* with ZTK_ERR_AGAIN, or look at tail again.
PushLoadSeq(p) ==
  /\ ppc[p] = "cell"
  /\ LET s == seq[Cell(pos[p])]
     IN  ppc' = [ppc EXCEPT ![p] = IF s = pos[p] THEN "cas"
                                   ELSE IF s < pos[p] THEN "idle" ELSE "reload"]
  /\ UNCHANGED <<tail, head, seq, data, pos, made, claimed, popVars>>

\* Bug: the claim is a plain store of pos + 1, not a compare-and-swap.
PushStoreTail(p) ==
  /\ ppc[p] = "cas"
  /\ tail' = pos[p] + 1
  /\ claimed' = Append(claimed, Item(p))
  /\ ppc' = [ppc EXCEPT ![p] = "write"]
  /\ UNCHANGED <<head, seq, data, pos, made, popVars>>

\* cas(tail, pos, pos + 1); a failed one has loaded tail into pos.
PushCas(p) ==
  /\ ppc[p] = "cas"
  /\ IF tail = pos[p]
     THEN /\ tail' = tail + 1
          /\ claimed' = Append(claimed, Item(p))
          /\ ppc' = [ppc EXCEPT ![p] = "write"]
          /\ UNCHANGED pos
     ELSE /\ pos' = [pos EXCEPT ![p] = tail]
          /\ ppc' = [ppc EXCEPT ![p] = "cell"]
          /\ UNCHANGED <<tail, claimed>>
  /\ UNCHANGED <<head, seq, data, made, popVars>>

\* cell->data = item
PushWrite(p) ==
  /\ ppc[p] = "write"
  /\ data' = [data EXCEPT ![Cell(pos[p])] = Item(p)]
  /\ ppc' = [ppc EXCEPT ![p] = "publish"]
  /\ UNCHANGED <<tail, head, seq, pos, made, claimed, popVars>>

\* Bug: the cell is published with its old number.
PushPublishOld(p) ==
  /\ ppc[p] = "publish"
  /\ made' = [made EXCEPT ![p] = @ + 1]
  /\ ppc' = [ppc EXCEPT ![p] = "idle"]
  /\ UNCHANGED <<tail, head, seq, data, pos, claimed, popVars>>

\* store(cell->seq, pos + 1); the push returns ZTK_OK.
PushPublish(p) ==
  /\ ppc[p] = "publish"
  /\ seq' = [seq EXCEPT ![Cell(pos[p])] = pos[p] + 1]
  /\ made' = [made EXCEPT ![p] = @ + 1]
  /\ ppc' = [ppc EXCEPT ![p] = "idle"]
  /\ UNCHANGED <<tail, head, data, pos, claimed, popVars>>

-----------------------------------------------------------------------------
(* ztk_mpsc_pop, called by one thread only                                 *)

Published(n) == seq[Cell(n)] = n + 1

\* Bug: pop compares head with tail and does not look at the cell's number.
PopLoadByTail ==
  /\ cpc = "idle" /\ head < tail
  /\ cpc' = "read"
  /\ UNCHANGED <<tail, head, seq, data, pushVars, got, popped>>

\* head and the cell's seq are loaded; a cell not published yet ends the call
\* with NULL, which changes nothing.
PopLoad ==
  /\ cpc = "idle" /\ Published(head)
  /\ cpc' = "read"
  /\ UNCHANGED <<tail, head, seq, data, pushVars, got, popped>>

PopRead ==
  /\ cpc = "read"
  /\ got' = data[Cell(head)]
  /\ cpc' = "release"
  /\ UNCHANGED <<tail, head, seq, data, pushVars, popped>>

\* store(cell->seq, pos + mask + 1): the cell waits for the next lap.
PopRelease ==
  /\ cpc = "release"
  /\ seq' = [seq EXCEPT ![Cell(head)] = head + Cap]
  /\ cpc' = "advance"
  /\ UNCHANGED <<tail, head, data, pushVars, got, popped>>

PopAdvance ==
  /\ cpc = "advance"
  /\ head' = head + 1
  /\ popped' = Append(popped, got)
  /\ cpc' = "idle"
  /\ UNCHANGED <<tail, seq, data, pushVars, got>>

-----------------------------------------------------------------------------
Push(p) ==
  \/ PushLoadTail(p) \/ PushLoadSeq(p) \/ PushCas(p)
  \/ PushWrite(p) \/ PushPublish(p)

Pop == PopLoad \/ PopRead \/ PopRelease \/ PopAdvance

\* Every producer has made its pushes and everything has been popped.
Drained ==
  /\ \A p \in Producers : ppc[p] = "idle" /\ made[p] = MaxPush
  /\ cpc = "idle" /\ head = tail
  /\ UNCHANGED vars

Next == (\E p \in Producers : Push(p)) \/ Pop \/ Drained

Spec == Init /\ [][Next]_vars

\* Threads are scheduled, and the consumer keeps calling pop.
FairSpec ==
  /\ Spec
  /\ WF_vars(Pop)
  /\ \A p \in Producers : WF_vars(PushWrite(p) \/ PushPublish(p))

-----------------------------------------------------------------------------
(* Properties                                                              *)

\* Places whose cell has been handed back to the producers.
Released == IF cpc = "advance" THEN head + 1 ELSE head

\* The ring implements the abstract queue: items come out in the order of the
\* places the compare-and-swap gave, each once, none invented, and no push is
\* given a place while Cap places are in use (mpsc.c:113-156).
Abstract == INSTANCE TicketQueue WITH
  Value <- Items,
  line <- [i \in 1 .. tail - Released |->
             [item  |-> claimed[Released + i],
              ready |-> Published(Released + i - 1)]],
  out  <- IF cpc = "advance" THEN Append(popped, got) ELSE popped
Refines == Abstract!Spec

\* A cell's data is a plain pointer: two producers never own one cell, and the
\* consumer never reads a cell a producer is writing (mpsc.c:131, 154).
Owned(p) == IF ppc[p] \in {"write", "publish"} THEN {Cell(pos[p])} ELSE {}
CellExclusive ==
  /\ \A p, q \in Producers : p # q => Owned(p) \cap Owned(q) = {}
  /\ cpc \in {"read", "release"} => \A p \in Producers : Cell(head) \notin Owned(p)

\* ZTK_ERR_AGAIN means that the queue is full, as mpsc.h:18 says, although the
\* producer compares a fresh cell number with a tail it loaded earlier.
AgainOnlyWhenFull ==
  [][\A p \in Producers :
       ppc[p] = "cell" /\ ppc'[p] = "idle" => tail - Released = Cap]_vars

\* Every push that takes a place is popped once its producer goes on.
ClaimedIsPopped ==
  \A n \in 1 .. MaxPush * Cardinality(Producers) : Len(claimed) >= n ~> Len(popped) >= n

=============================================================================
