------------------------------ MODULE MpscProofs -----------------------------
(***************************************************************************)
(* Proofs about Mpsc, for any number of producers and pushes and any       *)
(* capacity of at least 2: the plain accesses to the cells' data never     *)
(* race, a push is refused only when the queue is full, and the ring       *)
(* implements the abstract queue.                                          *)
(*                                                                         *)
(* The argument speaks of places, the values tail and head go through, not *)
(* of cells: the Cap places from Released on have a cell each, and the     *)
(* number of its cell says what a place is: free, claimed or published.    *)
(***************************************************************************)
EXTENDS Mpsc, Integers, TLAPS

\* The places whose cells are spoken for, free or not.
Window == Released .. Released + Cap - 1

\* Producer p has claimed a place and not published it.
Owns(p) == ppc[p] \in {"write", "publish"}

Typed ==
  /\ tail \in Nat /\ head \in Nat
  /\ seq \in [Cells -> Nat] /\ data \in [Cells -> Items \cup {None}]
  /\ ppc \in [Producers -> {"idle", "cell", "cas", "reload", "write", "publish"}]
  /\ pos \in [Producers -> Nat] /\ made \in [Producers -> Nat]
  /\ cpc \in {"idle", "read", "release", "advance"} /\ got \in Items \cup {None}
  /\ claimed \in Seq(Items) /\ popped \in Seq(Items \cup {None})
  /\ Len(claimed) = tail

\* head and tail, and what the number of a place's cell says.
Ring ==
  /\ Released <= tail /\ tail <= Released + Cap
  /\ \A n \in Window : seq[Cell(n)] = n \/ (n < tail /\ seq[Cell(n)] = n + 1)

\* What a producer knows of the place it is at.
Knows(p) ==
  /\ ppc[p] # "idle" => made[p] < MaxPush
  /\ ppc[p] = "cell" =>
       /\ pos[p] <= tail
       /\ seq[Cell(pos[p])] >= pos[p] \/ pos[p] = Released + Cap
  /\ ppc[p] = "cas" => pos[p] <= tail /\ pos[p] < Released + Cap
  /\ Owns(p) => Released <= pos[p] /\ pos[p] < tail /\ seq[Cell(pos[p])] = pos[p]
Producing == \A p \in Producers : Knows(p)

\* A place is claimed by one producer.
Alone == \A p, q \in Producers : p # q /\ Owns(p) /\ Owns(q) => pos[p] # pos[q]

\* The consumer has found the cell at head published.
Consuming ==
  /\ cpc \in {"read", "release"} => Published(head)
  /\ cpc = "release" => got = claimed[head + 1]
  /\ cpc = "read" => head < tail

\* Every claimed place holds, or will hold, the item claimed for it.
Filled ==
  /\ \A n \in Released .. tail - 1 : Published(n) => data[Cell(n)] = claimed[n + 1]
  /\ \A p \in Producers : Owns(p) => claimed[pos[p] + 1] = Item(p)
  /\ \A p \in Producers : ppc[p] = "publish" => data[Cell(pos[p])] = Item(p)

MpscInv == Typed /\ Ring /\ Producing /\ Alone /\ Consuming /\ Filled

-----------------------------------------------------------------------------
(* Places and cells                                                        *)

LEMMA Remainder == \A n \in Nat : n % Cap \in 0 .. Cap - 1
  BY MpscAssumption

LEMMA Quotient == \A n \in Nat : \E q \in Nat : n = (Cap * q) + (n % Cap)
<1>1. \A n \in Nat : n \div Cap \in Nat /\ n = (Cap * (n \div Cap)) + (n % Cap)
  BY MpscAssumption
<1> QED
  BY <1>1

\* Multiples of Cap that are closer than Cap are equal.
LEMMA Multiples ==
  ASSUME NEW a \in Int, NEW b \in Int, NEW d \in Int, -Cap < d, d < Cap, Cap * a = (Cap * b) + d
  PROVE  d = 0
<1>1. d = Cap * (a - b)
  BY MpscAssumption
<1>2. CASE a < b
  BY <1>1, <1>2, MpscAssumption
<1>3. CASE a > b
  BY <1>1, <1>3, MpscAssumption
<1> QED
  BY <1>2, <1>3, MpscAssumption

LEMMA CellIn == \A n \in Nat : Cell(n) \in Cells
  BY Remainder DEF Cell, Cells

\* Cells are used again after one lap, ...
LEMMA CellNext ==
  ASSUME NEW n \in Nat
  PROVE  Cell(n + Cap) = Cell(n)
<1>0. n + Cap \in Nat
  BY MpscAssumption
<1>1. PICK a \in Nat : n = (Cap * a) + (n % Cap)
  BY Quotient
<1>2. PICK b \in Nat : n + Cap = (Cap * b) + ((n + Cap) % Cap)
  BY <1>0, Quotient
<1>3. n % Cap \in 0 .. Cap - 1 /\ (n + Cap) % Cap \in 0 .. Cap - 1
  BY <1>0, Remainder
<1>4. PICK d \in Int : d = (n % Cap) - ((n + Cap) % Cap)
  <2>1. \A x, y \in 0 .. Cap - 1 : x - y \in Int
    BY MpscAssumption
  <2> QED
    BY <1>3, <2>1
<1>5. -Cap < d /\ d < Cap /\ Cap * b = (Cap * (a + 1)) + d
  BY <1>1, <1>2, <1>3, <1>4, MpscAssumption
<1>6. a + 1 \in Int /\ b \in Int
  OBVIOUS
<1>7. d = 0
  BY <1>5, <1>6, Multiples
<1> QED
  BY <1>3, <1>4, <1>7 DEF Cell

\* ... and not before.
LEMMA CellsApart ==
  ASSUME NEW n \in Nat, NEW m \in Nat, n # m, n < m + Cap, m < n + Cap
  PROVE  Cell(n) # Cell(m)
<1> SUFFICES ASSUME n % Cap = m % Cap
             PROVE  FALSE
  BY DEF Cell
<1>1. PICK a \in Nat : n = (Cap * a) + (n % Cap)
  BY Quotient
<1>2. PICK b \in Nat : m = (Cap * b) + (m % Cap)
  BY Quotient
<1>3. Cap * b = (Cap * a) + (m - n) /\ a \in Int /\ b \in Int /\ m - n \in Int
  BY <1>1, <1>2, Remainder, MpscAssumption
<1>4. m - n = 0
  BY <1>3, Multiples, MpscAssumption
<1> QED
  BY <1>4

\* At the start cell c is at place c.
LEMMA FirstLap == \A n \in 0 .. Cap - 1 : Cell(n) = n
  BY MpscAssumption DEF Cell

LEMMA ReleasedNat ==
  ASSUME Typed
  PROVE  Released \in Nat /\ \A n \in Window : n \in Nat
  BY MpscAssumption DEF Typed, Released, Window

\* A producer that loads tail finds its cell at tail, unless the ring is full.
LEMMA TailCell ==
  ASSUME MpscInv
  PROVE  /\ tail <= Released + Cap
         /\ seq[Cell(tail)] >= tail \/ tail = Released + Cap
         /\ tail < Released + Cap => seq[Cell(tail)] = tail
<1>0. Released \in Nat /\ tail \in Nat /\ Cap \in Nat /\ Released <= tail /\ tail <= Released + Cap
  BY ReleasedNat, MpscAssumption DEF MpscInv, Typed, Ring
<1>1. CASE tail = Released + Cap
  BY <1>0, <1>1
<1>2. CASE tail # Released + Cap
  <2>1. tail \in Window /\ ~(tail < tail)
    BY <1>0, <1>2 DEF Window
  <2>2. seq[Cell(tail)] = tail
    BY <2>1 DEF MpscInv, Ring
  <2> QED
    BY <1>0, <2>2
<1> QED
  BY <1>1, <1>2

\* What the consumer reads has been claimed.
LEMMA HeadPublished ==
  ASSUME MpscInv, cpc \in {"read", "release"}
  PROVE  Released = head /\ head \in Window /\ head < tail /\ head \in Nat
<1>1. Released = head /\ head \in Nat /\ tail \in Nat /\ Cap \in Nat /\ Cap >= 2
  BY MpscAssumption DEF MpscInv, Typed, Released
<1>2. head \in Window
  BY <1>1 DEF Window
<1>3. seq[Cell(head)] = head + 1 /\ head + 1 # head
  BY <1>1 DEF MpscInv, Consuming, Published
<1> QED
  BY <1>1, <1>2, <1>3 DEF MpscInv, Ring

-----------------------------------------------------------------------------
(* The steps of push                                                       *)

\* Steps that change nothing but where producer p is.
LEMMA StepLoadTail ==
  ASSUME MpscInv, NEW p \in Producers, PushLoadTail(p)
  PROVE  MpscInv'
<1> USE DEF popVars
<1>0. Released' = Released /\ Released \in Nat
  BY ReleasedNat DEF PushLoadTail, Released, MpscInv
<1>1. /\ UNCHANGED <<tail, head, seq, data, made, claimed, cpc, got, popped>>
      /\ pos' = [pos EXCEPT ![p] = tail] /\ ppc' = [ppc EXCEPT ![p] = "cell"]
      /\ made[p] < MaxPush /\ ~Owns(p)
  BY DEF PushLoadTail, Owns
<1>2. /\ pos'[p] = tail /\ ppc'[p] = "cell"
      /\ \A q \in Producers : q # p => pos'[q] = pos[q] /\ ppc'[q] = ppc[q]
  BY <1>1 DEF MpscInv, Typed
<1>3. \A q \in Producers : Owns(q)' = Owns(q) /\ (Owns(q) => q # p)
  BY <1>1, <1>2 DEF Owns
<1>4. Typed' /\ Ring' /\ Consuming'
  BY <1>0, <1>1 DEF MpscInv, Typed, Ring, Window, Consuming, Published
<1>5. seq[Cell(tail)] >= tail \/ tail = Released + Cap
  BY TailCell
<1>6. Producing'
  <2> SUFFICES ASSUME NEW q \in Producers
               PROVE  Knows(q)'
    BY DEF Producing
  <2>1. CASE q = p
    BY <1>0, <1>1, <1>2, <1>3, <1>5, <2>1 DEF MpscInv, Typed, Knows
  <2>2. CASE q # p
    BY <1>0, <1>1, <1>2, <1>3, <2>2 DEF MpscInv, Producing, Knows
  <2> QED
    BY <2>1, <2>2
<1>7. Alone'
  BY <1>2, <1>3 DEF MpscInv, Alone
<1>8. Filled'
  <2>1. \A q \in Producers : Owns(q) => pos'[q] = pos[q] /\ ppc'[q] = ppc[q] /\ Item(q)' = Item(q)
    BY <1>1, <1>2, <1>3 DEF Item
  <2>2. \A q \in Producers : ppc'[q] = "publish" => Owns(q) /\ ppc[q] = "publish"
    BY <1>2 DEF Owns
  <2>3. \A n : Published(n)' = Published(n)
    BY <1>1 DEF Published
  <2> QED
    BY <1>0, <1>1, <1>3, <2>1, <2>2, <2>3 DEF MpscInv, Filled
<1> QED
  BY <1>4, <1>6, <1>7, <1>8 DEF MpscInv

LEMMA StepLoadSeq ==
  ASSUME MpscInv, NEW p \in Producers, PushLoadSeq(p)
  PROVE  MpscInv'
<1> USE DEF popVars
<1>0. Released' = Released /\ Released \in Nat
  BY ReleasedNat DEF PushLoadSeq, Released, MpscInv
<1>1. /\ UNCHANGED <<tail, head, seq, data, pos, made, claimed, cpc, got, popped>>
      /\ ppc' = [ppc EXCEPT ![p] = ppc'[p]] /\ ppc[p] = "cell" /\ ~Owns(p)
      /\ ppc'[p] \in {"cas", "idle", "reload"}
      /\ ppc'[p] = "cas" => seq[Cell(pos[p])] = pos[p]
  BY DEF PushLoadSeq, Owns, MpscInv, Typed
<1>2. \A q \in Producers : q # p => ppc'[q] = ppc[q]
  BY <1>1 DEF MpscInv, Typed
<1>3. \A q \in Producers : Owns(q)' = Owns(q) /\ (Owns(q) => q # p)
  BY <1>1, <1>2 DEF Owns
<1>4. Typed' /\ Ring' /\ Consuming'
  <2>1. ppc' \in [Producers -> {"idle", "cell", "cas", "reload", "write", "publish"}]
    BY <1>1 DEF MpscInv, Typed
  <2> QED
    BY <1>0, <1>1, <2>1 DEF MpscInv, Typed, Ring, Window, Consuming, Published
<1>5. ppc'[p] = "cas" => pos[p] < Released + Cap
  <2> SUFFICES ASSUME seq[Cell(pos[p])] = pos[p], pos[p] >= Released + Cap
               PROVE  FALSE
    BY <1>0, <1>1, MpscAssumption DEF MpscInv, Typed
  <2>1. pos[p] = Released + Cap
    <3>1. pos[p] <= tail /\ tail <= Released + Cap
      BY <1>1 DEF MpscInv, Ring, Producing, Knows
    <3>2. pos[p] \in Nat /\ tail \in Nat /\ Cap \in Nat
      BY MpscAssumption DEF MpscInv, Typed
    <3> QED
      BY <1>0, <3>1, <3>2
  <2>2. Cell(pos[p]) = Cell(Released)
    BY <1>0, <2>1, CellNext
  <2>3. seq[Cell(Released)] = Released \/ seq[Cell(Released)] = Released + 1
    BY <1>0, MpscAssumption DEF MpscInv, Ring, Window
  <2> QED
    BY <1>0, <2>1, <2>2, <2>3, MpscAssumption
<1>6. Producing'
  <2> SUFFICES ASSUME NEW q \in Producers
               PROVE  Knows(q)'
    BY DEF Producing
  <2>1. CASE q = p
    BY <1>0, <1>1, <1>3, <1>5, <2>1 DEF MpscInv, Producing, Knows
  <2>2. CASE q # p
    BY <1>0, <1>1, <1>2, <1>3, <2>2 DEF MpscInv, Producing, Knows
  <2> QED
    BY <2>1, <2>2
<1>7. Alone'
  BY <1>1, <1>2, <1>3 DEF MpscInv, Alone
<1>8. Filled'
  BY <1>0, <1>1, <1>2, <1>3 DEF MpscInv, Filled, Published, Item
<1> QED
  BY <1>4, <1>6, <1>7, <1>8 DEF MpscInv

\* The compare-and-swap gives p the place at tail, or shows it where tail is.
LEMMA StepCas ==
  ASSUME MpscInv, NEW p \in Producers, PushCas(p)
  PROVE  MpscInv'
<1> USE DEF popVars
<1>0. Released' = Released /\ Released \in Nat
  BY ReleasedNat DEF PushCas, Released, MpscInv
<1>1. UNCHANGED <<head, seq, data, made, cpc, got, popped>> /\ ppc[p] = "cas" /\ ~Owns(p)
  BY DEF PushCas, Owns
<1>2. CASE tail # pos[p]
  <2>1. /\ UNCHANGED <<tail, claimed>>
        /\ pos' = [pos EXCEPT ![p] = tail] /\ ppc' = [ppc EXCEPT ![p] = "cell"]
    BY <1>2 DEF PushCas
  <2>2. /\ pos'[p] = tail /\ ppc'[p] = "cell"
        /\ \A q \in Producers : q # p => pos'[q] = pos[q] /\ ppc'[q] = ppc[q]
    BY <2>1 DEF MpscInv, Typed
  <2>3. \A q \in Producers : Owns(q)' = Owns(q) /\ (Owns(q) => q # p)
    BY <1>1, <2>2 DEF Owns
  <2>4. Typed' /\ Ring' /\ Consuming'
    BY <1>0, <1>1, <2>1 DEF MpscInv, Typed, Ring, Window, Consuming, Published
  <2>5. Producing'
    <3> SUFFICES ASSUME NEW q \in Producers
                 PROVE  Knows(q)'
      BY DEF Producing
    <3>1. CASE q = p
      BY <1>0, <1>1, <2>1, <2>2, <2>3, <3>1, TailCell DEF MpscInv, Typed, Producing, Knows
    <3>2. CASE q # p
      BY <1>0, <1>1, <2>1, <2>2, <2>3, <3>2 DEF MpscInv, Producing, Knows
    <3> QED
      BY <3>1, <3>2
  <2>6. Alone'
    BY <2>2, <2>3 DEF MpscInv, Alone
  <2>7. Filled'
    BY <1>0, <1>1, <2>1, <2>2, <2>3 DEF MpscInv, Filled, Published, Item
  <2> QED
    BY <2>4, <2>5, <2>6, <2>7 DEF MpscInv
<1>3. CASE tail = pos[p]
  <2>1. /\ tail' = tail + 1 /\ claimed' = Append(claimed, Item(p)) /\ pos' = pos
        /\ ppc' = [ppc EXCEPT ![p] = "write"]
    BY <1>3 DEF PushCas
  <2>2. ppc'[p] = "write" /\ \A q \in Producers : q # p => ppc'[q] = ppc[q]
    BY <2>1 DEF MpscInv, Typed
  <2>3. Owns(p)' /\ \A q \in Producers : q # p => Owns(q)' = Owns(q)
    BY <1>1, <2>2 DEF Owns
  <2>4. /\ tail \in Nat /\ made[p] \in Nat /\ made[p] < MaxPush /\ tail < Released + Cap
        /\ Released <= tail /\ Len(claimed) = tail /\ claimed \in Seq(Items)
    BY <1>1, <1>3 DEF MpscInv, Typed, Producing, Knows, Ring
  <2>5. Item(p) \in Items
    BY <2>4, MpscAssumption DEF Item, Items
  <2>6. /\ claimed' \in Seq(Items) /\ Len(claimed') = tail' /\ claimed'[tail + 1] = Item(p)
        /\ \A n \in 1 .. tail : claimed'[n] = claimed[n]
    BY <2>1, <2>4, <2>5
  <2>7. Typed'
    <3>1. ppc' \in [Producers -> {"idle", "cell", "cas", "reload", "write", "publish"}] /\ tail' \in Nat
      BY <2>1, <2>4 DEF MpscInv, Typed
    <3> QED
      BY <1>1, <2>1, <2>6, <3>1 DEF MpscInv, Typed
  <2>8. tail \in Window /\ Window' = Window /\ seq[Cell(tail)] = tail
    <3>1. tail \in Window /\ Window' = Window
      BY <1>0, <2>4, MpscAssumption DEF Window
    <3> QED
      BY <2>4, <3>1 DEF MpscInv, Ring
  <2>9. Ring'
    <3>1. \A n \in Window : n < tail => n < tail + 1
      BY <1>0, <2>4, MpscAssumption DEF Window
    <3>2. Released <= tail + 1 /\ tail + 1 <= Released + Cap
      BY <1>0, <2>4, MpscAssumption
    <3> QED
      BY <1>0, <1>1, <2>1, <2>8, <3>1, <3>2 DEF MpscInv, Ring
  <2>10. Consuming'
    <3>1. cpc \in {"read", "release"} => head \in Window /\ head < tail /\ head \in Nat
      BY <2>4, HeadPublished DEF MpscInv
    <3>2. cpc = "release" => claimed'[head + 1] = claimed[head + 1]
      BY <2>4, <2>6, <3>1
    <3> QED
      BY <1>1, <2>1, <2>4, <3>1, <3>2 DEF MpscInv, Typed, Consuming, Published
  <2>11. Producing'
    <3> SUFFICES ASSUME NEW q \in Producers
                 PROVE  Knows(q)'
      BY DEF Producing
    <3>1. CASE q = p
      BY <1>0, <1>1, <1>3, <2>1, <2>2, <2>3, <2>4, <2>8, <3>1 DEF Knows
    <3>2. CASE q # p
      <4>1. pos[q] \in Nat /\ \A n \in Nat : (n <= tail => n <= tail + 1) /\ (n < tail => n < tail + 1)
        BY <2>4 DEF MpscInv, Typed
      <4> QED
        BY <1>0, <1>1, <2>1, <2>2, <2>3, <3>2, <4>1 DEF MpscInv, Producing, Knows
    <3> QED
      BY <3>1, <3>2
  <2>12. \A q \in Producers : q # p /\ Owns(q) => pos[q] < tail /\ pos[q] # tail /\ pos[q] + 1 \in 1 .. tail
    BY <2>4 DEF MpscInv, Typed, Producing, Knows
  <2>13. Alone'
    BY <1>3, <2>1, <2>3, <2>12 DEF MpscInv, Alone
  <2>14. Filled'
    <3>1. ASSUME NEW n \in Released .. tail, Published(n)
          PROVE  data[Cell(n)] = claimed'[n + 1]
      <4>1. n # tail
        BY <2>4, <2>8, <3>1 DEF Published
      <4>2. n \in Released .. tail - 1 /\ n + 1 \in 1 .. tail
        BY <1>0, <2>4, <4>1
      <4> QED
        BY <2>6, <3>1, <4>2 DEF MpscInv, Filled
    <3>2. \A q \in Producers : Owns(q)' => claimed'[pos[q] + 1] = Item(q)
      BY <1>3, <2>3, <2>6, <2>12 DEF MpscInv, Filled
    <3>3. (Released .. tail - 1)' = Released .. tail
      BY <1>0, <2>1, <2>4
    <3> QED
      BY <1>0, <1>1, <2>1, <2>2, <3>1, <3>2, <3>3 DEF MpscInv, Filled, Published, Item
  <2> QED
    BY <2>7, <2>9, <2>10, <2>11, <2>13, <2>14 DEF MpscInv
<1> QED
  BY <1>2, <1>3

\* Claimed places, and the places of producers, have cells of their own.
LEMMA Apart ==
  ASSUME MpscInv, NEW n \in Window, NEW m \in Window, n # m
  PROVE  Cell(n) # Cell(m)
<1>1. n \in Nat /\ m \in Nat /\ n < m + Cap /\ m < n + Cap
  BY ReleasedNat, MpscAssumption DEF MpscInv, Window
<1> QED
  BY <1>1, CellsApart

LEMMA OwnPlace ==
  ASSUME MpscInv, NEW p \in Producers, Owns(p)
  PROVE  pos[p] \in Window /\ pos[p] \in Released .. tail - 1 /\ pos[p] \in Nat /\ seq[Cell(pos[p])] = pos[p]
<1>1. /\ Released \in Nat /\ tail \in Nat /\ Cap \in Nat /\ pos[p] \in Nat
      /\ Released <= pos[p] /\ pos[p] < tail /\ tail <= Released + Cap /\ seq[Cell(pos[p])] = pos[p]
  BY ReleasedNat, MpscAssumption DEF MpscInv, Typed, Ring, Producing, Knows
<1> QED
  BY <1>1 DEF Window

LEMMA ClaimedInWindow ==
  ASSUME MpscInv
  PROVE  Released .. tail - 1 \subseteq Window
<1>1. Released \in Nat /\ tail \in Nat /\ Cap \in Nat /\ tail <= Released + Cap
  BY ReleasedNat, MpscAssumption DEF MpscInv, Typed, Ring
<1> QED
  BY <1>1 DEF Window

LEMMA StepWrite ==
  ASSUME MpscInv, NEW p \in Producers, PushWrite(p)
  PROVE  MpscInv'
<1> USE DEF popVars
<1>0. Released' = Released /\ Released \in Nat
  BY ReleasedNat DEF PushWrite, Released, MpscInv
<1>1. /\ UNCHANGED <<tail, head, seq, pos, made, claimed, cpc, got, popped>>
      /\ data' = [data EXCEPT ![Cell(pos[p])] = Item(p)]
      /\ ppc' = [ppc EXCEPT ![p] = "publish"] /\ ppc[p] = "write" /\ Owns(p)
  BY DEF PushWrite, Owns
<1>2. ppc'[p] = "publish" /\ \A q \in Producers : q # p => ppc'[q] = ppc[q]
  BY <1>1 DEF MpscInv, Typed
<1>3. \A q \in Producers : Owns(q)' = Owns(q)
  BY <1>1, <1>2 DEF Owns
<1>4. /\ pos[p] \in Window /\ pos[p] \in Nat /\ seq[Cell(pos[p])] = pos[p]
      /\ Cell(pos[p]) \in Cells /\ pos[p] # pos[p] + 1
  BY <1>1, OwnPlace, CellIn
<1>5. Item(p) \in Items
  <2>1. made[p] < MaxPush /\ made[p] \in Nat
    BY <1>1 DEF MpscInv, Typed, Producing, Knows
  <2> QED
    BY <2>1, MpscAssumption DEF Item, Items
<1>6. /\ data'[Cell(pos[p])] = Item(p)
      /\ \A c \in Cells : c # Cell(pos[p]) => data'[c] = data[c]
  BY <1>1, <1>4 DEF MpscInv, Typed
<1>7. Typed' /\ Ring' /\ Consuming'
  <2>1. data' \in [Cells -> Items \cup {None}]
    BY <1>1, <1>5 DEF MpscInv, Typed
  <2>2. ppc' \in [Producers -> {"idle", "cell", "cas", "reload", "write", "publish"}]
    BY <1>1 DEF MpscInv, Typed
  <2> QED
    BY <1>0, <1>1, <2>1, <2>2 DEF MpscInv, Typed, Ring, Window, Consuming, Published
<1>8. Producing'
  <2> SUFFICES ASSUME NEW q \in Producers
               PROVE  Knows(q)'
    BY DEF Producing
  <2>1. CASE q = p
    BY <1>0, <1>1, <1>2, <1>3, <2>1 DEF MpscInv, Producing, Knows
  <2>2. CASE q # p
    BY <1>0, <1>1, <1>2, <1>3, <2>2 DEF MpscInv, Producing, Knows
  <2> QED
    BY <2>1, <2>2
<1>9. Alone'
  BY <1>1, <1>3 DEF MpscInv, Alone
<1>10. Filled'
  <2>1. ASSUME NEW n \in Released .. tail - 1, Published(n)
        PROVE  data'[Cell(n)] = claimed[n + 1]
    <3>1. n # pos[p] /\ n \in Window
      BY <1>4, <2>1, ClaimedInWindow DEF Published
    <3>2. Cell(n) # Cell(pos[p]) /\ Cell(n) \in Cells
      BY <1>4, <3>1, Apart, CellIn, ReleasedNat DEF MpscInv
    <3> QED
      BY <1>6, <2>1, <3>2 DEF MpscInv, Filled
  <2>2. ASSUME NEW q \in Producers, ppc'[q] = "publish"
        PROVE  data'[Cell(pos[q])] = Item(q)
    <3>1. CASE q = p
      BY <1>6, <3>1
    <3>2. CASE q # p
      <4>1. Owns(q) /\ ppc[q] = "publish"
        BY <1>2, <2>2, <3>2 DEF Owns
      <4>2. pos[q] \in Window /\ pos[q] # pos[p] /\ Cell(pos[q]) \in Cells
        BY <1>1, <3>2, <4>1, OwnPlace, CellIn DEF MpscInv, Alone
      <4>3. Cell(pos[q]) # Cell(pos[p])
        BY <1>4, <4>2, Apart
      <4> QED
        BY <1>6, <4>1, <4>2, <4>3 DEF MpscInv, Filled
    <3> QED
      BY <3>1, <3>2
  <2> QED
    BY <1>0, <1>1, <1>3, <2>1, <2>2 DEF MpscInv, Filled, Published, Item
<1> QED
  BY <1>7, <1>8, <1>9, <1>10 DEF MpscInv

\* The number of the cell at place k becomes v; a lap later than it was, at most.
LEMMA Renumbered ==
  ASSUME MpscInv, NEW k \in Window, NEW v \in Nat, seq' = [seq EXCEPT ![Cell(k)] = v]
  PROVE  /\ seq' \in [Cells -> Nat] /\ seq'[Cell(k)] = v
         /\ \A n \in Window : n # k => seq'[Cell(n)] = seq[Cell(n)]
         /\ \A n \in Nat : seq'[Cell(n)] = seq[Cell(n)] \/ (Cell(n) = Cell(k) /\ seq'[Cell(n)] = v)
<1>1. k \in Nat /\ Cell(k) \in Cells /\ \A n \in Nat : Cell(n) \in Cells
  BY ReleasedNat, CellIn DEF MpscInv
<1>2. \A n \in Window : n \in Nat
  BY ReleasedNat DEF MpscInv
<1>3. \A c \in Cells : seq'[c] = IF c = Cell(k) THEN v ELSE seq[c]
  BY <1>1 DEF MpscInv, Typed
<1>4. seq' \in [Cells -> Nat]
  BY <1>1 DEF MpscInv, Typed
<1>5. \A n \in Window : n # k => Cell(n) # Cell(k)
  BY Apart
<1> QED
  BY <1>1, <1>2, <1>3, <1>4, <1>5

LEMMA StepPublish ==
  ASSUME MpscInv, NEW p \in Producers, PushPublish(p)
  PROVE  MpscInv'
<1> USE DEF popVars
<1>0. Released' = Released /\ Released \in Nat /\ tail \in Nat /\ Cap \in Nat
  BY ReleasedNat, MpscAssumption DEF PushPublish, Released, MpscInv, Typed
<1>1. /\ UNCHANGED <<tail, head, data, pos, claimed, cpc, got, popped>>
      /\ seq' = [seq EXCEPT ![Cell(pos[p])] = pos[p] + 1]
      /\ made' = [made EXCEPT ![p] = @ + 1]
      /\ ppc' = [ppc EXCEPT ![p] = "idle"] /\ ppc[p] = "publish" /\ Owns(p)
  BY DEF PushPublish, Owns
<1>2. /\ ppc'[p] = "idle"
      /\ \A q \in Producers : q # p => ppc'[q] = ppc[q] /\ made'[q] = made[q]
  BY <1>1 DEF MpscInv, Typed
<1>3. ~Owns(p)' /\ \A q \in Producers : q # p => Owns(q)' = Owns(q) /\ Item(q)' = Item(q)
  BY <1>1, <1>2 DEF Owns, Item
<1>4. pos[p] \in Window /\ pos[p] \in Released .. tail - 1 /\ pos[p] \in Nat /\ seq[Cell(pos[p])] = pos[p]
  BY <1>1, OwnPlace
<1>5. PICK k \in Window : k = pos[p]
  BY <1>4
<1>6. /\ seq' \in [Cells -> Nat] /\ seq'[Cell(k)] = k + 1
      /\ \A n \in Window : n # k => seq'[Cell(n)] = seq[Cell(n)]
      /\ \A n \in Nat : seq'[Cell(n)] = seq[Cell(n)] \/ (Cell(n) = Cell(k) /\ seq'[Cell(n)] = k + 1)
  <2>1. k + 1 \in Nat /\ seq' = [seq EXCEPT ![Cell(k)] = k + 1]
    BY <1>1, <1>4, <1>5
  <2> QED
    BY <2>1, Renumbered
<1>7. Typed'
  <2>1. ppc' \in [Producers -> {"idle", "cell", "cas", "reload", "write", "publish"}]
    BY <1>1 DEF MpscInv, Typed
  <2>2. made' \in [Producers -> Nat]
    BY <1>1 DEF MpscInv, Typed
  <2> QED
    BY <1>1, <1>6, <2>1, <2>2 DEF MpscInv, Typed
<1>8. Window' = Window /\ k < tail
  BY <1>0, <1>4, <1>5 DEF Window
<1>9. Ring'
  BY <1>0, <1>1, <1>6, <1>8 DEF MpscInv, Ring
<1>10. \A n \in Nat : seq[Cell(n)] \in Nat /\ seq'[Cell(n)] >= seq[Cell(n)]
  <2> SUFFICES ASSUME NEW n \in Nat
               PROVE  seq[Cell(n)] \in Nat /\ seq'[Cell(n)] >= seq[Cell(n)]
    OBVIOUS
  <2>1. seq[Cell(n)] \in Nat /\ k \in Nat
    BY <1>4, <1>5, CellIn DEF MpscInv, Typed
  <2>2. CASE seq'[Cell(n)] = seq[Cell(n)]
    BY <2>1, <2>2
  <2>3. CASE Cell(n) = Cell(k) /\ seq'[Cell(n)] = k + 1
    BY <1>4, <1>5, <2>1, <2>3
  <2> QED
    BY <1>6, <2>2, <2>3
<1>11. Producing'
  <2> SUFFICES ASSUME NEW q \in Producers
               PROVE  Knows(q)'
    BY DEF Producing
  <2>1. CASE q = p
    BY <1>2, <1>3, <2>1 DEF Knows
  <2>2. CASE q # p
    <3>1. pos[q] \in Nat
      BY DEF MpscInv, Typed
    <3>2. Knows(q)
      BY DEF MpscInv, Producing
    <3>3. seq[Cell(pos[q])] >= pos[q] => seq'[Cell(pos[q])] >= pos[q]
      BY <1>6, <1>10, <3>1, CellIn
    <3>4. Owns(q) => seq'[Cell(pos[q])] = seq[Cell(pos[q])]
      <4>1. ASSUME Owns(q) PROVE pos[q] \in Window /\ pos[q] # k
        BY <1>1, <1>5, <2>2, <4>1, OwnPlace DEF MpscInv, Alone
      <4> QED
        BY <1>6, <4>1
    <3> QED
      BY <1>0, <1>1, <1>2, <1>3, <2>2, <3>2, <3>3, <3>4 DEF Knows
  <2> QED
    BY <2>1, <2>2
<1>12. Alone'
  BY <1>1, <1>2, <1>3 DEF MpscInv, Alone
<1>13. Consuming'
  <2>1. cpc \in {"read", "release"} => head \in Window /\ head # k
    BY <1>4, <1>5, HeadPublished DEF MpscInv, Consuming, Published
  <2>2. cpc \in {"read", "release"} => seq'[Cell(head)] = seq[Cell(head)]
    BY <1>6, <2>1
  <2> QED
    BY <1>1, <2>2 DEF MpscInv, Consuming, Published
<1>14. Filled'
  <2>1. ASSUME NEW n \in Released .. tail - 1, Published(n)'
        PROVE  data[Cell(n)] = claimed[n + 1]
    <3>1. CASE n = k
      BY <1>1, <1>5, <3>1 DEF MpscInv, Filled
    <3>2. CASE n # k
      <4>1. n \in Window
        BY ClaimedInWindow
      <4>2. Published(n)
        BY <1>6, <2>1, <3>2, <4>1 DEF Published
      <4> QED
        BY <4>2 DEF MpscInv, Filled
    <3> QED
      BY <3>1, <3>2
  <2> QED
    BY <1>0, <1>1, <1>2, <1>3, <2>1 DEF MpscInv, Filled
<1> QED
  BY <1>7, <1>9, <1>11, <1>12, <1>13, <1>14 DEF MpscInv

-----------------------------------------------------------------------------
(* The steps of pop                                                        *)

\* Steps that change nothing but where the consumer is and what it has read.
LEMMA StepPop ==
  ASSUME MpscInv, PopLoad \/ PopRead \/ PopAdvance
  PROVE  MpscInv'
<1> USE DEF pushVars
<1>1. UNCHANGED <<tail, seq, data, ppc, pos, made, claimed>>
  BY DEF PopLoad, PopRead, PopAdvance
<1>2. Released' = Released
  BY DEF PopLoad, PopRead, PopAdvance, Released, MpscInv, Typed
<1>3. \A q \in Producers : Owns(q)' = Owns(q) /\ Item(q)' = Item(q)
  BY <1>1 DEF Owns, Item
<1>4. Ring' /\ Alone'
  BY <1>1, <1>2, <1>3 DEF MpscInv, Ring, Window, Alone
<1>5. Producing'
  BY <1>1, <1>2, <1>3 DEF MpscInv, Producing, Knows
<1>6. Filled'
  BY <1>1, <1>2, <1>3 DEF MpscInv, Filled, Published
<1>7. Typed' /\ Consuming'
  <2>1. CASE PopLoad
    <3>1. cpc = "idle" /\ Released = head /\ Published(head) /\ UNCHANGED <<head, got, popped>> /\ cpc' = "read"
      BY <2>1 DEF PopLoad, Released
    <3>2. head < tail
      <4>1. head \in Window /\ head + 1 # head
        BY <3>1, MpscAssumption DEF Window, MpscInv, Typed
      <4> QED
        BY <3>1, <4>1 DEF MpscInv, Ring, Published
    <3> QED
      BY <1>1, <3>1, <3>2 DEF MpscInv, Typed, Consuming, Published
  <2>2. CASE PopRead
    <3>1. cpc = "read" /\ got' = data[Cell(head)] /\ cpc' = "release" /\ UNCHANGED <<head, popped>>
      BY <2>2 DEF PopRead
    <3>2. Released = head /\ head \in Nat /\ head < tail /\ Published(head)
      BY <3>1, HeadPublished DEF MpscInv, Consuming
    <3>3. head \in Released .. tail - 1 /\ Cell(head) \in Cells
      BY <3>2, CellIn DEF MpscInv, Typed
    <3>4. got' = claimed[head + 1] /\ got' \in Items \cup {None}
      BY <3>1, <3>2, <3>3 DEF MpscInv, Typed, Filled
    <3> QED
      BY <1>1, <3>1, <3>2, <3>4 DEF MpscInv, Typed, Consuming, Published
  <2>3. CASE PopAdvance
    <3>1. head' = head + 1 /\ popped' = Append(popped, got) /\ cpc' = "idle" /\ got' = got
      BY <2>3 DEF PopAdvance
    <3>2. popped' \in Seq(Items \cup {None}) /\ head' \in Nat
      BY <3>1 DEF MpscInv, Typed
    <3> QED
      BY <1>1, <3>1, <3>2 DEF MpscInv, Typed, Consuming
  <2> QED
    BY <2>1, <2>2, <2>3
<1> QED
  BY <1>4, <1>5, <1>6, <1>7 DEF MpscInv

\* The cell at head becomes the cell of the place a lap later.
LEMMA StepRelease ==
  ASSUME MpscInv, PopRelease
  PROVE  MpscInv'
<1> USE DEF pushVars
<1>1. /\ UNCHANGED <<tail, head, data, ppc, pos, made, claimed, got, popped>>
      /\ seq' = [seq EXCEPT ![Cell(head)] = head + Cap]
      /\ cpc = "release" /\ cpc' = "advance"
  BY DEF PopRelease
<1>2. /\ Released = head /\ head \in Window /\ head < tail /\ head \in Nat /\ tail \in Nat
      /\ Cap \in Nat /\ Cap >= 2 /\ seq[Cell(head)] = head + 1 /\ tail <= head + Cap /\ head + Cap \in Nat
  BY <1>1, HeadPublished, MpscAssumption DEF MpscInv, Typed, Consuming, Published, Ring
<1>3. Released' = head + 1 /\ Released' \in Nat
  BY <1>1, <1>2 DEF Released
<1>4. /\ seq' \in [Cells -> Nat] /\ seq'[Cell(head)] = head + Cap
      /\ \A n \in Window : n # head => seq'[Cell(n)] = seq[Cell(n)]
      /\ \A n \in Nat : seq'[Cell(n)] = seq[Cell(n)] \/ (Cell(n) = Cell(head) /\ seq'[Cell(n)] = head + Cap)
  BY <1>1, <1>2, Renumbered
<1>5. Cell(head + Cap) = Cell(head)
  BY <1>2, CellNext
<1>6. \A n \in Window' : n = head + Cap \/ (n \in Window /\ n # head)
  BY <1>2, <1>3 DEF Window
<1>7. \A q \in Producers : Owns(q)' = Owns(q) /\ Item(q)' = Item(q)
  BY <1>1 DEF Owns, Item
<1>8. Typed'
  BY <1>1, <1>4 DEF MpscInv, Typed
<1>9. Ring'
  <2>1. head + 1 <= tail /\ tail <= head + 1 + Cap
    BY <1>2
  <2>2. ASSUME NEW n \in Window'
        PROVE  seq'[Cell(n)] = n \/ (n < tail /\ seq'[Cell(n)] = n + 1)
    BY <1>4, <1>5, <1>6 DEF MpscInv, Ring
  <2> QED
    BY <1>1, <1>3, <2>1, <2>2 DEF Ring
<1>10. Producing'
  <2> SUFFICES ASSUME NEW q \in Producers
               PROVE  Knows(q)'
    BY DEF Producing
  <2>1. Knows(q) /\ pos[q] \in Nat /\ Cell(pos[q]) \in Cells
    BY CellIn DEF MpscInv, Producing, Typed
  <2>2. ASSUME ppc[q] = "cell"
        PROVE  seq'[Cell(pos[q])] >= pos[q] \/ pos[q] = head + 1 + Cap
    <3>1. seq[Cell(pos[q])] >= pos[q] \/ pos[q] = head + Cap
      BY <1>2, <2>1, <2>2 DEF Knows
    <3>2. seq'[Cell(pos[q])] = seq[Cell(pos[q])] \/ (Cell(pos[q]) = Cell(head) /\ seq'[Cell(pos[q])] = head + Cap)
      BY <1>4, <2>1
    <3>3. CASE pos[q] = head + Cap
      BY <1>2, <1>4, <1>5, <3>3
    <3>4. CASE pos[q] # head + Cap /\ seq'[Cell(pos[q])] = seq[Cell(pos[q])]
      BY <3>1, <3>4
    <3>5. CASE pos[q] # head + Cap /\ Cell(pos[q]) = Cell(head) /\ seq'[Cell(pos[q])] = head + Cap
      <4>1. head + 1 >= pos[q]
        BY <1>2, <3>1, <3>5
      <4> QED
        BY <1>2, <2>1, <3>5, <4>1
    <3> QED
      BY <3>2, <3>3, <3>4, <3>5
  <2>3. ASSUME Owns(q)
        PROVE  head + 1 <= pos[q] /\ pos[q] < tail /\ seq'[Cell(pos[q])] = pos[q]
    <3>1. pos[q] \in Window /\ pos[q] \in head .. tail - 1 /\ seq[Cell(pos[q])] = pos[q]
      BY <1>2, <2>3, OwnPlace
    <3>2. pos[q] # head
      BY <1>2, <3>1
    <3> QED
      BY <1>2, <1>4, <2>1, <3>1, <3>2
  <2>4. ppc[q] = "cas" => pos[q] < head + 1 + Cap
    BY <1>2, <2>1 DEF Knows
  <2> QED
    BY <1>1, <1>3, <1>7, <2>1, <2>2, <2>3, <2>4 DEF Knows
<1>11. Alone'
  BY <1>1, <1>7 DEF MpscInv, Alone
<1>12. Consuming'
  BY <1>1 DEF Consuming
<1>13. Filled'
  <2>1. ASSUME NEW n \in head + 1 .. tail - 1, Published(n)'
        PROVE  data[Cell(n)] = claimed[n + 1]
    <3>1. n \in Released .. tail - 1 /\ n # head
      BY <1>2
    <3>2. Published(n)
      BY <1>4, <2>1, <3>1, ClaimedInWindow DEF Published
    <3> QED
      BY <3>1, <3>2 DEF MpscInv, Filled
  <2> QED
    BY <1>1, <1>3, <1>7, <2>1 DEF MpscInv, Filled
<1> QED
  BY <1>8, <1>9, <1>10, <1>11, <1>12, <1>13 DEF MpscInv

-----------------------------------------------------------------------------
(* What the queue does                                                     *)

LEMMA MpscStep ==
  ASSUME MpscInv, [Next]_vars
  PROVE  MpscInv'
<1>1. CASE UNCHANGED vars
  <2> USE DEF vars
  <2>1. Released' = Released /\ Typed'
    BY <1>1 DEF Released, MpscInv, Typed
  <2>2. \A q \in Producers : Owns(q)' = Owns(q) /\ Item(q)' = Item(q)
    BY <1>1 DEF Owns, Item
  <2>3. Ring' /\ Alone' /\ Consuming'
    BY <1>1, <2>1, <2>2 DEF MpscInv, Ring, Window, Alone, Consuming, Published
  <2>4. Producing'
    BY <1>1, <2>1, <2>2 DEF MpscInv, Producing, Knows
  <2>5. Filled'
    BY <1>1, <2>1, <2>2 DEF MpscInv, Filled, Published
  <2> QED
    BY <2>1, <2>3, <2>4, <2>5 DEF MpscInv
<1>2. CASE Drained
  BY <1>1, <1>2 DEF Drained
<1> QED
  BY <1>1, <1>2, StepLoadTail, StepLoadSeq, StepCas, StepWrite, StepPublish, StepPop, StepRelease
     DEF Next, Push, Pop

LEMMA MpscStart ==
  ASSUME Init
  PROVE  MpscInv
<1>1. Released = 0 /\ Window = 0 .. Cap - 1 /\ \A p \in Producers : ~Owns(p)
  BY MpscAssumption DEF Init, Released, Window, Owns
<1>2. \A c \in Cells : seq[c] = c /\ c \in Nat
  BY MpscAssumption DEF Init, Cells
<1>3. Typed
  BY <1>2 DEF Init, Typed
<1>4. Ring
  <2>1. \A n \in Window : seq[Cell(n)] = n
    BY <1>1, <1>2, FirstLap DEF Cells
  <2>2. tail = 0 /\ Cap \in Nat
    BY MpscAssumption DEF Init
  <2> QED
    BY <1>1, <2>1, <2>2 DEF Ring
<1>5. Producing /\ Alone /\ Consuming /\ Filled
  BY <1>1 DEF Init, Producing, Knows, Alone, Consuming, Filled
<1> QED
  BY <1>3, <1>4, <1>5 DEF MpscInv

LEMMA MpscAlways == Spec => []MpscInv
<1>1. Init => MpscInv
  BY MpscStart
<1>2. MpscInv /\ [Next]_vars => MpscInv'
  BY MpscStep
<1> QED
  BY <1>1, <1>2, PTL DEF Spec

\* No two threads are at the data of one cell: the cells' numbers are all the synchronization
\* there is (mpsc.c:113-156).
THEOREM CellsExclusive == Spec => []CellExclusive
<1>1. MpscInv => CellExclusive
  <2> SUFFICES ASSUME MpscInv PROVE CellExclusive
    OBVIOUS
  <2>1. ASSUME NEW p \in Producers, NEW q \in Producers, p # q
        PROVE  Owned(p) \cap Owned(q) = {}
    <3>1. CASE Owns(p) /\ Owns(q)
      <4>1. pos[p] \in Window /\ pos[q] \in Window /\ pos[p] # pos[q]
        BY <2>1, <3>1, OwnPlace DEF MpscInv, Alone
      <4>2. Cell(pos[p]) # Cell(pos[q])
        BY <4>1, Apart
      <4> QED
        BY <4>2 DEF Owned
    <3>2. CASE ~Owns(p) \/ ~Owns(q)
      BY <3>2 DEF Owned, Owns
    <3> QED
      BY <3>1, <3>2
  <2>2. ASSUME cpc \in {"read", "release"}, NEW p \in Producers
        PROVE  Cell(head) \notin Owned(p)
    <3>1. CASE Owns(p)
      <4>1. head \in Window /\ head \in Nat /\ seq[Cell(head)] = head + 1
        BY <2>2, HeadPublished DEF MpscInv, Consuming, Published
      <4>2. pos[p] \in Window /\ seq[Cell(pos[p])] = pos[p]
        BY <3>1, OwnPlace
      <4>3. Cell(head) # Cell(pos[p])
        BY <4>1, <4>2, Apart
      <4> QED
        BY <4>3 DEF Owned
    <3>2. CASE ~Owns(p)
      BY <3>2 DEF Owned, Owns
    <3> QED
      BY <3>1, <3>2
  <2> QED
    BY <2>1, <2>2 DEF CellExclusive
<1> QED
  BY <1>1, MpscAlways, PTL

\* A push gives up only when Cap places are claimed and not yet released, although the tail
\* it compares with may be old by then.
THEOREM AgainMeansFull == Spec => AgainOnlyWhenFull
<1>1. ASSUME MpscInv, [Next]_vars
      PROVE  [\A p \in Producers : ppc[p] = "cell" /\ ppc'[p] = "idle" => tail - Released = Cap]_vars
  <2> SUFFICES ASSUME NEW p \in Producers, ppc[p] = "cell", ppc'[p] = "idle"
               PROVE  tail - Released = Cap
    OBVIOUS
  <2>1. PushLoadSeq(p)
    <3>1. ASSUME NEW q \in Producers, Push(q), q # p
          PROVE  ppc'[p] = ppc[p]
      <4>1. \E s : ppc' = [ppc EXCEPT ![q] = s]
        BY <3>1 DEF Push, PushLoadTail, PushLoadSeq, PushCas, PushWrite, PushPublish
      <4> QED
        BY <1>1, <3>1, <4>1 DEF MpscInv, Typed
    <3>2. (Pop \/ Drained \/ UNCHANGED vars) => ppc'[p] = ppc[p]
      BY DEF Pop, PopLoad, PopRead, PopRelease, PopAdvance, Drained, vars, pushVars
    <3>3. Push(p)
      BY <1>1, <3>1, <3>2 DEF Next
    <3> QED
      BY <3>3 DEF Push, PushLoadTail, PushCas, PushWrite, PushPublish
  <2>2. seq[Cell(pos[p])] < pos[p]
    BY <1>1, <2>1 DEF PushLoadSeq, MpscInv, Typed
  <2>3. Released \in Nat /\ tail \in Nat /\ Cap \in Nat /\ pos[p] \in Nat /\ seq[Cell(pos[p])] \in Nat
    BY <1>1, ReleasedNat, CellIn, MpscAssumption DEF MpscInv, Typed
  <2>4. pos[p] <= tail /\ tail <= Released + Cap /\ (seq[Cell(pos[p])] >= pos[p] \/ pos[p] = Released + Cap)
    BY <1>1 DEF MpscInv, Ring, Producing, Knows
  <2> QED
    BY <2>2, <2>3, <2>4
<1>2. MpscInv /\ [Next]_vars
        => [\A p \in Producers : ppc[p] = "cell" /\ ppc'[p] = "idle" => tail - Released = Cap]_vars
  BY <1>1
<1> QED
  BY <1>2, MpscAlways, PTL DEF Spec, AgainOnlyWhenFull

-----------------------------------------------------------------------------
(* The ring implements the abstract queue                                  *)

\* The refinement mapping: the places claimed and not released, and what is consumed.
Line == [i \in 1 .. tail - Released |->
           [item |-> claimed[Released + i], ready |-> Published(Released + i - 1)]]
Out == IF cpc = "advance" THEN Append(popped, got) ELSE popped
Entries == [item : Items, ready : BOOLEAN]

\* The provers take a record apart only field by field.
LEMMA SetReady ==
  ASSUME NEW e \in Entries
  PROVE  [e EXCEPT !.ready = TRUE] = [item |-> e.item, ready |-> TRUE]
<1>1. PICK s \in Entries : s = [e EXCEPT !.ready = TRUE]
  BY DEF Entries
<1>2. PICK t \in Entries : t = [item |-> e.item, ready |-> TRUE]
  BY DEF Entries
<1>3. s.item = t.item /\ s.ready = t.ready
  BY <1>1, <1>2 DEF Entries
<1>4. s = t
  BY <1>3 DEF Entries
<1> QED
  BY <1>1, <1>2, <1>4

LEMMA LineTyped ==
  ASSUME MpscInv
  PROVE  /\ Released \in Nat /\ tail \in Nat /\ Cap \in Nat /\ tail - Released \in 0 .. Cap
         /\ claimed \in Seq(Items) /\ Len(claimed) = tail
         /\ Line \in Seq(Entries) /\ Len(Line) = tail - Released
         /\ \A i \in 1 .. tail - Released :
              Line[i] = [item |-> claimed[Released + i], ready |-> seq[Cell(Released + i - 1)] = Released + i]
<1>1. /\ Released \in Nat /\ tail \in Nat /\ Cap \in Nat /\ tail - Released \in 0 .. Cap
      /\ claimed \in Seq(Items) /\ Len(claimed) = tail
  BY ReleasedNat, MpscAssumption DEF MpscInv, Typed, Ring
<1>2. ASSUME NEW i \in 1 .. tail - Released
      PROVE  /\ Published(Released + i - 1) = (seq[Cell(Released + i - 1)] = Released + i)
             /\ claimed[Released + i] \in Items
  <2>1. Released + i - 1 + 1 = Released + i /\ Released + i \in 1 .. Len(claimed)
    BY <1>1
  <2> QED
    BY <1>1, <2>1 DEF Published
<1>3. Line = [i \in 1 .. tail - Released |->
               [item |-> claimed[Released + i], ready |-> seq[Cell(Released + i - 1)] = Released + i]]
  BY <1>2 DEF Line
<1>4. \A i \in 1 .. tail - Released :
        [item |-> claimed[Released + i], ready |-> seq[Cell(Released + i - 1)] = Released + i] \in Entries
  BY <1>2 DEF Entries
<1>5. Line \in Seq(Entries) /\ Len(Line) = tail - Released
  <2>1. PICK n \in Nat : n = tail - Released
    BY <1>1
  <2> QED
    BY <1>3, <1>4, <2>1
<1>6. \A i \in 1 .. tail - Released :
        Line[i] = [item |-> claimed[Released + i], ready |-> seq[Cell(Released + i - 1)] = Released + i]
  BY <1>3
<1> QED
  BY <1>1, <1>5, <1>6

LEMMA LineStays ==
  ASSUME UNCHANGED <<tail, seq, claimed>>, Released' = Released
  PROVE  Line' = Line
  BY DEF Line, Published

\* The same after a step, with the new values named.
LEMMA LineAfter ==
  ASSUME MpscInv', NEW r \in Nat, NEW t \in Nat, Released' = r, tail' = t
  PROVE  /\ t - r \in 0 .. Cap /\ Line' \in Seq(Entries) /\ Len(Line') = t - r
         /\ \A i \in 1 .. t - r :
              Line'[i] = [item |-> claimed'[r + i], ready |-> seq'[Cell(r + i - 1)] = r + i]
<1>1. /\ Cap \in Nat /\ t - r \in 0 .. Cap /\ claimed' \in Seq(Items) /\ Len(claimed') = t
  BY MpscAssumption DEF MpscInv, Typed, Ring
<1>2. Line' = [i \in 1 .. t - r |-> [item |-> claimed'[r + i], ready |-> seq'[Cell(r + i - 1)] = r + i - 1 + 1]]
  BY DEF Line, Published
<1>3. ASSUME NEW i \in 1 .. t - r
      PROVE  r + i - 1 + 1 = r + i /\ claimed'[r + i] \in Items
  <2>1. r + i - 1 + 1 = r + i /\ r + i \in 1 .. Len(claimed')
    BY <1>1
  <2> QED
    BY <1>1, <2>1
<1> QED
  BY <1>1, <1>2, <1>3 DEF Entries

LEMMA LineClaim ==
  ASSUME MpscInv, MpscInv', NEW p \in Producers, PushCas(p), tail = pos[p]
  PROVE  /\ Len(Line) < Cap /\ Item(p) \in Items /\ Out' = Out
         /\ Line' = Append(Line, [item |-> Item(p), ready |-> FALSE])
<1> USE DEF popVars
<1>1. /\ tail' = tail + 1 /\ claimed' = Append(claimed, Item(p)) /\ seq' = seq /\ ppc[p] = "cas"
      /\ UNCHANGED <<head, cpc, got, popped>>
  BY DEF PushCas
<1>2. Released' = Released /\ Out' = Out
  BY <1>1 DEF Released, Out
<1>3. made[p] \in Nat /\ made[p] < MaxPush /\ tail < Released + Cap
  BY <1>1 DEF MpscInv, Typed, Producing, Knows
<1>4. PICK x \in Items : x = Item(p)
  <2>1. Item(p) \in Items
    BY <1>3, MpscAssumption DEF Item, Items
  <2> QED
    BY <2>1
<1>5. PICK r \in Nat, t \in Nat, u \in Nat : r = Released /\ t = tail /\ u = t + 1
  <2>1. Released \in Nat /\ tail \in Nat /\ tail + 1 \in Nat
    BY LineTyped
  <2> QED
    BY <2>1
<1>6. /\ t - r \in Nat /\ claimed \in Seq(Items) /\ Len(claimed) = t
      /\ Line \in Seq(Entries) /\ Len(Line) = t - r /\ Len(Line) < Cap
      /\ \A i \in 1 .. t - r : Line[i] = [item |-> claimed[r + i], ready |-> seq[Cell(r + i - 1)] = r + i]
  <2>1. /\ t - r \in 0 .. Cap /\ Cap \in Nat /\ claimed \in Seq(Items) /\ Len(claimed) = t
        /\ Line \in Seq(Entries) /\ Len(Line) = t - r
        /\ \A i \in 1 .. t - r : Line[i] = [item |-> claimed[r + i], ready |-> seq[Cell(r + i - 1)] = r + i]
    BY <1>5, LineTyped
  <2>2. t - r \in Nat /\ t - r < Cap
    BY <1>3, <1>5, <2>1
  <2> QED
    BY <2>1, <2>2
<1>7. /\ Line' \in Seq(Entries) /\ Len(Line') = u - r
      /\ \A i \in 1 .. u - r :
           Line'[i] = [item |-> claimed'[r + i], ready |-> seq[Cell(r + i - 1)] = r + i]
  <2>1. Released' = r /\ tail' = u
    BY <1>1, <1>2, <1>5
  <2>2. /\ Line' \in Seq(Entries) /\ Len(Line') = u - r
        /\ \A i \in 1 .. u - r : Line'[i] = [item |-> claimed'[r + i], ready |-> seq'[Cell(r + i - 1)] = r + i]
    BY <2>1, LineAfter
  <2> QED
    BY <1>1, <2>2
<1>8. seq[Cell(t)] = t /\ t # t + 1
  BY <1>3, <1>5, TailCell
<1>9. claimed'[t + 1] = x /\ \A n \in 1 .. t : claimed'[n] = claimed[n]
  BY <1>1, <1>4, <1>6
<1> DEFINE y == [item |-> x, ready |-> FALSE]
           L == Append(Line, y)
<1>10. L \in Seq(Entries) /\ Len(L) = u - r /\ L[u - r] = y /\ \A i \in 1 .. t - r : L[i] = Line[i]
  <2>1. y \in Entries
    BY DEF Entries
  <2> HIDE DEF y
  <2> QED
    BY <1>5, <1>6, <2>1
<1>11. ASSUME NEW i \in 1 .. u - r
       PROVE  Line'[i] = L[i]
  <2>1. CASE i = u - r
    <3>1. r + i = t + 1 /\ r + i - 1 = t
      BY <1>5, <2>1
    <3>2. Line'[i] = y
      <4>1. Line'[i] = [item |-> claimed'[r + i], ready |-> seq[Cell(r + i - 1)] = r + i]
        BY <1>7
      <4>2. Line'[i] = [item |-> claimed'[t + 1], ready |-> seq[Cell(t)] = t + 1]
        BY <3>1, <4>1
      <4>3. (seq[Cell(t)] = t + 1) = FALSE
        BY <1>8
      <4> QED
        BY <1>9, <4>2, <4>3
    <3> QED
      BY <1>10, <2>1, <3>2
  <2>2. CASE i # u - r
    <3>0. t - r \in Nat /\ u - r = t - r + 1 /\ i \in 1 .. t - r + 1 /\ i # t - r + 1
      <4>1. t - r \in Nat
        BY <1>6
      <4> QED
        BY <1>5, <2>2, <4>1
    <3>1. i \in 1 .. t - r /\ r + i \in 1 .. t
      BY <3>0
    <3>2. claimed'[r + i] = claimed[r + i] /\ L[i] = Line[i]
      BY <1>9, <1>10, <3>1
    <3>3. Line'[i] = [item |-> claimed'[r + i], ready |-> seq[Cell(r + i - 1)] = r + i]
      BY <1>7
    <3>4. Line[i] = [item |-> claimed[r + i], ready |-> seq[Cell(r + i - 1)] = r + i]
      BY <1>6, <3>1
    <3> QED
      BY <3>2, <3>3, <3>4
  <2> QED
    BY <2>1, <2>2
<1> HIDE DEF L
<1>12. Line' = L
  BY <1>7, <1>10, <1>11
<1> QED
  BY <1>2, <1>4, <1>6, <1>12 DEF L

LEMMA LineFill ==
  ASSUME MpscInv, MpscInv', NEW p \in Producers, PushPublish(p)
  PROVE  /\ Out' = Out
         /\ \E k \in 1 .. Len(Line) : ~Line[k].ready /\ Line' = [Line EXCEPT ![k].ready = TRUE]
<1> USE DEF popVars
<1>1. /\ UNCHANGED <<tail, head, claimed, cpc, got, popped>> /\ Owns(p)
      /\ seq' = [seq EXCEPT ![Cell(pos[p])] = pos[p] + 1]
  BY DEF PushPublish, Owns
<1>2. Released' = Released /\ Out' = Out
  BY <1>1 DEF Released, Out
<1>3. PICK n \in Window : n = pos[p] /\ n \in Released .. tail - 1 /\ n \in Nat /\ seq[Cell(n)] = n
  BY <1>1, OwnPlace
<1>4. PICK r \in Nat, t \in Nat : r = Released /\ t = tail
  BY LineTyped
<1>5. /\ t - r \in Nat /\ Line \in Seq(Entries) /\ Len(Line) = t - r
      /\ \A i \in 1 .. t - r : Line[i] = [item |-> claimed[r + i], ready |-> seq[Cell(r + i - 1)] = r + i]
  BY <1>4, LineTyped
<1>6. /\ Line' \in Seq(Entries) /\ Len(Line') = t - r
      /\ \A i \in 1 .. t - r :
           Line'[i] = [item |-> claimed[r + i], ready |-> seq'[Cell(r + i - 1)] = r + i]
  <2>1. Released' = r /\ tail' = t /\ claimed' = claimed
    BY <1>1, <1>2, <1>4
  <2>2. /\ Line' \in Seq(Entries) /\ Len(Line') = t - r
        /\ \A i \in 1 .. t - r :
             Line'[i] = [item |-> claimed'[r + i], ready |-> seq'[Cell(r + i - 1)] = r + i]
    BY <2>1, LineAfter
  <2> QED
    BY <2>1, <2>2
<1>7. seq'[Cell(n)] = n + 1 /\ \A m \in Window : m # n => seq'[Cell(m)] = seq[Cell(m)]
  <2>1. n + 1 \in Nat /\ seq' = [seq EXCEPT ![Cell(n)] = n + 1]
    BY <1>1, <1>3
  <2> QED
    BY <2>1, Renumbered
<1>8. PICK k \in 1 .. t - r : k = n + 1 - r
  BY <1>3, <1>4
<1>9. r + k = n + 1 /\ r + k - 1 = n /\ n # n + 1
  BY <1>3, <1>8
<1>10. Line[k] = [item |-> claimed[r + k], ready |-> FALSE] /\ Line'[k] = [item |-> claimed[r + k], ready |-> TRUE]
  <2>1. /\ Line[k] = [item |-> claimed[r + k], ready |-> seq[Cell(n)] = n + 1]
        /\ Line'[k] = [item |-> claimed[r + k], ready |-> seq'[Cell(n)] = n + 1]
    BY <1>5, <1>6, <1>9
  <2>2. (seq[Cell(n)] = n + 1) = FALSE /\ (seq'[Cell(n)] = n + 1) = TRUE
    BY <1>3, <1>7, <1>9
  <2> QED
    BY <2>1, <2>2
<1>11. ASSUME NEW i \in 1 .. t - r, i # k
       PROVE  Line'[i] = Line[i]
  <2>1. r + i - 1 \in Released .. tail - 1 /\ r + i - 1 # n
    BY <1>3, <1>4, <1>8, <1>11
  <2>2. seq'[Cell(r + i - 1)] = seq[Cell(r + i - 1)]
    BY <1>7, <2>1, ClaimedInWindow
  <2> QED
    BY <1>5, <1>6, <2>2
<1>12. Line' = [Line EXCEPT ![k] = [item |-> claimed[r + k], ready |-> TRUE]]
  BY <1>5, <1>6, <1>10, <1>11
<1>13. [Line[k] EXCEPT !.ready = TRUE] = [item |-> claimed[r + k], ready |-> TRUE]
  <2>1. Line[k] \in Entries
    BY <1>5
  <2>2. Line[k].item = claimed[r + k]
    BY <1>10
  <2> QED
    BY <2>1, <2>2, SetReady
<1>14. ~Line[k].ready
  BY <1>10
<1> QED
  BY <1>2, <1>5, <1>8, <1>12, <1>13, <1>14

LEMMA LineTake ==
  ASSUME MpscInv, MpscInv', PopRelease
  PROVE  /\ Line # <<>> /\ Head(Line).ready
         /\ Out' = Append(Out, Head(Line).item) /\ Line' = Tail(Line)
<1> USE DEF pushVars
<1>1. /\ UNCHANGED <<tail, head, claimed, got, popped>>
      /\ seq' = [seq EXCEPT ![Cell(head)] = head + Cap]
      /\ cpc = "release" /\ cpc' = "advance"
  BY DEF PopRelease
<1>2. Released = head /\ head \in Window /\ head < tail /\ head \in Nat
  BY <1>1, HeadPublished
<1>3. PICK r \in Nat, t \in Nat, r1 \in Nat : r = head /\ t = tail /\ r1 = r + 1
  <2>1. head + 1 \in Nat /\ tail \in Nat
    BY <1>2 DEF MpscInv, Typed
  <2> QED
    BY <1>2, <2>1
<1>4. /\ t - r \in Nat /\ Line \in Seq(Entries) /\ Len(Line) = t - r /\ t - r >= 1
      /\ \A i \in 1 .. t - r : Line[i] = [item |-> claimed[r + i], ready |-> seq[Cell(r + i - 1)] = r + i]
  BY <1>2, <1>3, LineTyped
<1>5. /\ Line' \in Seq(Entries) /\ Len(Line') = t - r1
      /\ \A i \in 1 .. t - r1 :
           Line'[i] = [item |-> claimed[r1 + i], ready |-> seq'[Cell(r1 + i - 1)] = r1 + i]
  <2>1. Released' = r1 /\ tail' = t
    BY <1>1, <1>2, <1>3 DEF Released
  <2> QED
    BY <1>1, <2>1, LineAfter
<1>6. \A m \in Window : m # r => seq'[Cell(m)] = seq[Cell(m)]
  <2>1. head + Cap \in Nat
    BY <1>2, MpscAssumption
  <2> QED
    BY <1>1, <1>2, <1>3, <2>1, Renumbered
<1>7. Line # <<>> /\ Head(Line) = Line[1] /\ Line[1] = [item |-> claimed[r + 1], ready |-> TRUE]
  <2>1. 1 \in 1 .. t - r /\ r + 1 - 1 = r
    BY <1>4
  <2>2. Line[1] = [item |-> claimed[r + 1], ready |-> seq[Cell(r)] = r + 1]
    BY <1>4, <2>1
  <2>3. (seq[Cell(r)] = r + 1) = TRUE
    BY <1>1, <1>3 DEF MpscInv, Consuming, Published
  <2>4. Line # <<>> /\ Head(Line) = Line[1]
    BY <1>4
  <2> QED
    BY <2>2, <2>3, <2>4
<1>8. Out' = Append(Out, Head(Line).item)
  <2>1. Head(Line).item = claimed[r + 1]
    BY <1>7
  <2>2. got = claimed[r + 1]
    BY <1>1, <1>3 DEF MpscInv, Consuming
  <2>3. Out = popped /\ Out' = Append(popped, got)
    BY <1>1 DEF Out
  <2> QED
    BY <2>1, <2>2, <2>3
<1>9. /\ Tail(Line) \in Seq(Entries) /\ Len(Tail(Line)) = t - r1
      /\ \A i \in 1 .. t - r1 : Tail(Line)[i] = Line[i + 1]
  BY <1>3, <1>4
<1>10. ASSUME NEW i \in 1 .. t - r1
       PROVE  Line'[i] = Tail(Line)[i]
  <2>1. /\ i + 1 \in 1 .. t - r /\ r + (i + 1) = r1 + i /\ r + (i + 1) - 1 = r1 + i - 1
        /\ r1 + i - 1 # r /\ r1 + i - 1 \in r .. t - 1
    BY <1>3, <1>4
  <2>2. r1 + i - 1 \in Window
    BY <1>2, <1>3, <2>1, ClaimedInWindow
  <2>3. seq'[Cell(r1 + i - 1)] = seq[Cell(r1 + i - 1)]
    BY <1>6, <2>1, <2>2
  <2>4. Line'[i] = [item |-> claimed[r1 + i], ready |-> seq[Cell(r1 + i - 1)] = r1 + i]
    BY <1>5, <2>3
  <2>5. Line[i + 1] = [item |-> claimed[r1 + i], ready |-> seq[Cell(r1 + i - 1)] = r1 + i]
    BY <1>4, <2>1
  <2> QED
    BY <1>9, <2>4, <2>5
<1>11. Line' = Tail(Line)
  BY <1>5, <1>9, <1>10
<1> QED
  BY <1>7, <1>8, <1>11

\* Every step of the ring is a step of the abstract queue, or none.
LEMMA RingStep ==
  ASSUME MpscInv, MpscInv', [Next]_vars
  PROVE  \/ Line' = Line /\ Out' = Out
         \/ \E x \in Items : /\ Len(Line) < Cap /\ Out' = Out
                             /\ Line' = Append(Line, [item |-> x, ready |-> FALSE])
         \/ \E k \in 1 .. Len(Line) : /\ ~Line[k].ready /\ Out' = Out
                                      /\ Line' = [Line EXCEPT ![k].ready = TRUE]
         \/ /\ Line # <<>> /\ Head(Line).ready
            /\ Out' = Append(Out, Head(Line).item) /\ Line' = Tail(Line)
<1> USE DEF popVars, pushVars
<1>1. CASE UNCHANGED <<tail, seq, claimed>> /\ Released' = Released /\ Out' = Out
  BY <1>1, LineStays
<1>2. ASSUME NEW p \in Producers, Push(p)
      PROVE  \/ UNCHANGED <<tail, seq, claimed>> /\ Released' = Released /\ Out' = Out
             \/ PushCas(p) /\ tail = pos[p]
             \/ PushPublish(p)
  BY <1>2 DEF Push, PushLoadTail, PushLoadSeq, PushCas, PushWrite, Released, Out
<1>3. Pop => (UNCHANGED <<tail, seq, claimed>> /\ Released' = Released /\ Out' = Out) \/ PopRelease
  BY DEF Pop, PopLoad, PopRead, PopAdvance, Released, Out
<1>4. Drained \/ UNCHANGED vars => UNCHANGED <<tail, seq, claimed>> /\ Released' = Released /\ Out' = Out
  BY DEF Drained, vars, Released, Out
<1>5. ASSUME NEW p \in Producers, PushCas(p), tail = pos[p]
      PROVE  \E x \in Items : /\ Len(Line) < Cap /\ Out' = Out
                              /\ Line' = Append(Line, [item |-> x, ready |-> FALSE])
  BY <1>5, LineClaim
<1>6. ASSUME NEW p \in Producers, PushPublish(p)
      PROVE  \E k \in 1 .. Len(Line) : /\ ~Line[k].ready /\ Out' = Out
                                       /\ Line' = [Line EXCEPT ![k].ready = TRUE]
  BY <1>6, LineFill
<1>7. PopRelease => /\ Line # <<>> /\ Head(Line).ready
                    /\ Out' = Append(Out, Head(Line).item) /\ Line' = Tail(Line)
  BY LineTake
<1> QED
  BY <1>1, <1>2, <1>3, <1>4, <1>5, <1>6, <1>7 DEF Next

\* The ring is a bounded queue whose items come out in the order in which the
\* compare-and-swap gave out the places, each once.
THEOREM RingIsQueue == Spec => Refines
<1>1. Init => Abstract!Init
  BY DEF Init, Abstract!Init, Released
<1>2. MpscInv /\ MpscInv' /\ [Next]_vars => [Abstract!Next]_<<Line, Out>>
  <2> SUFFICES ASSUME MpscInv, MpscInv', [Next]_vars
               PROVE  Abstract!Next \/ (Line' = Line /\ Out' = Out)
    OBVIOUS
  <2> QED
    BY RingStep DEF Abstract!Next, Abstract!Claim, Abstract!Fill, Abstract!Take, Line, Out
<1>3. QED
  BY <1>1, <1>2, MpscAlways, PTL DEF Spec, Refines, Abstract!Spec, Line, Out
=============================================================================
