-------------------------- MODULE PaperEngineProofs --------------------------
(***************************************************************************)
(* Proofs about OrderBook (parts 1 to 4) and PaperEngine (part 5), for     *)
(* every set of instruments, requests, modifications, prices and capitals. *)
(*                                                                         *)
(*   1. The operators of OrderBook transform a record of books.  Sound is  *)
(*      the inductive invariant as a predicate on such a record; the lemmas*)
(*      say what each operator makes of sound books, and the theorems put  *)
(*      them together action by action.                                    *)
(*   2. OrderBook implements OrderLifecycle, and a price update only       *)
(*      tightens trailing stops.  Both are about what one step may do to   *)
(*      the sequence of orders: Grows relates the orders before and after  *)
(*      one operator, and is transitive.                                   *)
(*   3. While no failed modify has lost a hold, the ledger's total is the  *)
(*      sum of the holds and every resting BUY is backed (Covered): this is*)
(*      what keeps a release from raising.                                 *)
(*   4. What a price update leaves behind: a candidate the loop has passed *)
(*      is out of reach of the price (PassedAreBeyond).                    *)
(*   5. No money appears or vanishes, the trade history explains the       *)
(*      realized P&L, and the positions are the net of the fills.  A step  *)
(*      of the order book is Quiet (nothing fills, and cash is what it was)*)
(*      or FillsOne order x, for which cash pays.  The argument is about   *)
(*      the books before and after such a step, the queues of open units,  *)
(*      and the closed trades; LedgerFits is the part of the inductive     *)
(*      invariant that relates the four.  It needs the invariants of parts *)
(*      1 and 3: an update is cut short, and its trades are dropped, only  *)
(*      after a failed modify has lost a hold.                             *)
(***************************************************************************)
EXTENDS PaperEngine, SequenceTheorems, SumTheorems, TLAPS

-----------------------------------------------------------------------------
(***************************************************************************)
(* 1.  The books stay sound.                                               *)
(***************************************************************************)

-----------------------------------------------------------------------------
(***************************************************************************)
(* The inductive invariant.                                                *)
(***************************************************************************)
Books == [orders : Seq(OrderType), reservations : Seq(Nat), cash : Nat, reserved : Nat]

Typed(b) == b \in Books /\ Len(b.reservations) = Len(b.orders)

\* A hold belongs to a resting BUY.
HoldsSound(b) ==
    \A i \in Ids(b) : b.reservations[i] # 0 =>
        Resting(b.orders[i]) /\ b.orders[i].side = "BUY"

\* A leg has a filled parent on the other side, so siblings share a side.
ParentsSound(b) ==
    \A i \in Ids(b) :
        LET p == b.orders[i].parent_order_id
        IN  p # None =>
              /\ p \in Ids(b)
              /\ b.orders[p].status = "COMPLETE"
              /\ b.orders[i].side = Opposite(b.orders[p].side)

SameBracket(b, i, j) ==
    /\ i # j
    /\ b.orders[i].parent_order_id # None
    /\ b.orders[i].parent_order_id = b.orders[j].parent_order_id

\* An entry has at most two legs.
PairsSound(b) ==
    \A i, j, k \in Ids(b) : SameBracket(b, i, j) /\ SameBracket(b, i, k) => j = k

\* After one long leg other than x has filled, its sibling is cancelled or
\* rejected.
LegsSound(b, x) ==
    \A i, j \in Ids(b) :
        /\ i # x
        /\ SameBracket(b, i, j)
        /\ b.orders[i].side = "SELL"
        /\ b.orders[i].status = "COMPLETE"
        => b.orders[j].status \in {"CANCELLED", "REJECTED"}

\* Sound, except that x may have filled and its sibling still rest: the books
\* between a fill and the cancellation it causes.
SoundBut(b, x) ==
    /\ Typed(b)
    /\ HoldsSound(b)
    /\ ParentsSound(b)
    /\ PairsSound(b)
    /\ LegsSound(b, x)

Sound(b) == SoundBut(b, None)

\* The inductive invariant of BookSpec.
IInv == TypeOK /\ Sound(Book)

-----------------------------------------------------------------------------
(***************************************************************************)
(* Orders.                                                                 *)
(***************************************************************************)
LEMMA ProductIsNat == \A m, n \in Nat : m * n \in Nat
  OBVIOUS

\* What an order would hold is an amount.
LEMMA HoldIsNat ==
  ASSUME NEW o \in OrderType
  PROVE  Hold(o) \in Nat
BY ProductIsNat DEF Hold, OrderType, None

LEMMA StatusType ==
  ASSUME NEW o \in OrderType, NEW status \in RestingStatuses \cup TerminalStatuses
  PROVE  LET w == [o EXCEPT !.status = status]
         IN  /\ w \in OrderType
             /\ w.status = status
             /\ w.side = o.side
             /\ w.parent_order_id = o.parent_order_id
BY DEF OrderType

LEMMA OffsetIsNat ==
  ASSUME NEW o, o.trailing_amount \in Nat, o.trailing_percent \in 0..100, NEW px \in Nat
  PROVE  TrailingOffset(o, px) \in Nat
<1>1. px * o.trailing_percent \in Nat
  BY ProductIsNat
<1> QED  BY <1>1 DEF TrailingOffset

\* Working changes nothing but the status, between resting statuses, and the
\* trigger.
LEMMA WorkingType ==
  ASSUME NEW o \in OrderType, Resting(o), NEW px \in Nat
  PROVE  LET w == Working(o, px)
         IN  /\ w \in OrderType
             /\ Resting(w)
             /\ w.side = o.side
             /\ w.parent_order_id = o.parent_order_id
<1>1. TrailingOffset(o, px) \in Nat
  BY OffsetIsNat DEF OrderType
<1>2. o.trigger_price \in Nat /\ px \in Int
  BY DEF OrderType
<1>3. RatchetTrailingTrigger(o, px) \in Nat
  BY <1>1, <1>2 DEF RatchetTrailingTrigger
<1>4. /\ [o EXCEPT !.status = "OPEN"] \in OrderType
      /\ [o EXCEPT !.trigger_price = RatchetTrailingTrigger(o, px)] \in OrderType
  BY <1>3 DEF OrderType, RestingStatuses
<1> QED
  BY <1>4 DEF Working, Resting, RestingStatuses, OrderType

-----------------------------------------------------------------------------
(***************************************************************************)
(* Reservations.                                                           *)
(***************************************************************************)
\* Releasing, or only popping, a reservation keeps the books sound.
LEMMA ReleaseSound ==
  ASSUME NEW x, NEW b, SoundBut(b, x), NEW id \in Ids(b), CanRelease(b, id)
  PROVE  LET c == ReleaseReservation(b, id)
         IN  /\ SoundBut(c, x)
             /\ c.orders = b.orders
             /\ c.cash = b.cash
             /\ c.reservations = [b.reservations EXCEPT ![id] = 0]
<1> DEFINE c == ReleaseReservation(b, id)
<1>1. id \in 1..Len(b.reservations) /\ b.reservations \in Seq(Nat) /\ b.reserved \in Nat
  BY DEF SoundBut, Typed, Books, Ids
<1>2. b.reserved - b.reservations[id] \in Nat
  BY <1>1 DEF CanRelease
<1>3. /\ c.orders = b.orders
      /\ c.cash = b.cash
      /\ c.reservations = [b.reservations EXCEPT ![id] = 0]
  BY DEF ReleaseReservation, SoundBut, Typed, Books
<1>4. Typed(c)
  <2>1. \A f \in Seq(Nat), y \in Nat : [b EXCEPT !.reservations = f, !.reserved = y] \in Books
    BY DEF SoundBut, Typed, Books
  <2>2. c = [b EXCEPT !.reservations = [b.reservations EXCEPT ![id] = 0],
                      !.reserved = b.reserved - b.reservations[id]]
    BY DEF ReleaseReservation, SoundBut, Typed, Books
  <2>3. [b.reservations EXCEPT ![id] = 0] \in Seq(Nat)
    BY <1>1
  <2>4. c \in Books
    BY <1>2, <2>1, <2>2, <2>3
  <2> QED  BY <1>1, <1>3, <2>4 DEF SoundBut, Typed
<1> HIDE DEF c
<1>5. HoldsSound(c)
  BY <1>1, <1>3 DEF SoundBut, HoldsSound, Ids, Typed, Books
<1>6. ParentsSound(c) /\ PairsSound(c) /\ LegsSound(c, x)
  BY <1>3 DEF SoundBut, ParentsSound, PairsSound, LegsSound, SameBracket, Ids
<1> QED  BY <1>3, <1>4, <1>5, <1>6 DEF SoundBut, c

LEMMA PopSound ==
  ASSUME NEW x, NEW b, SoundBut(b, x), NEW id \in Ids(b)
  PROVE  LET c == PopReservation(b, id)
         IN  SoundBut(c, x) /\ c.orders = b.orders
<1> DEFINE c == PopReservation(b, id)
<1>1. id \in 1..Len(b.reservations) /\ b.reservations \in Seq(Nat)
  BY DEF SoundBut, Typed, Books, Ids
<1>2. /\ c.orders = b.orders
      /\ c.reservations = [b.reservations EXCEPT ![id] = 0]
  BY DEF PopReservation, SoundBut, Typed, Books
<1>3. Typed(c)
  <2>1. \A f \in Seq(Nat) : [b EXCEPT !.reservations = f] \in Books
    BY DEF SoundBut, Typed, Books
  <2>2. c = [b EXCEPT !.reservations = [b.reservations EXCEPT ![id] = 0]]
    BY DEF PopReservation, SoundBut, Typed, Books
  <2>3. [b.reservations EXCEPT ![id] = 0] \in Seq(Nat)
    BY <1>1
  <2>4. c \in Books
    BY <2>1, <2>2, <2>3
  <2> QED  BY <1>1, <1>2, <2>4 DEF SoundBut, Typed
<1> HIDE DEF c
<1>4. HoldsSound(c)
  BY <1>1, <1>2 DEF SoundBut, HoldsSound, Ids, Typed, Books
<1>5. ParentsSound(c) /\ PairsSound(c) /\ LegsSound(c, x)
  BY <1>2 DEF SoundBut, ParentsSound, PairsSound, LegsSound, SameBracket, Ids
<1> QED  BY <1>2, <1>3, <1>4, <1>5 DEF SoundBut, c

-----------------------------------------------------------------------------
(***************************************************************************)
(* New orders.                                                             *)
(***************************************************************************)
\* AddOrder appends one order, as it is or rejected, and changes no other.
LEMMA AddOrderAppends ==
  ASSUME NEW b, Typed(b), NEW o \in OrderType
  PROVE  LET c == AddOrder(b, o)
             n == Len(b.orders) + 1
         IN  /\ Typed(c)
             /\ Len(c.orders) = n
             /\ \A i \in Ids(b) : /\ c.orders[i] = b.orders[i]
                                  /\ c.reservations[i] = b.reservations[i]
             /\ \/ c.orders[n] = o /\ c.reservations[n] = Hold(o)
                \/ c.orders[n] = [o EXCEPT !.status = "REJECTED"] /\ c.reservations[n] = 0
             /\ Fundable(b, o) => c.orders[n] = o
<1> DEFINE r == [o EXCEPT !.status = "REJECTED"]
<1>1. Hold(o) \in Nat
  BY HoldIsNat
<1>2. r \in OrderType
  BY DEF OrderType, TerminalStatuses
<1>3. /\ b.orders \in Seq(OrderType)
      /\ b.reservations \in Seq(Nat)
      /\ b.cash \in Nat
      /\ b.reserved \in Nat
      /\ Len(b.reservations) = Len(b.orders)
  BY DEF Typed, Books
<1>4. CASE Fundable(b, o)
  <2>1. AddOrder(b, o) = [b EXCEPT !.orders = Append(b.orders, o),
                                   !.reservations = Append(b.reservations, Hold(o)),
                                   !.reserved = b.reserved + Hold(o)]
    BY <1>4 DEF AddOrder
  <2>2. AddOrder(b, o) = [orders |-> Append(b.orders, o),
                          reservations |-> Append(b.reservations, Hold(o)),
                          cash |-> b.cash, reserved |-> b.reserved + Hold(o)]
    BY <2>1 DEF Typed, Books
  <2> QED
    BY <1>1, <1>3, <2>2 DEF Typed, Books, Ids
<1>5. CASE ~Fundable(b, o)
  <2>1. AddOrder(b, o) = [b EXCEPT !.orders = Append(b.orders, r),
                                   !.reservations = Append(b.reservations, 0)]
    BY <1>5 DEF AddOrder
  <2>2. AddOrder(b, o) = [orders |-> Append(b.orders, r),
                          reservations |-> Append(b.reservations, 0),
                          cash |-> b.cash, reserved |-> b.reserved]
    BY <2>1 DEF Typed, Books
  <2> QED
    BY <1>2, <1>3, <1>5, <2>2 DEF Typed, Books, Ids
<1> QED  BY <1>4, <1>5

\* A new order is sound when it is an entry, or a leg of a filled entry that
\* has at most one leg so far and none that has filled.
LEMMA AddOrderSound ==
  ASSUME NEW b, Sound(b), NEW o \in OrderType, Resting(o),
         LET p == o.parent_order_id
         IN  p # None =>
               /\ p \in Ids(b)
               /\ b.orders[p].status = "COMPLETE"
               /\ o.side = Opposite(b.orders[p].side)
               /\ \A j, k \in Ids(b) :
                    /\ b.orders[j].parent_order_id = p
                    /\ b.orders[k].parent_order_id = p
                    => j = k
               /\ \A j \in Ids(b) :
                    b.orders[j].parent_order_id = p => b.orders[j].status # "COMPLETE"
  PROVE  Sound(AddOrder(b, o))
<1> DEFINE c == AddOrder(b, o)
           n == Len(b.orders) + 1
<1>1. /\ Typed(c)
      /\ Len(c.orders) = n
      /\ \A i \in Ids(b) : /\ c.orders[i] = b.orders[i]
                           /\ c.reservations[i] = b.reservations[i]
      /\ \/ c.orders[n] = o /\ c.reservations[n] = Hold(o)
         \/ c.orders[n] = [o EXCEPT !.status = "REJECTED"] /\ c.reservations[n] = 0
  BY AddOrderAppends DEF Sound, SoundBut
<1>2. Len(b.orders) \in Nat
  BY DEF Sound, SoundBut, Typed, Books
<1>3. Ids(c) = Ids(b) \cup {n} /\ n \notin Ids(b)
  BY <1>1, <1>2 DEF Ids
<1>4. /\ c.orders[n].parent_order_id = o.parent_order_id
      /\ c.orders[n].side = o.side
      /\ c.orders[n].status \in {"OPEN", "TRIGGER_PENDING", "REJECTED"}
      /\ c.reservations[n] # 0 => Resting(c.orders[n]) /\ o.side = "BUY"
  BY <1>1 DEF OrderType, Resting, RestingStatuses, Hold
<1> HIDE DEF c, n
<1>5. HoldsSound(c)
  BY <1>1, <1>3, <1>4 DEF Sound, SoundBut, HoldsSound
<1>6. ParentsSound(c)
  BY <1>1, <1>3, <1>4 DEF Sound, SoundBut, ParentsSound
<1>7. \A j \in Ids(b) : c.orders[j].parent_order_id = b.orders[j].parent_order_id
  BY <1>1
<1>8. PairsSound(c)
  <2> SUFFICES ASSUME NEW i \in Ids(c), NEW j \in Ids(c), NEW k \in Ids(c),
                      SameBracket(c, i, j), SameBracket(c, i, k)
               PROVE  j = k
    BY DEF PairsSound
  <2> USE <1>3, <1>4, <1>7
  <2>1. CASE i = n
    BY <2>1 DEF SameBracket
  <2>2. CASE i # n /\ (j = n \/ k = n)
    BY <2>2 DEF SameBracket
  <2>3. CASE i # n /\ j # n /\ k # n
    BY <2>3 DEF Sound, SoundBut, PairsSound, SameBracket
  <2> QED  BY <2>1, <2>2, <2>3
<1>9. LegsSound(c, None)
  BY <1>1, <1>3, <1>4 DEF Sound, SoundBut, LegsSound, SameBracket
<1> QED  BY <1>1, <1>5, <1>6, <1>8, <1>9 DEF Sound, SoundBut, c

-----------------------------------------------------------------------------
(***************************************************************************)
(* Changing an order.                                                      *)
(***************************************************************************)
\* A resting order may be replaced by one that still rests, or that has been
\* cancelled or rejected, whatever happens to its own hold meanwhile.
LEMMA ReplaceSound ==
  ASSUME NEW x, NEW b, SoundBut(b, x), NEW id \in Ids(b), Resting(b.orders[id]),
         NEW o \in OrderType,
         o.side = b.orders[id].side,
         o.parent_order_id = b.orders[id].parent_order_id,
         o.status \in RestingStatuses \cup {"CANCELLED", "REJECTED"},
         NEW c, Typed(c),
         c.orders = [b.orders EXCEPT ![id] = o],
         \A i \in Ids(b) : i # id => c.reservations[i] = b.reservations[i],
         c.reservations[id] # 0 => Resting(o) /\ o.side = "BUY"
  PROVE  SoundBut(c, x)
<1>1. b.orders \in Seq(OrderType)
  BY DEF SoundBut, Typed, Books
<1>2. Ids(c) = Ids(b)
  BY <1>1 DEF Ids
<1>3. /\ c.orders[id] = o
      /\ \A i \in Ids(b) : i # id => c.orders[i] = b.orders[i]
  BY <1>1 DEF Ids
<1>4. HoldsSound(c)
  BY <1>2, <1>3 DEF SoundBut, HoldsSound
<1>5. \A i \in Ids(b) : b.orders[i].parent_order_id # id
  BY DEF SoundBut, ParentsSound, Resting, RestingStatuses, Ids, None
<1>6. ParentsSound(c)
  BY <1>2, <1>3, <1>5 DEF SoundBut, ParentsSound
<1>7. PairsSound(c)
  BY <1>2, <1>3 DEF SoundBut, PairsSound, SameBracket
<1>8. LegsSound(c, x)
  BY <1>2, <1>3 DEF SoundBut, LegsSound, SameBracket, Resting, RestingStatuses
<1> QED  BY <1>4, <1>6, <1>7, <1>8 DEF SoundBut

\* Storing such an order in place.
Store(b, id, o) == [b EXCEPT !.orders[id] = o]

LEMMA StoreSound ==
  ASSUME NEW x, NEW b, SoundBut(b, x), NEW id \in Ids(b), Resting(b.orders[id]),
         NEW o \in OrderType,
         o.side = b.orders[id].side,
         o.parent_order_id = b.orders[id].parent_order_id,
         o.status \in RestingStatuses \cup {"CANCELLED", "REJECTED"},
         b.reservations[id] # 0 => Resting(o)
  PROVE  /\ SoundBut(Store(b, id, o), x)
         /\ Store(b, id, o).orders = [b.orders EXCEPT ![id] = o]
<1> DEFINE c == Store(b, id, o)
           f == [b.orders EXCEPT ![id] = o]
<1>1. b \in Books /\ Len(b.reservations) = Len(b.orders)
  BY DEF SoundBut, Typed
<1>2. f \in Seq(OrderType) /\ Len(f) = Len(b.orders)
  BY <1>1 DEF Books, Ids
<1>3. c = [b EXCEPT !.orders = f]
  BY <1>1 DEF Books, Store
<1>4. Typed(c) /\ c.orders = f /\ c.reservations = b.reservations
  <2> HIDE DEF f
  <2>1. \A g \in Seq(OrderType) :
          LET d == [b EXCEPT !.orders = g]
          IN  d \in Books /\ d.orders = g /\ d.reservations = b.reservations
    BY <1>1 DEF Books
  <2>2. c \in Books /\ c.orders = f /\ c.reservations = b.reservations
    BY <1>2, <1>3, <2>1
  <2> QED  BY <1>1, <1>2, <2>2 DEF Typed
<1> HIDE DEF c
<1>5. c.reservations[id] # 0 => Resting(o) /\ o.side = "BUY"
  BY <1>4 DEF SoundBut, HoldsSound
<1>6. SoundBut(c, x)
  BY <1>4, <1>5, ReplaceSound
<1> QED  BY <1>4, <1>6 DEF c

-----------------------------------------------------------------------------
(***************************************************************************)
(* Fills.                                                                  *)
(***************************************************************************)
NoLeg(b, id) == \A j \in Ids(b) : b.orders[j].parent_order_id # id

\* A fill keeps everything sound but the filled order's own bracket.
LEMMA CompleteSound ==
  ASSUME NEW b, Sound(b), NEW id \in Ids(b), Resting(b.orders[id]),
         b.reservations[id] = 0,
         NEW o \in OrderType,
         o.side = b.orders[id].side,
         o.parent_order_id = b.orders[id].parent_order_id,
         NEW px \in Nat, Affordable(b, o, px)
  PROVE  /\ SoundBut(Complete(b, id, o, px), id)
         /\ Complete(b, id, o, px).orders[id].status = "COMPLETE"
         /\ Ids(Complete(b, id, o, px)) = Ids(b)
         /\ NoLeg(Complete(b, id, o, px), id)
<1> DEFINE c == Complete(b, id, o, px)
           w == [o EXCEPT !.status = "COMPLETE", !.average_fill_price = px]
           amount == IF o.side = "BUY" THEN b.cash - o.quantity * px
                                       ELSE b.cash + o.quantity * px
           f == [b.orders EXCEPT ![id] = w]
<1>1. w \in OrderType
  BY DEF OrderType, TerminalStatuses
<1>2. amount \in Nat
  <2>1. o.quantity \in Nat /\ b.cash \in Nat
    BY DEF OrderType, Sound, SoundBut, Typed, Books
  <2>2. o.quantity * px \in Nat
    BY <2>1, ProductIsNat
  <2> QED  BY <2>1, <2>2 DEF Affordable
<1>3. c = [b EXCEPT !.cash = amount, !.orders = f]
  BY DEF Complete, Sound, SoundBut, Typed, Books
<1>4. Typed(b)
  BY DEF Sound, SoundBut
<1> HIDE DEF w, amount, c
<1>5. /\ Typed(c)
      /\ c.orders = f
      /\ c.reservations = b.reservations
  <2>1. f \in Seq(OrderType) /\ Len(f) = Len(b.orders)
    BY <1>1, <1>4 DEF Typed, Books, Ids
  <2> HIDE DEF f
  <2>2. \A g \in Seq(OrderType), n \in Nat :
          LET d == [b EXCEPT !.cash = n, !.orders = g]
          IN  d \in Books /\ d.orders = g /\ d.reservations = b.reservations
    BY <1>4 DEF Typed, Books
  <2>3. c \in Books /\ c.orders = f /\ c.reservations = b.reservations
    BY <1>2, <1>3, <2>1, <2>2
  <2> QED  BY <1>4, <2>1, <2>3 DEF Typed
<1>6. b.orders \in Seq(OrderType)
  BY <1>4 DEF Typed, Books
<1>7. /\ Ids(c) = Ids(b)
      /\ c.orders[id] = w
      /\ \A i \in Ids(b) : i # id => c.orders[i] = b.orders[i]
  BY <1>5, <1>6 DEF Ids
<1>8. /\ w.side = b.orders[id].side
      /\ w.parent_order_id = b.orders[id].parent_order_id
      /\ w.status = "COMPLETE"
  BY DEF w, OrderType
<1>9. \A i \in Ids(b) : b.orders[i].parent_order_id # id
  BY DEF Sound, SoundBut, ParentsSound, Resting, RestingStatuses, Ids, None
<1>10. HoldsSound(c)
  BY <1>5, <1>7 DEF Sound, SoundBut, HoldsSound
<1>11. ParentsSound(c)
  BY <1>7, <1>8, <1>9 DEF Sound, SoundBut, ParentsSound
<1>12. PairsSound(c)
  <2>1. \A i \in Ids(b) : c.orders[i].parent_order_id = b.orders[i].parent_order_id
    BY <1>7, <1>8
  <2>2. \A i, j \in Ids(b) : SameBracket(c, i, j) => SameBracket(b, i, j)
    BY <2>1 DEF SameBracket
  <2> QED  BY <1>7, <2>2 DEF Sound, SoundBut, PairsSound
<1>13. LegsSound(c, id)
  BY <1>7, <1>8 DEF Sound, SoundBut, LegsSound, SameBracket, Resting, RestingStatuses, Ids, None
<1>14. NoLeg(c, id)
  BY <1>7, <1>8, <1>9 DEF NoLeg
<1> QED  BY <1>5, <1>7, <1>8, <1>10, <1>11, <1>12, <1>13, <1>14 DEF SoundBut, c

\* Cancelling the sibling of a filled order makes the books sound again.
LEMMA CancelSiblingSound ==
  ASSUME NEW b, NEW id \in Ids(b), SoundBut(b, id),
         b.orders[id].status = "COMPLETE",
         ~SiblingReleaseFails(b, id)
  PROVE  LET c == CancelSibling(b, id)
         IN  /\ Sound(c)
             /\ Ids(c) = Ids(b)
             /\ c.orders[id] = b.orders[id]
             /\ \A j \in Ids(b) :
                  c.orders[j].parent_order_id = b.orders[j].parent_order_id
<1> DEFINE c == CancelSibling(b, id)
<1>1. b.orders \in Seq(OrderType) /\ \A j \in Ids(b) : b.orders[j] \in OrderType
  BY DEF SoundBut, Typed, Books, Ids
<1>2. \A j \in Ids(b) : SameBracket(b, id, j) => b.orders[j].side = b.orders[id].side
  BY DEF SoundBut, ParentsSound, SameBracket
<1>3. CASE Siblings(b, id) = {}
  <2>1. c = b
    BY <1>3 DEF CancelSibling
  <2>2. \A j \in Ids(b) : SameBracket(b, id, j) => ~Resting(b.orders[j])
    BY <1>3 DEF Siblings, SameBracket
  <2>3. \A j \in Ids(b) :
          SameBracket(b, id, j) /\ b.orders[id].side = "SELL" => b.orders[j].status # "COMPLETE"
    BY <1>2 DEF SoundBut, LegsSound, SameBracket
  <2>4. \A j \in Ids(b) : b.orders[j].status \in RestingStatuses \cup TerminalStatuses
    BY <1>1 DEF OrderType
  <2>5. LegsSound(b, None)
    BY <2>2, <2>3, <2>4 DEF SoundBut, LegsSound, Resting, TerminalStatuses
  <2> QED  BY <2>1, <2>5 DEF Sound, SoundBut
<1>4. CASE Siblings(b, id) # {}
  <2> DEFINE other == CHOOSE s \in Siblings(b, id) : TRUE
             r == ReleaseReservation(b, other)
             o == [b.orders[other] EXCEPT !.status = "CANCELLED"]
  <2>1. other \in Siblings(b, id)
    BY <1>4
  <2>2. c = [r EXCEPT !.orders[other] = [r.orders[other] EXCEPT !.status = "CANCELLED"]]
    BY <1>4 DEF CancelSibling
  <2> HIDE DEF other
  <2>3. /\ other \in Ids(b)
        /\ SameBracket(b, id, other)
        /\ Resting(b.orders[other])
        /\ CanRelease(b, other)
    BY <2>1 DEF Siblings, SameBracket, SiblingReleaseFails
  <2>4. /\ SoundBut(r, id)
        /\ r.orders = b.orders
        /\ r.reservations = [b.reservations EXCEPT ![other] = 0]
    BY <2>3, ReleaseSound
  <2>5. r.reservations[other] = 0
    BY <2>3, <2>4 DEF SoundBut, Typed, Books, Ids
  <2> HIDE DEF r
  <2>6. /\ o \in OrderType
        /\ o.side = b.orders[other].side
        /\ o.parent_order_id = b.orders[other].parent_order_id
        /\ o.status = "CANCELLED"
    BY <1>1, <2>3, StatusType DEF TerminalStatuses
  <2>7. c = Store(r, other, o) /\ other \in Ids(r)
    BY <2>2, <2>3, <2>4 DEF Ids, Store
  <2> HIDE DEF o, c
  <2>8. SoundBut(c, id) /\ c.orders = [b.orders EXCEPT ![other] = o]
    <3>1. /\ Resting(r.orders[other])
          /\ o.side = r.orders[other].side
          /\ o.parent_order_id = r.orders[other].parent_order_id
          /\ o.status \in RestingStatuses \cup {"CANCELLED", "REJECTED"}
      BY <2>3, <2>4, <2>6
    <3>2. /\ SoundBut(Store(r, other, o), id)
          /\ Store(r, other, o).orders = [r.orders EXCEPT ![other] = o]
      <4>1. SoundBut(r, id) /\ other \in Ids(r) /\ o \in OrderType
        BY <2>4, <2>6, <2>7
      <4>2. r.reservations[other] # 0 => Resting(o)
        BY <2>5
      <4>3. o.status \in RestingStatuses \cup {"CANCELLED", "REJECTED"}
        BY <3>1
      <4> QED  BY ONLY <3>1, <4>1, <4>2, <4>3, StoreSound
    <3> QED  BY <2>4, <2>7, <3>2
  <2>9. /\ Ids(c) = Ids(b)
        /\ c.orders[other] = o
        /\ \A i \in Ids(b) : i # other => c.orders[i] = b.orders[i]
    BY <1>1, <2>3, <2>8 DEF Ids
  <2>10. \A j \in Ids(b) : c.orders[j].parent_order_id = b.orders[j].parent_order_id
    BY <2>6, <2>9
  <2>11. \A j \in Ids(b) : SameBracket(c, id, j) => j = other
    BY <2>3, <2>10 DEF SoundBut, PairsSound, SameBracket
  <2>12. LegsSound(c, None)
    BY <2>6, <2>8, <2>9, <2>11 DEF SoundBut, LegsSound
  <2> QED  BY <2>3, <2>8, <2>9, <2>10, <2>12 DEF Sound, SoundBut, SameBracket, c
<1> QED  BY <1>3, <1>4

-----------------------------------------------------------------------------
(***************************************************************************)
(* Brackets.                                                               *)
(***************************************************************************)
\* At most one leg of id exists, and none has filled.
RoomForLeg(b, id) ==
    /\ \A j, k \in Ids(b) :
         /\ b.orders[j].parent_order_id = id
         /\ b.orders[k].parent_order_id = id
         => j = k
    /\ \A j \in Ids(b) :
         b.orders[j].parent_order_id = id => b.orders[j].status # "COMPLETE"

LEMMA SpawnLegSound ==
  ASSUME NEW b, Sound(b), NEW id \in Ids(b),
         b.orders[id].status = "COMPLETE",
         RoomForLeg(b, id),
         NEW leg \in OrderType, Resting(leg),
         leg.parent_order_id = id,
         leg.side = Opposite(b.orders[id].side),
         NEW is_stop_loss, NEW leg_price
  PROVE  /\ Sound(SpawnLeg(b, id, is_stop_loss, leg_price, leg))
         /\ Ids(b) \subseteq Ids(SpawnLeg(b, id, is_stop_loss, leg_price, leg))
         /\ SpawnLeg(b, id, is_stop_loss, leg_price, leg).orders[id] = b.orders[id]
         /\ NoLeg(b, id) => RoomForLeg(SpawnLeg(b, id, is_stop_loss, leg_price, leg), id)
<1> DEFINE c == AddOrder(b, leg)
           n == Len(b.orders) + 1
<1>1. Sound(c)
  BY AddOrderSound DEF RoomForLeg
<1>2. /\ Typed(c)
      /\ Len(c.orders) = n
      /\ \A i \in Ids(b) : /\ c.orders[i] = b.orders[i]
                           /\ c.reservations[i] = b.reservations[i]
      /\ \/ c.orders[n] = leg /\ c.reservations[n] = Hold(leg)
         \/ c.orders[n] = [leg EXCEPT !.status = "REJECTED"] /\ c.reservations[n] = 0
  <2>1. Typed(b)
    BY DEF Sound, SoundBut
  <2> QED  BY ONLY <2>1, leg \in OrderType, AddOrderAppends
<1>3. Len(b.orders) \in Nat
  BY DEF Sound, SoundBut, Typed, Books
<1>4. Ids(c) = Ids(b) \cup {n}
  BY <1>2, <1>3 DEF Ids
<1>5. c.orders[n].status # "COMPLETE"
  BY <1>2 DEF OrderType, Resting, RestingStatuses
<1> HIDE DEF c, n
<1>6. NoLeg(b, id) => RoomForLeg(c, id)
  BY <1>2, <1>4, <1>5 DEF NoLeg, RoomForLeg
<1>7. NoLeg(b, id) => RoomForLeg(b, id)
  BY DEF NoLeg, RoomForLeg
<1> QED  BY <1>1, <1>2, <1>4, <1>6, <1>7 DEF SpawnLeg, c

\* A bracket leg mirrors its entry.
LEMMA LegType ==
  ASSUME NEW b, Typed(b), NEW id \in Ids(b),
         NEW order_type \in OrderTypes, NEW price \in Nat, NEW trigger_price \in Nat,
         NEW status \in RestingStatuses
  PROVE  LET leg == Leg(b, id, order_type, price, trigger_price, status)
         IN  /\ leg \in OrderType
             /\ Resting(leg)
             /\ leg.parent_order_id = id
             /\ leg.side = Opposite(b.orders[id].side)
<1>1. b.orders[id] \in OrderType /\ id \in Nat
  BY DEF Typed, Books, Ids
<1>2. Opposite(b.orders[id].side) \in Sides
  BY DEF Opposite, Sides
<1> QED  BY <1>1, <1>2 DEF Leg, OrderType, None, Resting

\* The legs of an entry that has filled.
LEMMA SpawnBracketSound ==
  ASSUME NEW b, Sound(b), NEW id \in Ids(b),
         b.orders[id].status = "COMPLETE",
         NoLeg(b, id)
  PROVE  Sound(SpawnBracket(b, id)) /\ Ids(b) \subseteq Ids(SpawnBracket(b, id))
<1>1. CASE b.orders[id].parent_order_id # None
  BY <1>1 DEF SpawnBracket
<1>2. CASE b.orders[id].parent_order_id = None
  <2> DEFINE c == SpawnStopLoss(b, id)
             stop == b.orders[id].stop_loss_price
             target == c.orders[id].target_price
  <2>1. b.orders[id] \in OrderType /\ Typed(b)
    BY DEF Sound, SoundBut, Typed, Books, Ids
  <2>2. stop \in Nat
    BY <2>1 DEF OrderType
  <2>3. RoomForLeg(b, id)
    BY DEF NoLeg, RoomForLeg
  <2>4. /\ Sound(c)
        /\ Ids(b) \subseteq Ids(c)
        /\ id \in Ids(c)
        /\ c.orders[id] = b.orders[id]
        /\ RoomForLeg(c, id)
    <3> DEFINE leg == Leg(b, id, "STOP", None, stop, "TRIGGER_PENDING")
               is_stop_loss == TRUE
    <3>1. /\ leg \in OrderType
          /\ Resting(leg)
          /\ leg.parent_order_id = id
          /\ leg.side = Opposite(b.orders[id].side)
      BY <2>1, <2>2, LegType DEF OrderTypes, RestingStatuses, None
    <3> HIDE DEF leg, is_stop_loss
    <3>2. c = SpawnLeg(b, id, is_stop_loss, stop, leg)
      BY DEF SpawnStopLoss, leg, is_stop_loss
    <3> QED  BY <2>3, <3>1, <3>2, SpawnLegSound
  <2> HIDE DEF c
  <2>5. target \in Nat
    BY <2>1, <2>4 DEF OrderType
  <2>6. Sound(SpawnTarget(c, id)) /\ Ids(c) \subseteq Ids(SpawnTarget(c, id))
    <3> DEFINE leg == Leg(c, id, "LIMIT", target, None, "OPEN")
               is_stop_loss == FALSE
    <3>1. /\ leg \in OrderType
          /\ Resting(leg)
          /\ leg.parent_order_id = id
          /\ leg.side = Opposite(c.orders[id].side)
      BY <2>4, <2>5, LegType DEF OrderTypes, RestingStatuses, None, Sound, SoundBut
    <3> HIDE DEF leg, is_stop_loss
    <3>2. SpawnTarget(c, id) = SpawnLeg(c, id, is_stop_loss, target, leg)
      BY DEF SpawnTarget, leg, is_stop_loss
    <3>3. c.orders[id].status = "COMPLETE"
      BY <2>4
    <3> QED  BY ONLY <2>4, <3>1, <3>2, <3>3, SpawnLegSound
  <2>7. SpawnBracket(b, id) = SpawnTarget(c, id)
    BY <1>2 DEF SpawnBracket, c
  <2> QED  BY <2>4, <2>6, <2>7
<1> QED  BY <1>1, <1>2

-----------------------------------------------------------------------------
(***************************************************************************)
(* Settlement.                                                             *)
(***************************************************************************)
LEMMA SettledSound ==
  ASSUME NEW b, Sound(b), NEW id \in Ids(b), Resting(b.orders[id]),
         NEW px \in Nat, ~SettleRaises(b, id, px)
  PROVE  Sound(Settled(b, id, px)) /\ Ids(b) \subseteq Ids(Settled(b, id, px))
<1> DEFINE o == Working(b.orders[id], px)
           r == ReleaseReservation(b, id)
           m == Complete(r, id, o, px)
           d == CancelSibling(m, id)
<1>1. b.orders[id] \in OrderType /\ b.orders \in Seq(OrderType)
  BY DEF Sound, SoundBut, Typed, Books, Ids
<1>2. /\ o \in OrderType
      /\ Resting(o)
      /\ o.side = b.orders[id].side
      /\ o.parent_order_id = b.orders[id].parent_order_id
  BY <1>1, WorkingType
<1> HIDE DEF o
<1>3. CASE ~Fills(o, px)
  <2>1. Settled(b, id, px) = Store(b, id, o)
    BY <1>3 DEF Settled, Store, o
  <2>2. /\ Sound(Store(b, id, o))
        /\ Store(b, id, o).orders = [b.orders EXCEPT ![id] = o]
    BY <1>2, StoreSound DEF Sound, Resting
  <2>3. Ids(Store(b, id, o)) = Ids(b)
    BY <1>1, <2>2 DEF Ids
  <2> QED  BY <2>1, <2>2, <2>3
<1>4. ASSUME Fills(o, px)
      PROVE  /\ Sound(r)
             /\ r.orders = b.orders
             /\ r.reservations[id] = 0
             /\ id \in Ids(r)
  <2>1. CanRelease(b, id)
    BY <1>4 DEF SettleRaises, o
  <2>2. /\ Sound(r)
        /\ r.orders = b.orders
        /\ r.reservations = [b.reservations EXCEPT ![id] = 0]
    BY <2>1, ReleaseSound DEF Sound
  <2> QED  BY <2>2 DEF Sound, SoundBut, Typed, Books, Ids
<1> HIDE DEF r
<1>5. CASE Fills(o, px) /\ ~Affordable(r, o, px)
  <2> DEFINE w == [o EXCEPT !.status = "REJECTED"]
  <2>1. Settled(b, id, px) = Store(r, id, w)
    BY <1>5 DEF Settled, Reject, Store, o, r
  <2>2. /\ w \in OrderType
        /\ w.status = "REJECTED"
        /\ w.side = b.orders[id].side
        /\ w.parent_order_id = b.orders[id].parent_order_id
    BY <1>2, StatusType DEF TerminalStatuses
  <2> HIDE DEF w
  <2>3. w.status \in RestingStatuses \cup {"CANCELLED", "REJECTED"}
    BY <2>2
  <2>4. SoundBut(r, None)
    BY <1>4, <1>5 DEF Sound
  <2>5. /\ SoundBut(Store(r, id, w), None)
        /\ Store(r, id, w).orders = [r.orders EXCEPT ![id] = w]
    <3>1. /\ r.orders = b.orders
          /\ r.reservations[id] = 0
          /\ id \in Ids(r)
      BY <1>4, <1>5
    <3>2. /\ Resting(r.orders[id])
          /\ w.side = r.orders[id].side
          /\ w.parent_order_id = r.orders[id].parent_order_id
          /\ r.reservations[id] # 0 => Resting(w)
      BY <2>2, <3>1
    <3> QED  BY ONLY <2>2, <2>3, <2>4, <3>1, <3>2, StoreSound
  <2>6. Ids(Store(r, id, w)) = Ids(b)
    BY <1>1, <1>4, <1>5, <2>5 DEF Ids
  <2> QED  BY <2>1, <2>5, <2>6 DEF Sound
<1>6. CASE Fills(o, px) /\ Affordable(r, o, px)
  <2>1. /\ SoundBut(m, id)
        /\ m.orders[id].status = "COMPLETE"
        /\ Ids(m) = Ids(r)
        /\ NoLeg(m, id)
    <3>1. /\ Sound(r)
          /\ r.orders = b.orders
          /\ r.reservations[id] = 0
          /\ id \in Ids(r)
          /\ Affordable(r, o, px)
      BY <1>4, <1>6
    <3>2. /\ Resting(r.orders[id])
          /\ o.side = r.orders[id].side
          /\ o.parent_order_id = r.orders[id].parent_order_id
      BY <1>2, <3>1
    <3> QED  BY ONLY <1>2, <3>1, <3>2, px \in Nat, CompleteSound
  <2>2. Ids(r) = Ids(b)
    BY <1>4, <1>6 DEF Ids
  <2>4. ~SiblingReleaseFails(m, id)
    BY <1>6 DEF SettleRaises, o, r
  <2> HIDE DEF m
  <2>5. /\ Sound(d)
        /\ Ids(d) = Ids(m)
        /\ d.orders[id] = m.orders[id]
        /\ \A j \in Ids(m) :
             d.orders[j].parent_order_id = m.orders[j].parent_order_id
    <3>1. id \in Ids(m)
      BY <2>1, <2>2
    <3> QED  BY ONLY <2>1, <2>4, <3>1, CancelSiblingSound
  <2> HIDE DEF d
  <2>6. d.orders[id].status = "COMPLETE" /\ NoLeg(d, id) /\ id \in Ids(d)
    BY <2>1, <2>2, <2>5 DEF NoLeg
  <2>7. Sound(SpawnBracket(d, id)) /\ Ids(d) \subseteq Ids(SpawnBracket(d, id))
    BY <2>5, <2>6, SpawnBracketSound
  <2>8. Settled(b, id, px) = SpawnBracket(d, id)
    BY <1>6 DEF Settled, o, r, m, d
  <2> QED  BY <2>1, <2>2, <2>5, <2>7, <2>8
<1> QED  BY <1>3, <1>5, <1>6

LEMMA HalfSettledSound ==
  ASSUME NEW b, Sound(b), NEW id \in Ids(b), Resting(b.orders[id]),
         NEW px \in Nat, SettleRaises(b, id, px)
  PROVE  Sound(HalfSettled(b, id, px)) /\ Ids(HalfSettled(b, id, px)) = Ids(b)
<1> DEFINE o == Working(b.orders[id], px)
           r == ReleaseReservation(b, id)
           m == Complete(r, id, o, px)
           other == CHOOSE s \in Siblings(m, id) : TRUE
           c == PopReservation(m, other)
<1>1. CASE ~CanRelease(b, id)
  <2>1. Sound(PopReservation(b, id)) /\ PopReservation(b, id).orders = b.orders
    BY PopSound DEF Sound
  <2>2. HalfSettled(b, id, px) = PopReservation(b, id)
    BY <1>1 DEF HalfSettled
  <2> QED  BY <2>1, <2>2 DEF Ids
<1>2. CASE CanRelease(b, id)
  <2>1. b.orders[id] \in OrderType
    BY DEF Sound, SoundBut, Typed, Books, Ids
  <2>2. /\ o \in OrderType
        /\ o.side = b.orders[id].side
        /\ o.parent_order_id = b.orders[id].parent_order_id
    BY <2>1, WorkingType
  <2>3. Affordable(r, o, px) /\ SiblingReleaseFails(m, id)
    BY <1>2 DEF SettleRaises
  <2>4. /\ Sound(r)
        /\ r.orders = b.orders
        /\ r.reservations = [b.reservations EXCEPT ![id] = 0]
    BY <1>2, ReleaseSound DEF Sound
  <2>5. r.reservations[id] = 0 /\ Ids(r) = Ids(b)
    BY <2>4 DEF Sound, SoundBut, Typed, Books, Ids
  <2> HIDE DEF o, r
  <2>6. /\ SoundBut(m, id)
        /\ m.orders[id].status = "COMPLETE"
        /\ Ids(m) = Ids(b)
    <3>1. /\ id \in Ids(r)
          /\ Resting(r.orders[id])
          /\ o.side = r.orders[id].side
          /\ o.parent_order_id = r.orders[id].parent_order_id
      BY <2>2, <2>4, <2>5
    <3>2. Sound(r) /\ r.reservations[id] = 0 /\ Affordable(r, o, px) /\ o \in OrderType
      BY <2>2, <2>3, <2>4, <2>5
    <3>3. /\ SoundBut(m, id)
          /\ m.orders[id].status = "COMPLETE"
          /\ Ids(m) = Ids(r)
      BY ONLY <3>1, <3>2, px \in Nat, CompleteSound
    <3> QED  BY <2>5, <3>3
  <2> HIDE DEF m
  <2>7. PICK s \in Siblings(m, id) : ~CanRelease(m, s)
    BY <2>3 DEF SiblingReleaseFails
  <2>8. other \in Siblings(m, id)
    BY <2>7
  <2> HIDE DEF other
  <2>9. \A j \in Siblings(m, id) : j \in Ids(m) /\ SameBracket(m, id, j)
    BY <2>6 DEF Siblings, SameBracket
  <2>10. m.orders[s].side = "BUY"
    <3>1. m.reservations[s] # 0
      BY <2>6, <2>7, <2>9 DEF CanRelease, SoundBut, Typed, Books, Ids
    <3> QED  BY <2>6, <2>9, <3>1 DEF SoundBut, HoldsSound
  <2>11. m.orders[id].side = m.orders[s].side
    <3>1. s \in Ids(m) /\ SameBracket(m, id, s) /\ ParentsSound(m) /\ id \in Ids(m)
      BY <2>6, <2>9 DEF SoundBut, Ids
    <3> QED  BY ONLY <3>1 DEF ParentsSound, SameBracket
  <2>12. SoundBut(c, id) /\ c.orders = m.orders
    BY <2>6, <2>8, <2>9, PopSound
  <2>13. LegsSound(c, None)
    BY <2>10, <2>11, <2>12 DEF SoundBut, LegsSound
  <2>14. HalfSettled(b, id, px) = c
    BY <1>2 DEF HalfSettled, PopSibling, c, other, m, o, r
  <2> QED  BY <2>6, <2>12, <2>13, <2>14 DEF Sound, SoundBut, Ids
<1> QED  BY <1>1, <1>2

-----------------------------------------------------------------------------
(***************************************************************************)
(* The steps.                                                              *)
(***************************************************************************)
LEMMA BooksAreSound ==
  ASSUME IInv
  PROVE  Sound(Book) /\ Ids(Book) = 1..Len(orders) /\ Book.orders = orders
BY DEF IInv, Book, Ids

\* Making sound books the new state.
LEMMA BecomesSound ==
  ASSUME NEW b, Sound(b), BookBecomes(b)
  PROVE  /\ Sound(Book')
         /\ orders' \in Seq(OrderType)
         /\ reservations' \in Seq(Nat)
         /\ Len(reservations') = Len(orders')
         /\ cash' \in Nat
         /\ reserved' \in Nat
         /\ 1..Len(orders') = Ids(b)
<1>1. Typed(b)
  BY DEF Sound, SoundBut
<1>2. Book' = b
  BY <1>1 DEF Book, BookBecomes, Typed, Books
<1> QED  BY <1>1, <1>2 DEF BookBecomes, Typed, Books, Ids

LEMMA NewOrderType ==
  ASSUME NEW req \in RequestType, NEW px \in Nat,
         req.order_type = "TRAILING_STOP" => NewOrder(req, px).trigger_price > 0
  PROVE  /\ NewOrder(req, px) \in OrderType
         /\ Resting(NewOrder(req, px))
         /\ NewOrder(req, px).parent_order_id = None
<1> DEFINE o == NewOrder(req, px)
<1>1. TrailingOffset(req, px) \in Nat
  BY OffsetIsNat DEF RequestType
<1>2. o.trigger_price \in Nat
  <2>1. InitialTrailingTrigger(req, px) \in Int
    BY <1>1 DEF InitialTrailingTrigger
  <2>2. /\ o.trigger_price = IF req.order_type = "TRAILING_STOP"
                             THEN InitialTrailingTrigger(req, px)
                             ELSE req.trigger_price
        /\ req.trigger_price \in Nat
    BY DEF NewOrder, RequestType
  <2> QED  BY <2>1, <2>2
<1>3. /\ o.status \in RestingStatuses
      /\ o.parent_order_id = None
  BY DEF NewOrder, RestingStatuses
<1>4. o \in OrderType
  BY <1>2, <1>3 DEF NewOrder, OrderType, RequestType, None
<1> QED  BY <1>3, <1>4 DEF Resting

\* Settling an entry that was reserved a moment before raises nothing.
LEMMA NewOrderSettles ==
  ASSUME IInv, NEW o \in OrderType, Resting(o), o.parent_order_id = None,
         Fundable(Book, o), NEW px \in Nat
  PROVE  LET b == AddOrder(Book, o)
             n == Len(orders) + 1
         IN  /\ Sound(b)
             /\ n \in Ids(b)
             /\ b.orders[n] = o
             /\ ~SettleRaises(b, n, px)
<1> DEFINE b == AddOrder(Book, o)
           n == Len(orders) + 1
           w == Working(b.orders[n], px)
           r == ReleaseReservation(b, n)
           m == Complete(r, n, w, px)
<1>1. Sound(Book) /\ Typed(Book) /\ Book.orders = orders /\ Len(orders) \in Nat
  BY BooksAreSound DEF Sound, SoundBut, IInv, TypeOK
<1>2. Sound(b)
  BY <1>1, AddOrderSound
<1>3. Len(b.orders) = n /\ b.orders[n] = o
  BY <1>1, AddOrderAppends
<1>4. b.reservations[n] = Hold(o) /\ b.reserved = reserved + Hold(o)
  BY <1>1 DEF AddOrder, Book, Typed, Books
<1>5. n \in Ids(b)
  BY <1>1, <1>3 DEF Ids
<1> HIDE DEF b
<1>6. CanRelease(b, n)
  BY <1>4, HoldIsNat DEF CanRelease, IInv, TypeOK
<1>7. ~SiblingReleaseFails(m, n)
  <2>1. r.orders = b.orders /\ Sound(r)
    BY <1>2, <1>5, <1>6, ReleaseSound DEF Sound
  <2>2. w.parent_order_id = None
    BY <1>3, WorkingType
  <2> HIDE DEF w, r
  <2>3. m.orders[n].parent_order_id = None
    BY <1>5, <2>1, <2>2 DEF Complete, Sound, SoundBut, Typed, Books, Ids
  <2> QED  BY <2>3 DEF SiblingReleaseFails, Siblings
<1>8. ~SettleRaises(b, n, px)
  BY <1>6, <1>7 DEF SettleRaises
<1> QED  BY <1>2, <1>3, <1>5, <1>8 DEF b

LEMMA PlaceOrderKeepsIInv ==
  ASSUME IInv, NEW req \in Requests, NEW px \in Prices, PlaceOrder(req, px)
  PROVE  IInv'
<1> DEFINE o == NewOrder(req, px)
           b == AddOrder(Book, o)
           n == Len(orders) + 1
<1>1. req \in RequestType /\ px \in Nat
  BY OrderBookAssumption
<1>2. Sound(Book) /\ Typed(Book) /\ Book.orders = orders
  BY BooksAreSound DEF Sound, SoundBut
<1>3. o \in OrderType /\ Resting(o) /\ o.parent_order_id = None
  BY <1>1, NewOrderType DEF PlaceOrder, NewOrder
<1>4. BookBecomes(IF Fundable(Book, o) THEN Settled(b, n, px) ELSE b)
  BY DEF PlaceOrder
<1> HIDE DEF o
<1>5. Sound(b) /\ Len(b.orders) = n
  BY <1>2, <1>3, AddOrderSound, AddOrderAppends
<1>6. Fundable(Book, o) =>
        /\ n \in Ids(b)
        /\ b.orders[n] = o
        /\ ~SettleRaises(b, n, px)
  BY <1>1, <1>3, NewOrderSettles
<1> HIDE DEF b
<1>7. Fundable(Book, o) => Sound(Settled(b, n, px)) /\ Ids(b) \subseteq Ids(Settled(b, n, px))
  BY <1>1, <1>3, <1>5, <1>6, SettledSound
<1>8. PICK c : Sound(c) /\ Ids(b) \subseteq Ids(c) /\ BookBecomes(c)
  BY <1>4, <1>5, <1>7
<1>9. 1..Len(orders) \subseteq Ids(b)
  BY <1>5 DEF Ids, IInv, TypeOK
<1>10. /\ Sound(Book')
       /\ orders' \in Seq(OrderType)
       /\ reservations' \in Seq(Nat)
       /\ Len(reservations') = Len(orders')
       /\ cash' \in Nat
       /\ reserved' \in Nat
       /\ 1..Len(orders') = Ids(c)
  BY <1>8, BecomesSound
<1>11. UNCHANGED <<capital, tick, pending, holdLost>>
  BY DEF PlaceOrder
<1>12. TypeOK'
  BY <1>8, <1>9, <1>10, <1>11 DEF IInv, TypeOK, Idle
<1> QED  BY <1>10, <1>12 DEF IInv

LEMMA CancelOrderKeepsIInv ==
  ASSUME IInv, NEW id \in 1..Len(orders), CancelOrder(id)
  PROVE  IInv'
<1> DEFINE r == ReleaseReservation(Book, id)
           o == [orders[id] EXCEPT !.status = "CANCELLED"]
<1>1. Sound(Book) /\ id \in Ids(Book) /\ Book.orders = orders
  BY BooksAreSound
<1>2. Resting(orders[id]) /\ orders[id] \in OrderType /\ orders \in Seq(OrderType)
  BY DEF CancelOrder, IInv, TypeOK
<1>3. PICK c : Sound(c) /\ Ids(c) = 1..Len(orders) /\ BookBecomes(c)
  <2>1. CASE ~CanRelease(Book, id)
    <3>1. BookBecomes(PopReservation(Book, id))
      BY <2>1 DEF CancelOrder
    <3>2. /\ Sound(PopReservation(Book, id))
          /\ PopReservation(Book, id).orders = orders
      BY <1>1, PopSound DEF Sound
    <3> QED  BY <3>1, <3>2 DEF Ids
  <2>2. CASE CanRelease(Book, id)
    <3>1. /\ Sound(r)
          /\ r.orders = orders
          /\ r.reservations = [Book.reservations EXCEPT ![id] = 0]
      BY <1>1, <2>2, ReleaseSound DEF Sound
    <3>2. BookBecomes([r EXCEPT !.orders[id] = [r.orders[id] EXCEPT !.status = "CANCELLED"]])
      BY <2>2 DEF CancelOrder
    <3>3. r.reservations[id] = 0 /\ id \in Ids(r)
      BY <1>1, <3>1 DEF Sound, SoundBut, Typed, Books, Ids
    <3> HIDE DEF r
    <3>4. BookBecomes(Store(r, id, o))
      BY <3>1, <3>2 DEF Store
    <3>5. /\ o \in OrderType
          /\ o.status = "CANCELLED"
          /\ o.side = orders[id].side
          /\ o.parent_order_id = orders[id].parent_order_id
      BY <1>2, StatusType DEF TerminalStatuses
    <3> HIDE DEF o
    <3>6. /\ SoundBut(r, None)
          /\ Resting(r.orders[id])
          /\ o.side = r.orders[id].side
          /\ o.parent_order_id = r.orders[id].parent_order_id
          /\ o.status \in RestingStatuses \cup {"CANCELLED", "REJECTED"}
          /\ r.reservations[id] # 0 => Resting(o)
      BY <1>2, <3>1, <3>3, <3>5 DEF Sound
    <3>7. /\ SoundBut(Store(r, id, o), None)
          /\ Store(r, id, o).orders = [r.orders EXCEPT ![id] = o]
      BY ONLY <3>3, <3>5, <3>6, StoreSound
    <3>8. Ids(Store(r, id, o)) = 1..Len(orders)
      BY <1>2, <3>1, <3>7 DEF Ids
    <3> QED  BY <3>4, <3>7, <3>8 DEF Sound
  <2> QED  BY <2>1, <2>2
<1>4. /\ Sound(Book')
      /\ orders' \in Seq(OrderType)
      /\ reservations' \in Seq(Nat)
      /\ Len(reservations') = Len(orders')
      /\ cash' \in Nat
      /\ reserved' \in Nat
      /\ 1..Len(orders') = Ids(c)
  BY <1>3, BecomesSound
<1>5. UNCHANGED <<capital, tick, pending, holdLost>>
  BY DEF CancelOrder
<1>6. TypeOK'
  BY <1>3, <1>4, <1>5 DEF IInv, TypeOK, Idle
<1> QED  BY <1>4, <1>6 DEF IInv

LEMMA ModifiedType ==
  ASSUME NEW o \in OrderType, NEW mod \in ModificationType
  PROVE  /\ Modified(o, mod) \in OrderType
         /\ Modified(o, mod).status = o.status
         /\ Modified(o, mod).side = o.side
         /\ Modified(o, mod).parent_order_id = o.parent_order_id
BY DEF Modified, OrderType, ModificationType, None

LEMMA ModifyOrderKeepsIInv ==
  ASSUME IInv, NEW id \in 1..Len(orders), NEW mod \in Modifications, ModifyOrder(id, mod)
  PROVE  IInv'
<1> DEFINE o == Modified(orders[id], mod)
           r == ReleaseReservation(Book, id)
           c == [r EXCEPT !.orders[id] = o,
                          !.reservations[id] = Hold(o),
                          !.reserved = r.reserved + Hold(o)]
<1>1. Sound(Book) /\ id \in Ids(Book) /\ Book.orders = orders
  BY BooksAreSound
<1>2. Resting(orders[id]) /\ orders[id] \in OrderType
  BY DEF ModifyOrder, IInv, TypeOK
<1>3. /\ o \in OrderType
      /\ o.status = orders[id].status
      /\ o.side = orders[id].side
      /\ o.parent_order_id = orders[id].parent_order_id
  BY <1>2, ModifiedType, OrderBookAssumption
<1>4. Sound(r) /\ r.orders = orders
  BY <1>1, ReleaseSound DEF Sound, ModifyOrder
<1>5. BookBecomes(c)
  BY DEF ModifyOrder
<1>6. Hold(o) \in Nat /\ (Hold(o) # 0 => o.side = "BUY")
  BY <1>3, HoldIsNat DEF Hold
<1>7. Typed(r) /\ id \in Ids(r)
  BY <1>4 DEF Sound, SoundBut, Ids
<1> HIDE DEF o, r
<1>8. /\ Typed(c)
      /\ c.orders = [r.orders EXCEPT ![id] = o]
      /\ c.reservations = [r.reservations EXCEPT ![id] = Hold(o)]
  <2> DEFINE f == [r.orders EXCEPT ![id] = o]
             g == [r.reservations EXCEPT ![id] = Hold(o)]
  <2>1. f \in Seq(OrderType) /\ Len(f) = Len(r.orders)
    BY <1>3, <1>7 DEF Typed, Books, Ids
  <2>2. g \in Seq(Nat) /\ Len(g) = Len(r.reservations)
    BY <1>6, <1>7 DEF Typed, Books, Ids
  <2>3. r.reserved + Hold(o) \in Nat
    BY <1>6, <1>7 DEF Typed, Books
  <2> DEFINE With(x, y, n) == [r EXCEPT !.orders = x, !.reservations = y, !.reserved = n]
  <2>4. c = With(f, g, r.reserved + Hold(o))
    BY <1>7 DEF Typed, Books
  <2> HIDE DEF f, g, c
  <2>5. \A x \in Seq(OrderType), y \in Seq(Nat), n \in Nat :
          /\ With(x, y, n) \in Books
          /\ With(x, y, n).orders = x
          /\ With(x, y, n).reservations = y
    BY <1>7 DEF Typed, Books
  <2> HIDE DEF With
  <2>6. c \in Books /\ c.orders = f /\ c.reservations = g
    BY <2>1, <2>2, <2>3, <2>4, <2>5
  <2> QED  BY <1>7, <2>1, <2>2, <2>6 DEF Typed, f, g
<1> HIDE DEF c
<1>9. /\ \A i \in Ids(r) : i # id => c.reservations[i] = r.reservations[i]
      /\ c.reservations[id] = Hold(o)
  BY <1>7, <1>8 DEF Typed, Books, Ids
<1>10. Sound(c)
  <2>1. /\ SoundBut(r, None)
        /\ Resting(r.orders[id])
        /\ o.side = r.orders[id].side
        /\ o.parent_order_id = r.orders[id].parent_order_id
        /\ o.status \in RestingStatuses \cup {"CANCELLED", "REJECTED"}
        /\ c.reservations[id] # 0 => Resting(o) /\ o.side = "BUY"
    BY <1>2, <1>3, <1>4, <1>6, <1>9 DEF Sound, Resting
  <2>2. SoundBut(c, None)
    <3>1. o \in OrderType /\ id \in Ids(r) /\ Typed(c)
      BY <1>3, <1>7, <1>8
    <3>2. c.orders = [r.orders EXCEPT ![id] = o]
      BY <1>8
    <3>3. \A i \in Ids(r) : i # id => c.reservations[i] = r.reservations[i]
      BY <1>9
    <3> QED  BY ONLY <2>1, <3>1, <3>2, <3>3, ReplaceSound
  <2> QED  BY <2>2 DEF Sound
<1>11. Ids(c) = 1..Len(orders)
  BY <1>4, <1>7, <1>8 DEF Typed, Books, Ids
<1>12. /\ Sound(Book')
       /\ orders' \in Seq(OrderType)
       /\ reservations' \in Seq(Nat)
       /\ Len(reservations') = Len(orders')
       /\ cash' \in Nat
       /\ reserved' \in Nat
       /\ 1..Len(orders') = Ids(c)
  BY <1>5, <1>10, BecomesSound
<1>13. UNCHANGED <<capital, tick, pending, holdLost>>
  BY DEF ModifyOrder
<1>14. TypeOK'
  BY <1>11, <1>12, <1>13 DEF IInv, TypeOK, Idle
<1> QED  BY <1>12, <1>14 DEF IInv

LEMMA ModifyLosesHoldKeepsIInv ==
  ASSUME IInv, NEW id \in 1..Len(orders), NEW mod \in Modifications,
         ModifyLosesHold(id, mod)
  PROVE  IInv'
<1>1. CanRelease(Book, id) /\ reserved' = ReleaseReservation(Book, id).reserved
  BY DEF ModifyLosesHold
<1>2. UNCHANGED <<orders, reservations, cash, capital, tick, pending>> /\ holdLost' \in BOOLEAN
  BY DEF ModifyLosesHold
<1>3. reserved' \in Nat
  BY <1>1 DEF CanRelease, ReleaseReservation, Book, IInv, TypeOK
<1>4. TypeOK'
  BY <1>2, <1>3 DEF IInv, TypeOK, Idle
<1>5. Book'.orders = orders /\ Book'.reservations = reservations
  BY <1>2 DEF Book
<1>6. Typed(Book')
  BY <1>4 DEF TypeOK, Typed, Books, Book
<1>7. Sound(Book')
  <2> HIDE DEF Book
  <2>1. Book.orders = orders /\ Book.reservations = reservations /\ Sound(Book)
    BY DEF IInv, Book
  <2>2. HoldsSound(Book')
    BY <1>5, <2>1 DEF Sound, SoundBut, HoldsSound, Ids
  <2>3. ParentsSound(Book')
    BY <1>5, <2>1 DEF Sound, SoundBut, ParentsSound, Ids
  <2>4. PairsSound(Book') /\ LegsSound(Book', None)
    BY <1>5, <2>1 DEF Sound, SoundBut, PairsSound, LegsSound, SameBracket, Ids
  <2> QED  BY <1>6, <2>2, <2>3, <2>4 DEF Sound, SoundBut
<1> QED  BY <1>4, <1>7 DEF IInv

\* Steps that leave the books alone.
LEMMA UnchangedBooks ==
  ASSUME IInv, UNCHANGED <<orders, reservations, cash, reserved>>
  PROVE  Sound(Book')
<1>1. Book' = Book
  BY DEF Book
<1> QED  BY <1>1 DEF IInv

LEMMA BeginPriceUpdateKeepsIInv ==
  ASSUME IInv, NEW symbol \in Symbols, NEW px \in Prices, BeginPriceUpdate(symbol, px)
  PROVE  IInv'
<1>1. UNCHANGED <<orders, reservations, cash, reserved, capital, holdLost>>
  BY DEF BeginPriceUpdate
<1>2. tick' = [symbol |-> symbol, price |-> px] /\ pending' \subseteq Ids(Book)
  BY DEF BeginPriceUpdate
<1>3. px # None
  BY OrderBookAssumption DEF None
<1>4. tick' # NoTick /\ tick' \in [symbol : Symbols, price : Prices]
  BY <1>2, <1>3 DEF NoTick
<1>5. Ids(Book) = 1..Len(orders)
  BY BooksAreSound
<1>6. TypeOK'
  BY <1>1, <1>2, <1>4, <1>5 DEF IInv, TypeOK, Idle
<1> QED  BY <1>1, <1>6, UnchangedBooks DEF IInv

LEMMA EndPriceUpdateKeepsIInv ==
  ASSUME IInv, EndPriceUpdate
  PROVE  IInv'
<1>1. UNCHANGED <<orders, reservations, cash, reserved, capital, pending, holdLost>>
      /\ tick' = NoTick /\ pending = {}
  BY DEF EndPriceUpdate
<1>2. TypeOK'
  BY <1>1 DEF IInv, TypeOK, Idle
<1> QED  BY <1>1, <1>2, UnchangedBooks DEF IInv

LEMMA TickPrice ==
  ASSUME IInv, ~Idle
  PROVE  tick.price \in Nat
BY OrderBookAssumption DEF IInv, TypeOK, Idle

LEMMA EvaluateNextKeepsIInv ==
  ASSUME IInv, NEW id \in pending, EvaluateNext(id)
  PROVE  IInv'
<1> DEFINE px == tick.price
           c == IF Resting(orders[id]) THEN Settled(Book, id, px) ELSE Book
<1>1. /\ ~Idle
      /\ BookBecomes(c)
      /\ Resting(orders[id]) => ~SettleRaises(Book, id, px)
  BY DEF EvaluateNext
<1>2. Sound(Book) /\ Ids(Book) = 1..Len(orders) /\ Book.orders = orders
  BY BooksAreSound
<1>3. id \in 1..Len(orders) /\ px \in Nat
  BY <1>1, TickPrice DEF IInv, TypeOK
<1>4. Sound(c) /\ Ids(Book) \subseteq Ids(c)
  <2> HIDE DEF px
  <2>1. CASE Resting(orders[id])
    BY <1>1, <1>2, <1>3, <2>1, SettledSound
  <2>2. CASE ~Resting(orders[id])
    BY <1>2, <2>2
  <2> QED  BY <2>1, <2>2
<1> HIDE DEF c
<1>5. /\ Sound(Book')
      /\ orders' \in Seq(OrderType)
      /\ reservations' \in Seq(Nat)
      /\ Len(reservations') = Len(orders')
      /\ cash' \in Nat
      /\ reserved' \in Nat
      /\ 1..Len(orders') = Ids(c)
  BY <1>1, <1>4, BecomesSound
<1>6. UNCHANGED <<capital, tick, holdLost>> /\ pending' \subseteq pending
  BY DEF EvaluateNext
<1>7. TypeOK'
  BY <1>1, <1>2, <1>4, <1>5, <1>6 DEF IInv, TypeOK, Idle
<1> QED  BY <1>5, <1>7 DEF IInv

LEMMA EvaluateRaisesKeepsIInv ==
  ASSUME IInv, NEW id \in pending, EvaluateRaises(id)
  PROVE  IInv'
<1> DEFINE px == tick.price
           c == HalfSettled(Book, id, px)
<1>1. /\ ~Idle
      /\ BookBecomes(c)
      /\ Resting(orders[id])
      /\ SettleRaises(Book, id, px)
  BY DEF EvaluateRaises
<1>2. Sound(Book) /\ Ids(Book) = 1..Len(orders) /\ Book.orders = orders
  BY BooksAreSound
<1>3. id \in 1..Len(orders) /\ px \in Nat
  BY <1>1, TickPrice DEF IInv, TypeOK
<1> HIDE DEF px
<1>4. Sound(c)
  BY <1>1, <1>2, <1>3, HalfSettledSound
<1> HIDE DEF c
<1>5. /\ Sound(Book')
      /\ orders' \in Seq(OrderType)
      /\ reservations' \in Seq(Nat)
      /\ Len(reservations') = Len(orders')
      /\ cash' \in Nat
      /\ reserved' \in Nat
      /\ 1..Len(orders') = Ids(c)
  BY <1>1, <1>4, BecomesSound
<1>6. UNCHANGED <<capital, holdLost>> /\ tick' = NoTick /\ pending' = {}
  BY DEF EvaluateRaises
<1>7. TypeOK'
  BY <1>5, <1>6 DEF IInv, TypeOK, Idle
<1> QED  BY <1>5, <1>7 DEF IInv

\* An empty book is sound.
LEMMA EmptyBookSound ==
  ASSUME NEW amount \in Nat
  PROVE  Sound([orders |-> <<>>, reservations |-> <<>>, cash |-> amount, reserved |-> 0])
<1> DEFINE b == [orders |-> <<>>, reservations |-> <<>>, cash |-> amount, reserved |-> 0]
<1>1. Typed(b)
  BY DEF Typed, Books
<1>2. Ids(b) = {}
  BY DEF Ids
<1> HIDE DEF b
<1>3. HoldsSound(b) /\ ParentsSound(b) /\ PairsSound(b) /\ LegsSound(b, None)
  BY <1>2 DEF HoldsSound, ParentsSound, PairsSound, LegsSound
<1> QED  BY <1>1, <1>3 DEF Sound, SoundBut, b

LEMMA ResetKeepsIInv ==
  ASSUME IInv, NEW amount \in Capitals, Reset(amount)
  PROVE  IInv'
<1>1. amount \in Nat
  BY OrderBookAssumption
<1>2. /\ orders' = <<>> /\ reservations' = <<>> /\ cash' = amount /\ reserved' = 0
      /\ capital' = amount /\ holdLost' = FALSE /\ UNCHANGED <<tick, pending>> /\ Idle
  BY DEF Reset
<1>3. Sound(Book')
  BY <1>1, <1>2, EmptyBookSound DEF Book
<1>4. /\ orders' \in Seq(OrderType)
      /\ reservations' \in Seq(Nat)
      /\ Len(orders') = 0
      /\ Len(reservations') = 0
  BY <1>2
<1>5. pending' = {} /\ tick' = NoTick
  BY <1>2 DEF IInv, TypeOK, Idle
<1>6. TypeOK'
  BY <1>1, <1>2, <1>4, <1>5 DEF TypeOK
<1> QED  BY <1>3, <1>6 DEF IInv

-----------------------------------------------------------------------------
(***************************************************************************)
(* The theorems.                                                           *)
(***************************************************************************)
LEMMA InitIInv == BookInit => IInv
<1> SUFFICES ASSUME BookInit PROVE IInv
  OBVIOUS
<1>1. /\ orders = <<>> /\ reservations = <<>> /\ cash \in Nat /\ reserved = 0
      /\ capital \in Capitals /\ tick = NoTick /\ pending = {} /\ holdLost = FALSE
  BY OrderBookAssumption DEF BookInit
<1>2. Sound(Book)
  BY <1>1, EmptyBookSound DEF Book
<1>3. /\ orders \in Seq(OrderType)
      /\ reservations \in Seq(Nat)
      /\ Len(orders) = 0
      /\ Len(reservations) = 0
  BY <1>1
<1>4. TypeOK
  BY <1>1, <1>3 DEF TypeOK
<1> QED  BY <1>2, <1>4 DEF IInv

LEMMA NextIInv == IInv /\ [BookNext]_bookVars => IInv'
<1> SUFFICES ASSUME IInv, [BookNext]_bookVars
             PROVE  IInv'
  OBVIOUS
<1>1. CASE \E req \in Requests, px \in Prices : PlaceOrder(req, px)
  BY <1>1, PlaceOrderKeepsIInv
<1>2. CASE \E id \in 1..Len(orders) : CancelOrder(id)
  BY <1>2, CancelOrderKeepsIInv
<1>3. CASE \E id \in 1..Len(orders), mod \in Modifications : ModifyOrder(id, mod)
  BY <1>3, ModifyOrderKeepsIInv
<1>4. CASE \E id \in 1..Len(orders), mod \in Modifications : ModifyLosesHold(id, mod)
  BY <1>4, ModifyLosesHoldKeepsIInv
<1>5. CASE \E symbol \in Symbols, px \in Prices : BeginPriceUpdate(symbol, px)
  BY <1>5, BeginPriceUpdateKeepsIInv
<1>6. CASE \E id \in pending : EvaluateNext(id)
  BY <1>6, EvaluateNextKeepsIInv
<1>7. CASE \E id \in pending : EvaluateRaises(id)
  BY <1>7, EvaluateRaisesKeepsIInv
<1>8. CASE EndPriceUpdate
  BY <1>8, EndPriceUpdateKeepsIInv
<1>9. CASE \E amount \in Capitals : Reset(amount)
  BY <1>9, ResetKeepsIInv
<1>10. CASE UNCHANGED bookVars
  <2>1. UNCHANGED <<orders, reservations, cash, reserved>>
        /\ UNCHANGED <<capital, tick, pending, holdLost>>
    BY <1>10 DEF bookVars
  <2>2. TypeOK'
    BY <2>1 DEF IInv, TypeOK, Idle
  <2> QED  BY <2>1, <2>2, UnchangedBooks DEF IInv
<1> QED
  BY <1>1, <1>2, <1>3, <1>4, <1>5, <1>6, <1>7, <1>8, <1>9, <1>10 DEF BookNext

\* The books are sound in every reachable state.
THEOREM BooksStaySound == BookSpec => []IInv
BY InitIInv, NextIInv, PTL DEF BookSpec

\* Every order, hold and amount keeps its type; in particular the account's
\* cash and the total held never go below zero, whatever clients ask for.
THEOREM TypeCorrect == BookSpec => []TypeOK
<1>1. IInv => TypeOK
  BY DEF IInv
<1> QED  BY <1>1, BooksStaySound, PTL

\* No hold outlives its order: cancel, fill, rejection, OCO cancellation and a
\* release that raises all leave holds with resting BUYs only.
THEOREM HoldsStayWithRestingBuys == BookSpec => []HoldsBackRestingBuys
<1>1. IInv => HoldsBackRestingBuys
  <2>1. Book.orders = orders /\ Book.reservations = reservations
    BY DEF Book
  <2> HIDE DEF Book
  <2> QED  BY <2>1 DEF IInv, Sound, SoundBut, HoldsSound, Ids, HoldsBackRestingBuys
<1> QED  BY <1>1, BooksStaySound, PTL

\* The two legs of a long entry never both fill, nor does one rest after the
\* other has filled, even after a failed modify has lost a hold.
THEOREM LongLegsCancelEachOther == BookSpec => []OneLongLegFills
<1>1. IInv => OneLongLegFills
  <2>1. Book.orders = orders
    BY DEF Book
  <2> HIDE DEF Book
  <2> QED  BY <2>1 DEF IInv, Sound, SoundBut, LegsSound, SameBracket, Ids,
                       OneLongLegFills, AreSiblings, None
<1> QED  BY <1>1, BooksStaySound, PTL

-----------------------------------------------------------------------------
(***************************************************************************)
(* 2.  What one step may do to the orders.                                 *)
(***************************************************************************)

-----------------------------------------------------------------------------
(***************************************************************************)
(* What may become of one order.                                           *)
(***************************************************************************)
SameTerms(o, w) ==
    /\ w.symbol = o.symbol
    /\ w.side = o.side
    /\ w.order_type = o.order_type
    /\ w.parent_order_id = o.parent_order_id

\* A limit order that has filled did so within its limit.
Honoured(o) ==
    o.status = "COMPLETE" /\ o.order_type \in {"LIMIT", "STOP_LIMIT"} =>
      IsMarketable(o, o.average_fill_price)

\* MayBecome of OrderLifecycle, on orders, which honour their limits.
Moves(o, w) ==
    /\ SameTerms(o, w)
    /\ Honoured(o) => Honoured(w)
    /\ \/ w.status = o.status /\ w.average_fill_price = o.average_fill_price
       \/ /\ Resting(o)
          /\ \/ /\ o.order_type = "STOP_LIMIT"
                /\ o.status = "TRIGGER_PENDING"
                /\ w.status = "OPEN"
                /\ w.average_fill_price = 0
             \/ w.status = "COMPLETE" /\ w.average_fill_price > 0
             \/ w.status \in {"CANCELLED", "REJECTED"} /\ w.average_fill_price = 0

\* MayBeAdded of OrderLifecycle, on orders, which honour their limits.
Fresh(o) ==
    /\ o.average_fill_price > 0 <=> o.status = "COMPLETE"
    /\ Honoured(o)

\* The trigger of a trailing stop does not move against the order.
Tightens(o, w) ==
    o.order_type = "TRAILING_STOP" =>
      IF o.side = "SELL"
      THEN w.trigger_price >= o.trigger_price
      ELSE w.trigger_price <= o.trigger_price

\* An order is filled at a price only when it is COMPLETE.
Unfilled(s) ==
    \A i \in 1..Len(s) : Resting(s[i]) => s[i].average_fill_price = 0

\* Each order moves, and those appended are fresh.
Extends(s, t) ==
    /\ Len(t) >= Len(s)
    /\ \A i \in 1..Len(s) : Moves(s[i], t[i])
    /\ \A i \in Len(s) + 1 .. Len(t) : Fresh(t[i])

Grows(s, t) ==
    /\ Extends(s, t)
    /\ \A i \in 1..Len(s) : Tightens(s[i], t[i])

LEMMA GrowsReflexive ==
  ASSUME NEW s \in Seq(OrderType)
  PROVE  Grows(s, s)
<1>1. \A i \in 1..Len(s) : s[i] \in OrderType
  OBVIOUS
<1>2. \A i \in 1..Len(s) : s[i].trigger_price \in Nat
  BY <1>1 DEF OrderType
<1> QED  BY <1>2 DEF Grows, Extends, Moves, SameTerms, Tightens

LEMMA MovesTransitive ==
  ASSUME NEW o \in OrderType, NEW w \in OrderType, NEW z \in OrderType,
         Moves(o, w), Moves(w, z)
  PROVE  Moves(o, z)
BY DEF Moves, SameTerms, Resting, RestingStatuses

LEMMA TightensTransitive ==
  ASSUME NEW o \in OrderType, NEW w \in OrderType, NEW z \in OrderType,
         SameTerms(o, w), Tightens(o, w), Tightens(w, z)
  PROVE  Tightens(o, z)
<1>1. o.trigger_price \in Nat /\ w.trigger_price \in Nat /\ z.trigger_price \in Nat
  BY DEF OrderType
<1> QED  BY <1>1 DEF Tightens, SameTerms

LEMMA FreshMoves ==
  ASSUME NEW o \in OrderType, NEW w \in OrderType, Fresh(o), Moves(o, w)
  PROVE  Fresh(w)
<1>1. o.average_fill_price \in Nat /\ w.average_fill_price \in Nat
  BY DEF OrderType
<1> QED  BY <1>1 DEF Fresh, Moves, Resting, RestingStatuses

LEMMA GrowsTransitive ==
  ASSUME NEW s \in Seq(OrderType), NEW t \in Seq(OrderType), NEW u \in Seq(OrderType),
         Grows(s, t), Grows(t, u)
  PROVE  Grows(s, u)
<1>1. /\ Len(s) \in Nat /\ Len(t) \in Nat /\ Len(u) \in Nat
      /\ Len(t) >= Len(s) /\ Len(u) >= Len(t)
  BY DEF Grows, Extends
<1>2. /\ \A i \in 1..Len(s) : s[i] \in OrderType /\ i \in 1..Len(t)
      /\ \A i \in 1..Len(t) : t[i] \in OrderType /\ i \in 1..Len(u)
      /\ \A i \in 1..Len(u) : u[i] \in OrderType
  BY <1>1
<1>3. \A i \in 1..Len(s) : Moves(s[i], u[i]) /\ Tightens(s[i], u[i])
  <2> TAKE i \in 1..Len(s)
  <2>1. /\ Moves(s[i], t[i]) /\ Tightens(s[i], t[i])
        /\ Moves(t[i], u[i]) /\ Tightens(t[i], u[i])
    BY <1>2 DEF Grows, Extends
  <2>2. s[i] \in OrderType /\ t[i] \in OrderType /\ u[i] \in OrderType
    BY <1>2
  <2>3. SameTerms(s[i], t[i])
    BY <2>1 DEF Moves
  <2> QED  BY ONLY <2>1, <2>2, <2>3, MovesTransitive, TightensTransitive
<1>4. \A i \in Len(s) + 1 .. Len(u) : Fresh(u[i])
  <2> TAKE i \in Len(s) + 1 .. Len(u)
  <2>1. CASE i \in 1..Len(t)
    <3>1. Fresh(t[i]) /\ Moves(t[i], u[i])
      BY <1>1, <2>1 DEF Grows, Extends
    <3> QED  BY <1>2, <2>1, <3>1, FreshMoves
  <2>2. CASE i \notin 1..Len(t)
    BY <1>1, <2>2 DEF Grows, Extends
  <2> QED  BY <2>1, <2>2
<1> QED  BY <1>1, <1>3, <1>4 DEF Grows, Extends

\* Orders that grow from ones that honour their limits honour theirs.
LEMMA ExtendsHonoured ==
  ASSUME NEW s \in Seq(OrderType), NEW t \in Seq(OrderType), Extends(s, t),
         \A i \in 1..Len(s) : Honoured(s[i])
  PROVE  \A i \in 1..Len(t) : Honoured(t[i])
<1> TAKE i \in 1..Len(t)
<1>1. CASE i \in 1..Len(s)
  BY <1>1 DEF Extends, Moves
<1>2. CASE i \notin 1..Len(s)
  BY <1>2 DEF Extends, Fresh
<1> QED  BY <1>1, <1>2

\* Orders that grow from unfilled ones are unfilled.
LEMMA ExtendsUnfilled ==
  ASSUME NEW s \in Seq(OrderType), NEW t \in Seq(OrderType), Unfilled(s), Extends(s, t)
  PROVE  Unfilled(t)
<1>1. \A i \in 1..Len(t) : t[i] \in OrderType
  OBVIOUS
<1> SUFFICES ASSUME NEW i \in 1..Len(t), Resting(t[i])
             PROVE  t[i].average_fill_price = 0
  BY DEF Unfilled
<1>2. CASE i \in 1..Len(s)
  <2>1. Moves(s[i], t[i])
    BY <1>2 DEF Extends
  <2> QED  BY <1>2, <2>1 DEF Unfilled, Moves, Resting, RestingStatuses
<1>3. CASE i \notin 1..Len(s)
  <2>1. Fresh(t[i])
    BY <1>3 DEF Extends
  <2>2. t[i].average_fill_price \in Nat
    BY <1>1 DEF OrderType
  <2> QED  BY <2>1, <2>2 DEF Fresh, Resting, RestingStatuses
<1> QED  BY <1>2, <1>3

\* One order moves; a trailing stop's trigger may have been modified.
LEMMA ReplaceExtends ==
  ASSUME NEW s \in Seq(OrderType), NEW id \in 1..Len(s), NEW w \in OrderType,
         Moves(s[id], w)
  PROVE  LET t == [s EXCEPT ![id] = w]
         IN  Extends(s, t) /\ (Tightens(s[id], w) => Grows(s, t))
<1> DEFINE t == [s EXCEPT ![id] = w]
<1>1. Grows(s, s)
  BY GrowsReflexive
<1>2. /\ Len(t) = Len(s)
      /\ t[id] = w
      /\ \A i \in 1..Len(s) : i # id => t[i] = s[i]
  OBVIOUS
<1> HIDE DEF t
<1>3. Extends(s, t)
  BY <1>1, <1>2 DEF Grows, Extends
<1>4. Tightens(s[id], w) => Grows(s, t)
  BY <1>1, <1>2, <1>3 DEF Grows
<1> QED  BY <1>3, <1>4 DEF t

LEMMA ReplaceGrows ==
  ASSUME NEW s \in Seq(OrderType), NEW id \in 1..Len(s), NEW w \in OrderType,
         Moves(s[id], w), Tightens(s[id], w)
  PROVE  Grows(s, [s EXCEPT ![id] = w])
BY ReplaceExtends

-----------------------------------------------------------------------------
(***************************************************************************)
(* What the operators of OrderBook do to the orders.                       *)
(***************************************************************************)
LEMMA AddOrderGrows ==
  ASSUME NEW b, Typed(b), NEW o \in OrderType, Resting(o), o.average_fill_price = 0
  PROVE  Typed(AddOrder(b, o)) /\ Grows(b.orders, AddOrder(b, o).orders)
<1> DEFINE c == AddOrder(b, o)
           n == Len(b.orders) + 1
<1>1. /\ Typed(c)
      /\ Len(c.orders) = n
      /\ \A i \in Ids(b) : c.orders[i] = b.orders[i]
      /\ \/ c.orders[n] = o
         \/ c.orders[n] = [o EXCEPT !.status = "REJECTED"]
  BY AddOrderAppends
<1>2. b.orders \in Seq(OrderType) /\ Len(b.orders) \in Nat
  BY DEF Typed, Books
<1>3. Grows(b.orders, b.orders)
  BY <1>2, GrowsReflexive
<1>4. Fresh(c.orders[n])
  <2>1. /\ c.orders[n].status \in {"OPEN", "TRIGGER_PENDING", "REJECTED"}
        /\ c.orders[n].average_fill_price = 0
    BY <1>1 DEF OrderType, Resting, RestingStatuses
  <2> QED  BY <2>1 DEF Fresh, Honoured
<1> HIDE DEF c
<1>5. \A i \in Len(b.orders) + 1 .. Len(c.orders) : i = n
  BY <1>1, <1>2
<1> QED  BY <1>1, <1>2, <1>3, <1>4, <1>5 DEF Grows, Extends, Ids, c

\* Working moves nothing but the trigger, forward, and releases stop-limits.
LEMMA WorkingMoves ==
  ASSUME NEW o \in OrderType, Resting(o), o.average_fill_price = 0, NEW px \in Nat
  PROVE  LET w == Working(o, px)
         IN  /\ Moves(o, w)
             /\ Tightens(o, w)
             /\ w.average_fill_price = 0
<1>1. TrailingOffset(o, px) \in Nat
  BY OffsetIsNat DEF OrderType
<1>2. o.trigger_price \in Nat /\ px \in Int
  BY DEF OrderType
<1>3. IF o.side = "SELL"
      THEN RatchetTrailingTrigger(o, px) >= o.trigger_price
      ELSE RatchetTrailingTrigger(o, px) <= o.trigger_price
  BY <1>1, <1>2 DEF RatchetTrailingTrigger
<1>4. Honoured(Working(o, px))
  BY WorkingType DEF Honoured, Resting, RestingStatuses
<1> QED
  BY <1>2, <1>3, <1>4 DEF Working, Moves, SameTerms, Tightens, Resting, RestingStatuses, OrderType

\* A working order that is filled, or rejected for want of cash.
LEMMA FillMoves ==
  ASSUME NEW o \in OrderType, Resting(o), o.average_fill_price = 0,
         NEW px \in Nat \ {0}
  PROVE  LET w == Working(o, px)
             f == [w EXCEPT !.status = "COMPLETE", !.average_fill_price = px]
             r == [w EXCEPT !.status = "REJECTED"]
         IN  /\ Fills(w, px) => f \in OrderType /\ Moves(o, f) /\ Tightens(o, f)
             /\ r \in OrderType /\ Moves(o, r) /\ Tightens(o, r)
<1> DEFINE w == Working(o, px)
<1>1. /\ w \in OrderType
      /\ Moves(o, w)
      /\ Tightens(o, w)
      /\ w.average_fill_price = 0
  BY WorkingMoves, WorkingType
<1> HIDE DEF w
<1>2. /\ [w EXCEPT !.status = "COMPLETE", !.average_fill_price = px] \in OrderType
      /\ [w EXCEPT !.status = "REJECTED"] \in OrderType
  BY <1>1 DEF OrderType, TerminalStatuses
<1>3. LET f == [w EXCEPT !.status = "COMPLETE", !.average_fill_price = px]
          r == [w EXCEPT !.status = "REJECTED"]
      IN  /\ Fills(w, px) => Moves(o, f) /\ Tightens(o, f)
          /\ Moves(o, r) /\ Tightens(o, r)
  <2> DEFINE f == [w EXCEPT !.status = "COMPLETE", !.average_fill_price = px]
             r == [w EXCEPT !.status = "REJECTED"]
  <2>1. /\ f.status = "COMPLETE" /\ f.average_fill_price = px
        /\ r.status = "REJECTED" /\ r.average_fill_price = 0
        /\ \A z \in {f, r} :
             /\ SameTerms(w, z)
             /\ z.price = w.price
             /\ z.trigger_price = w.trigger_price
    BY <1>1 DEF SameTerms, OrderType
  <2> HIDE DEF f, r
  <2>2. SameTerms(o, f) /\ SameTerms(o, r) /\ Tightens(o, f) /\ Tightens(o, r)
    BY <1>1, <2>1 DEF Moves, SameTerms, Tightens
  <2>3. Honoured(r) /\ (Fills(w, px) => Honoured(f))
    BY <2>1 DEF Honoured, Fills, IsMarketable, SameTerms
  <2>4. Fills(w, px) => Moves(o, f)
    BY <2>1, <2>2, <2>3 DEF Moves
  <2>5. Moves(o, r)
    BY <2>1, <2>2, <2>3 DEF Moves
  <2> QED  BY <2>2, <2>4, <2>5 DEF f, r
<1> QED  BY <1>2, <1>3 DEF w

LEMMA CompleteGrows ==
  ASSUME NEW b, Typed(b), NEW id \in Ids(b), Resting(b.orders[id]),
         Unfilled(b.orders), NEW px \in Nat \ {0},
         Fills(Working(b.orders[id], px), px)
  PROVE  Grows(b.orders, Complete(b, id, Working(b.orders[id], px), px).orders)
<1> DEFINE o == b.orders[id]
           w == Working(o, px)
           f == [w EXCEPT !.status = "COMPLETE", !.average_fill_price = px]
<1>1. b.orders \in Seq(OrderType) /\ id \in 1..Len(b.orders)
  BY DEF Typed, Books, Ids
<1>2. o \in OrderType /\ o.average_fill_price = 0
  BY <1>1 DEF Unfilled
<1>3. f \in OrderType /\ Moves(o, f) /\ Tightens(o, f)
  BY <1>2, FillMoves
<1>4. Complete(b, id, w, px).orders = [b.orders EXCEPT ![id] = f]
  BY DEF Complete, Typed, Books
<1> HIDE DEF f, w
<1>5. Grows(b.orders, [b.orders EXCEPT ![id] = f])
  BY <1>1, <1>3, ReplaceGrows
<1> QED  BY <1>4, <1>5 DEF w

LEMMA CancelSiblingGrows ==
  ASSUME NEW b, Typed(b), NEW id \in Ids(b), Unfilled(b.orders)
  PROVE  Grows(b.orders, CancelSibling(b, id).orders)
<1>1. b.orders \in Seq(OrderType)
  BY DEF Typed, Books
<1>2. CASE Siblings(b, id) = {}
  BY <1>1, <1>2, GrowsReflexive DEF CancelSibling
<1>3. CASE Siblings(b, id) # {}
  <2> DEFINE other == CHOOSE s \in Siblings(b, id) : TRUE
             r == ReleaseReservation(b, other)
             o == [b.orders[other] EXCEPT !.status = "CANCELLED"]
  <2>1. other \in Siblings(b, id)
    BY <1>3
  <2>2. CancelSibling(b, id) = [r EXCEPT !.orders[other].status = "CANCELLED"]
    BY <1>3 DEF CancelSibling
  <2> HIDE DEF other
  <2>3. other \in 1..Len(b.orders) /\ Resting(b.orders[other])
    BY <2>1 DEF Siblings, Ids
  <2>4. CancelSibling(b, id).orders = [b.orders EXCEPT ![other] = o]
    BY <2>2 DEF ReleaseReservation, Typed, Books
  <2>5. o \in OrderType /\ Moves(b.orders[other], o) /\ Tightens(b.orders[other], o)
    <3>1. b.orders[other] \in OrderType /\ b.orders[other].average_fill_price = 0
      BY <1>1, <2>3 DEF Unfilled
    <3>2. /\ o \in OrderType
          /\ SameTerms(b.orders[other], o)
          /\ o.status = "CANCELLED"
          /\ o.average_fill_price = 0
          /\ o.trigger_price = b.orders[other].trigger_price
      BY <3>1 DEF OrderType, TerminalStatuses, SameTerms
    <3>3. o.trigger_price \in Nat
      BY <3>2 DEF OrderType
    <3> HIDE DEF o
    <3> QED  BY <2>3, <3>2, <3>3 DEF Moves, Tightens, Honoured
  <2> HIDE DEF o
  <2> QED  BY <1>1, <2>3, <2>4, <2>5, ReplaceGrows
<1> QED  BY <1>2, <1>3

LEMMA SpawnLegGrows ==
  ASSUME NEW b, Typed(b), NEW id, NEW is_stop_loss, NEW leg_price,
         NEW leg \in OrderType, Resting(leg), leg.average_fill_price = 0
  PROVE  LET c == SpawnLeg(b, id, is_stop_loss, leg_price, leg)
         IN  Typed(c) /\ Grows(b.orders, c.orders)
<1>1. Grows(b.orders, b.orders)
  BY GrowsReflexive DEF Typed, Books
<1>2. Typed(AddOrder(b, leg)) /\ Grows(b.orders, AddOrder(b, leg).orders)
  BY AddOrderGrows
<1> QED  BY <1>1, <1>2 DEF SpawnLeg

LEMMA SpawnBracketGrows ==
  ASSUME NEW b, Typed(b), NEW id \in Ids(b)
  PROVE  LET c == SpawnBracket(b, id)
         IN  Typed(c) /\ Grows(b.orders, c.orders)
<1>1. CASE b.orders[id].parent_order_id # None
  BY <1>1, GrowsReflexive DEF SpawnBracket, Typed, Books
<1>2. CASE b.orders[id].parent_order_id = None
  <2> DEFINE c == SpawnStopLoss(b, id)
             d == SpawnTarget(c, id)
             stop == b.orders[id].stop_loss_price
             target == c.orders[id].target_price
  <2>1. Typed(c) /\ Grows(b.orders, c.orders)
    <3> DEFINE leg == Leg(b, id, "STOP", None, stop, "TRIGGER_PENDING")
               is_stop_loss == TRUE
    <3>0. b.orders[id] \in OrderType
      BY DEF Typed, Books, Ids
    <3>1. stop \in Nat
      BY <3>0 DEF OrderType
    <3>2. leg \in OrderType /\ Resting(leg)
      BY <3>1, LegType DEF OrderTypes, RestingStatuses, None
    <3>3. leg.average_fill_price = 0
      BY DEF Leg, None
    <3> HIDE DEF leg, is_stop_loss
    <3>4. c = SpawnLeg(b, id, is_stop_loss, stop, leg)
      BY DEF SpawnStopLoss, leg, is_stop_loss
    <3> QED  BY <3>2, <3>3, <3>4, SpawnLegGrows
  <2> HIDE DEF c
  <2>2. id \in Ids(c)
    BY <2>1 DEF Grows, Extends, Ids, Typed, Books
  <2>3. Typed(d) /\ Grows(c.orders, d.orders)
    <3> DEFINE leg == Leg(c, id, "LIMIT", target, None, "OPEN")
               is_stop_loss == FALSE
    <3>0. c.orders[id] \in OrderType
      BY <2>1, <2>2 DEF Typed, Books, Ids
    <3>1. target \in Nat
      BY <3>0 DEF OrderType
    <3>2. leg \in OrderType /\ Resting(leg)
      BY <2>1, <2>2, <3>1, LegType DEF OrderTypes, RestingStatuses, None
    <3>3. leg.average_fill_price = 0
      BY DEF Leg, None
    <3> HIDE DEF leg, is_stop_loss
    <3>4. d = SpawnLeg(c, id, is_stop_loss, target, leg)
      BY DEF SpawnTarget, leg, is_stop_loss
    <3> QED  BY <2>1, <3>2, <3>3, <3>4, SpawnLegGrows
  <2>4. SpawnBracket(b, id) = d
    BY <1>2 DEF SpawnBracket, c
  <2> HIDE DEF d
  <2>5. Grows(b.orders, d.orders)
    BY <2>1, <2>3, GrowsTransitive DEF Typed, Books
  <2> QED  BY <2>3, <2>4, <2>5
<1> QED  BY <1>1, <1>2

-----------------------------------------------------------------------------
(***************************************************************************)
(* Settlement.                                                             *)
(***************************************************************************)
\* Releasing, or only popping, a reservation leaves the orders alone.
LEMMA ReleaseKeepsOrders ==
  ASSUME NEW b, Typed(b), NEW id
  PROVE  /\ ReleaseReservation(b, id).orders = b.orders
         /\ PopReservation(b, id).orders = b.orders
BY DEF ReleaseReservation, PopReservation, Typed, Books

LEMMA SettledGrows ==
  ASSUME NEW b, Sound(b), NEW id \in Ids(b), Resting(b.orders[id]),
         Unfilled(b.orders), NEW px \in Nat \ {0}, ~SettleRaises(b, id, px)
  PROVE  Grows(b.orders, Settled(b, id, px).orders)
<1> DEFINE o == b.orders[id]
           w == Working(o, px)
           x == [w EXCEPT !.status = "REJECTED"]
           r == ReleaseReservation(b, id)
           m == Complete(r, id, w, px)
           d == CancelSibling(m, id)
           e == SpawnBracket(d, id)
<1>1. Typed(b) /\ b.orders \in Seq(OrderType) /\ id \in 1..Len(b.orders)
  BY DEF Sound, SoundBut, Typed, Books, Ids
<1>2. o \in OrderType /\ o.average_fill_price = 0
  BY <1>1 DEF Unfilled
<1>3. /\ w \in OrderType /\ Moves(o, w) /\ Tightens(o, w)
      /\ x \in OrderType /\ Moves(o, x) /\ Tightens(o, x)
      /\ w.side = o.side /\ w.parent_order_id = o.parent_order_id
  BY <1>2, WorkingType, WorkingMoves, FillMoves
<1>4. CASE ~Fills(w, px)
  <2>1. Settled(b, id, px).orders = [b.orders EXCEPT ![id] = w]
    BY <1>1, <1>4 DEF Settled, Typed, Books
  <2> HIDE DEF w
  <2> QED  BY <1>1, <1>3, <2>1, ReplaceGrows
<1>5. r.orders = b.orders
  BY <1>1, ReleaseKeepsOrders
<1>6. CASE Fills(w, px) /\ ~Affordable(r, w, px)
  <2>1. CanRelease(b, id)
    BY <1>6 DEF SettleRaises
  <2>2. Typed(r)
    BY <2>1, ReleaseSound DEF Sound, SoundBut
  <2>3. Settled(b, id, px).orders = [b.orders EXCEPT ![id] = x]
    BY <1>5, <1>6, <2>2 DEF Settled, Reject, Typed, Books
  <2> HIDE DEF x
  <2> QED  BY <1>1, <1>3, <2>3, ReplaceGrows
<1>7. CASE Fills(w, px) /\ Affordable(r, w, px)
  <2>1. CanRelease(b, id)
    BY <1>7 DEF SettleRaises
  <2>2. /\ Sound(r) /\ Typed(r) /\ id \in Ids(r)
        /\ r.reservations[id] = 0
    <3>1. Sound(r) /\ r.reservations = [b.reservations EXCEPT ![id] = 0]
      BY <2>1, ReleaseSound DEF Sound
    <3> QED  BY <1>1, <1>5, <3>1 DEF Sound, SoundBut, Typed, Books, Ids
  <2>3. Grows(r.orders, m.orders)
    BY <1>5, <1>7, <2>2, CompleteGrows
  <2>4. /\ SoundBut(m, id)
        /\ m.orders[id].status = "COMPLETE"
        /\ Ids(m) = Ids(r)
    <3>1. Resting(r.orders[id]) /\ w.side = r.orders[id].side
          /\ w.parent_order_id = r.orders[id].parent_order_id
      BY <1>3, <1>5
    <3> HIDE DEF w, r
    <3> QED  BY <1>3, <1>7, <2>2, <3>1, CompleteSound
  <2>5. ~SiblingReleaseFails(m, id)
    BY <1>7 DEF SettleRaises
  <2>6. Settled(b, id, px) = e
    BY <1>7 DEF Settled
  <2> HIDE DEF w, r, m
  <2>7. Typed(m) /\ id \in Ids(m) /\ m.orders \in Seq(OrderType) /\ r.orders \in Seq(OrderType)
    BY <2>2, <2>4 DEF SoundBut, Typed, Books
  <2>8. Unfilled(m.orders)
    BY <1>5, <2>3, <2>7, ExtendsUnfilled DEF Grows
  <2>9. Grows(m.orders, d.orders)
    BY <2>7, <2>8, CancelSiblingGrows
  <2>10. Sound(d) /\ Ids(d) = Ids(m)
    BY <2>4, <2>5, <2>7, CancelSiblingSound
  <2> HIDE DEF d
  <2>11. Typed(d) /\ id \in Ids(d) /\ d.orders \in Seq(OrderType)
    BY <2>7, <2>10 DEF Sound, SoundBut, Typed, Books
  <2>12. Typed(e) /\ Grows(d.orders, e.orders)
    BY <2>11, SpawnBracketGrows
  <2> HIDE DEF e
  <2>13. e.orders \in Seq(OrderType)
    BY <2>12 DEF Typed, Books
  <2>14. Grows(r.orders, d.orders)
    BY <2>3, <2>7, <2>9, <2>11, GrowsTransitive
  <2>15. Grows(r.orders, e.orders)
    BY <2>7, <2>11, <2>12, <2>13, <2>14, GrowsTransitive
  <2> QED  BY <1>5, <2>6, <2>15
<1> QED  BY <1>4, <1>6, <1>7

LEMMA HalfSettledGrows ==
  ASSUME NEW b, Sound(b), NEW id \in Ids(b), Resting(b.orders[id]),
         Unfilled(b.orders), NEW px \in Nat \ {0}, SettleRaises(b, id, px)
  PROVE  Grows(b.orders, HalfSettled(b, id, px).orders)
<1> DEFINE w == Working(b.orders[id], px)
           r == ReleaseReservation(b, id)
           m == Complete(r, id, w, px)
<1>1. Typed(b) /\ b.orders \in Seq(OrderType) /\ id \in 1..Len(b.orders)
  BY DEF Sound, SoundBut, Typed, Books, Ids
<1>2. CASE ~CanRelease(b, id)
  BY <1>1, <1>2, ReleaseKeepsOrders, GrowsReflexive DEF HalfSettled
<1>3. CASE CanRelease(b, id)
  <2>1. Sound(r) /\ r.orders = b.orders
        /\ r.reservations = [b.reservations EXCEPT ![id] = 0]
    BY <1>3, ReleaseSound DEF Sound
  <2>2. Typed(r) /\ id \in Ids(r) /\ r.reservations[id] = 0
    BY <1>1, <2>1 DEF Sound, SoundBut, Typed, Books, Ids
  <2>3. Grows(b.orders, m.orders)
    BY <2>1, <2>2, CompleteGrows DEF SettleRaises
  <2>4. Typed(m)
    <3>0. b.orders[id] \in OrderType /\ px \in Nat
      BY <1>1
    <3>1. /\ w \in OrderType
          /\ w.side = r.orders[id].side
          /\ w.parent_order_id = r.orders[id].parent_order_id
          /\ Resting(r.orders[id])
      <4>1. /\ w \in OrderType
            /\ w.side = b.orders[id].side
            /\ w.parent_order_id = b.orders[id].parent_order_id
        BY <3>0, WorkingType
      <4> QED  BY <2>1, <4>1
    <3>2. Affordable(r, w, px)
      BY <1>3 DEF SettleRaises
    <3> HIDE DEF w, r
    <3> QED  BY <2>1, <2>2, <3>1, <3>2, CompleteSound DEF SoundBut
  <2>5. HalfSettled(b, id, px) = PopSibling(m, id)
    BY <1>3 DEF HalfSettled
  <2> HIDE DEF m
  <2>6. PopSibling(m, id).orders = m.orders
    BY <2>4, ReleaseKeepsOrders DEF PopSibling
  <2> QED  BY <2>3, <2>5, <2>6
<1> QED  BY <1>2, <1>3

-----------------------------------------------------------------------------
(***************************************************************************)
(* The steps.                                                              *)
(***************************************************************************)
\* What the steps below need: sound books of unfilled resting orders.
LEMMA OrdersTyped ==
  ASSUME IInv
  PROVE  /\ orders \in Seq(OrderType)
         /\ Sound(Book) /\ Typed(Book) /\ Book.orders = orders /\ Ids(Book) = 1..Len(orders)
BY BooksAreSound DEF IInv, TypeOK, Sound, SoundBut

LEMMA PlaceOrderGrows ==
  ASSUME IInv, Unfilled(orders), NEW req \in Requests, NEW px \in Prices,
         PlaceOrder(req, px)
  PROVE  Grows(orders, orders')
<1> DEFINE o == NewOrder(req, px)
           b == AddOrder(Book, o)
           n == Len(orders) + 1
<1>1. req \in RequestType /\ px \in Nat \ {0} /\ px \in Nat
  BY OrderBookAssumption
<1>2. /\ o \in OrderType /\ Resting(o) /\ o.parent_order_id = None
      /\ o.average_fill_price = 0
  BY <1>1, NewOrderType DEF PlaceOrder, NewOrder, None
<1>3. orders' = (IF Fundable(Book, o) THEN Settled(b, n, px) ELSE b).orders
  BY DEF PlaceOrder, BookBecomes
<1> HIDE DEF o
<1>4. Typed(b) /\ Grows(orders, b.orders)
  BY <1>2, OrdersTyped, AddOrderGrows
<1>5. Fundable(Book, o) => Grows(b.orders, Settled(b, n, px).orders)
                           /\ Settled(b, n, px).orders \in Seq(OrderType)
  <2> SUFFICES ASSUME Fundable(Book, o)
               PROVE  Grows(b.orders, Settled(b, n, px).orders)
                      /\ Settled(b, n, px).orders \in Seq(OrderType)
    OBVIOUS
  <2>1. Sound(b) /\ n \in Ids(b) /\ Resting(b.orders[n]) /\ ~SettleRaises(b, n, px)
    BY <1>1, <1>2, NewOrderSettles
  <2> HIDE DEF b
  <2>2. Unfilled(b.orders)
    BY <1>4, OrdersTyped, ExtendsUnfilled DEF Grows, Typed, Books
  <2>3. Sound(Settled(b, n, px))
    BY <1>1, <2>1, SettledSound
  <2>4. Grows(b.orders, Settled(b, n, px).orders)
    BY <1>1, <2>1, <2>2, SettledGrows
  <2> QED  BY <2>3, <2>4 DEF Sound, SoundBut, Typed, Books
<1> HIDE DEF b
<1>6. b.orders \in Seq(OrderType)
  BY <1>4 DEF Typed, Books
<1> QED  BY <1>3, <1>4, <1>5, <1>6, OrdersTyped, GrowsTransitive

LEMMA CancelOrderGrows ==
  ASSUME IInv, Unfilled(orders), NEW id \in 1..Len(orders), CancelOrder(id)
  PROVE  Grows(orders, orders')
<1> DEFINE o == [orders[id] EXCEPT !.status = "CANCELLED"]
<1>1. Resting(orders[id]) /\ orders[id] \in OrderType /\ orders[id].average_fill_price = 0
  BY OrdersTyped DEF CancelOrder, Unfilled
<1>2. orders' = orders \/ orders' = [orders EXCEPT ![id] = o]
  <2>1. /\ ReleaseReservation(Book, id).orders = orders
        /\ PopReservation(Book, id).orders = orders
    BY OrdersTyped, ReleaseKeepsOrders
  <2>2. [ReleaseReservation(Book, id) EXCEPT !.orders[id].status = "CANCELLED"].orders
          = [orders EXCEPT ![id] = o]
    BY <2>1, OrdersTyped DEF ReleaseReservation, Typed, Books
  <2> QED  BY <2>1, <2>2 DEF CancelOrder, BookBecomes
<1>3. /\ o \in OrderType
      /\ SameTerms(orders[id], o)
      /\ o.status = "CANCELLED"
      /\ o.average_fill_price = 0
      /\ o.trigger_price = orders[id].trigger_price
  BY <1>1 DEF OrderType, TerminalStatuses, SameTerms
<1>4. o.trigger_price \in Nat
  BY <1>3 DEF OrderType
<1> HIDE DEF o
<1>5. Moves(orders[id], o) /\ Tightens(orders[id], o)
  BY <1>1, <1>3, <1>4 DEF Moves, Tightens, Honoured
<1> QED  BY <1>2, <1>3, <1>5, OrdersTyped, GrowsReflexive, ReplaceGrows

LEMMA ModifyOrderExtends ==
  ASSUME IInv, NEW id \in 1..Len(orders), NEW mod \in Modifications, ModifyOrder(id, mod)
  PROVE  Extends(orders, orders')
<1> DEFINE o == Modified(orders[id], mod)
           r == ReleaseReservation(Book, id)
<1>1. orders[id] \in OrderType /\ mod \in ModificationType
  BY OrdersTyped, OrderBookAssumption
<1>2. o \in OrderType /\ Moves(orders[id], o)
  <2>1. o \in OrderType
    BY <1>1, ModifiedType
  <2>2. SameTerms(orders[id], o) /\ o.status = orders[id].status
        /\ o.average_fill_price = orders[id].average_fill_price
    BY <1>1 DEF Modified, SameTerms, OrderType
  <2>3. Honoured(o)
    BY <2>2 DEF ModifyOrder, Honoured, Resting, RestingStatuses
  <2> QED  BY <2>1, <2>2, <2>3 DEF Moves
<1>3. orders' = [orders EXCEPT ![id] = o]
  <2>1. r.orders = orders
    BY OrdersTyped, ReleaseKeepsOrders
  <2>2. orders' = [r EXCEPT !.orders[id] = o,
                            !.reservations[id] = Hold(o),
                            !.reserved = @ + Hold(o)].orders
    BY DEF ModifyOrder, BookBecomes
  <2> HIDE DEF o
  <2> QED  BY <2>1, <2>2, OrdersTyped DEF ReleaseReservation, Typed, Books
<1> HIDE DEF o
<1> QED  BY <1>2, <1>3, OrdersTyped, ReplaceExtends

LEMMA EvaluateNextGrows ==
  ASSUME IInv, Unfilled(orders), NEW id \in pending, EvaluateNext(id)
  PROVE  Grows(orders, orders')
<1> DEFINE px == tick.price
           c == IF Resting(orders[id]) THEN Settled(Book, id, px) ELSE Book
<1>1. /\ ~Idle
      /\ orders' = c.orders
      /\ Resting(orders[id]) => ~SettleRaises(Book, id, px)
  BY DEF EvaluateNext, BookBecomes
<1>2. id \in Ids(Book) /\ px \in Nat \ {0}
  BY <1>1, OrdersTyped, OrderBookAssumption DEF IInv, TypeOK, Idle
<1> HIDE DEF px
<1>3. CASE Resting(orders[id])
  BY <1>1, <1>2, <1>3, OrdersTyped, SettledGrows
<1>4. CASE ~Resting(orders[id])
  BY <1>1, <1>4, OrdersTyped, GrowsReflexive
<1> QED  BY <1>3, <1>4

LEMMA EvaluateRaisesGrows ==
  ASSUME IInv, Unfilled(orders), NEW id \in pending, EvaluateRaises(id)
  PROVE  Grows(orders, orders')
<1> DEFINE px == tick.price
<1>1. /\ ~Idle
      /\ orders' = HalfSettled(Book, id, px).orders
      /\ Resting(orders[id])
      /\ SettleRaises(Book, id, px)
  BY DEF EvaluateRaises, BookBecomes
<1>2. id \in Ids(Book) /\ px \in Nat \ {0}
  BY <1>1, OrdersTyped, OrderBookAssumption DEF IInv, TypeOK, Idle
<1> HIDE DEF px
<1> QED  BY <1>1, <1>2, OrdersTyped, HalfSettledGrows

\* Every step extends the orders or forgets them all, and a step of a price
\* update moves no trailing stop's trigger back.
LEMMA StepExtends ==
  ASSUME IInv, Unfilled(orders), [BookNext]_bookVars
  PROVE  /\ Extends(orders, orders') \/ orders' = <<>>
         /\ ~Idle => Grows(orders, orders')
<1>1. ASSUME NEW req \in Requests, NEW px \in Prices, PlaceOrder(req, px)
      PROVE  Grows(orders, orders')
  BY <1>1, PlaceOrderGrows
<1>2. ASSUME NEW id \in 1..Len(orders), CancelOrder(id)
      PROVE  Grows(orders, orders')
  BY <1>2, CancelOrderGrows
<1>3. ASSUME NEW id \in 1..Len(orders), NEW mod \in Modifications, ModifyOrder(id, mod)
      PROVE  Extends(orders, orders') /\ Idle
  BY <1>3, ModifyOrderExtends DEF ModifyOrder
<1>4. ASSUME UNCHANGED orders
      PROVE  Grows(orders, orders')
  BY <1>4, OrdersTyped, GrowsReflexive
<1>5. ASSUME NEW id \in pending, EvaluateNext(id) \/ EvaluateRaises(id)
      PROVE  Grows(orders, orders')
  BY <1>5, EvaluateNextGrows, EvaluateRaisesGrows
<1>6. ASSUME NEW amount \in Capitals, Reset(amount)
      PROVE  orders' = <<>> /\ Idle
  BY <1>6 DEF Reset
<1>7. \/ \E id \in 1..Len(orders), mod \in Modifications : ModifyLosesHold(id, mod)
      \/ \E symbol \in Symbols, px \in Prices : BeginPriceUpdate(symbol, px)
      \/ EndPriceUpdate
      \/ UNCHANGED bookVars
      => UNCHANGED orders
  BY DEF ModifyLosesHold, BeginPriceUpdate, EndPriceUpdate, bookVars
<1> QED
  BY <1>1, <1>2, <1>3, <1>4, <1>5, <1>6, <1>7 DEF BookNext, Grows

-----------------------------------------------------------------------------
(***************************************************************************)
(* The theorems.                                                           *)
(***************************************************************************)
\* The inductive invariant of this module.
RInv ==
    /\ IInv
    /\ Unfilled(orders)
    /\ \A id \in 1..Len(orders) : Honoured(orders[id])

LEMMA InitRInv == BookInit => RInv
BY InitIInv DEF RInv, Unfilled, BookInit

LEMMA NextRInv == RInv /\ [BookNext]_bookVars => RInv'
<1> SUFFICES ASSUME RInv, [BookNext]_bookVars
             PROVE  RInv'
  OBVIOUS
<1>1. IInv'
  BY NextIInv DEF RInv
<1>2. orders \in Seq(OrderType) /\ orders' \in Seq(OrderType)
  BY <1>1 DEF RInv, IInv, TypeOK
<1>3. Unfilled(orders')
  <2>1. CASE Extends(orders, orders')
    BY <1>2, <2>1, ExtendsUnfilled DEF RInv
  <2>2. CASE orders' = <<>>
    BY <2>2 DEF Unfilled
  <2> QED  BY <2>1, <2>2, StepExtends DEF RInv
<1>4. \A id \in 1..Len(orders') : Honoured(orders'[id])
  <2>1. CASE Extends(orders, orders')
    BY <1>2, <2>1, ExtendsHonoured DEF RInv
  <2>2. CASE orders' = <<>>
    BY <2>2
  <2> QED  BY <2>1, <2>2, StepExtends DEF RInv
<1> QED  BY <1>1, <1>3, <1>4 DEF RInv, Unfilled, Honoured, IsMarketable

\* Sequences of orders as ledgers.
LEMMA ExtendsIsAdvance ==
  ASSUME orders \in Seq(OrderType), (orders \in Seq(OrderType))', Extends(orders, orders')
  PROVE  Lifecycle!Advance
<1> DEFINE View(o) == [terms  |-> [symbol |-> o.symbol, side |-> o.side,
                                   order_type |-> o.order_type,
                                   parent |-> o.parent_order_id],
                       status |-> o.status,
                       fill   |-> o.average_fill_price]
<1>1. /\ \A i \in 1..Len(orders) : orders[i] \in OrderType
      /\ \A i \in 1..Len(orders') : orders'[i] \in OrderType
      /\ Len(orders) \in Nat /\ Len(orders') \in Nat
  OBVIOUS
<1>2. \A o, w : Moves(o, w) /\ o \in OrderType /\ w \in OrderType
        => Lifecycle!MayBecome(View(o), View(w))
  BY DEF Moves, SameTerms, Resting, RestingStatuses, Lifecycle!MayBecome,
         Lifecycle!Released, Lifecycle!Waiting, Lifecycle!Final
<1>3. \A o \in OrderType : Fresh(o) => Lifecycle!MayBeAdded(View(o))
  BY DEF Fresh, OrderType, RestingStatuses, TerminalStatuses,
         Lifecycle!MayBeAdded, Lifecycle!Waiting, Lifecycle!Final
<1>4. /\ Len(OrderLedger) = Len(orders)
      /\ \A i \in 1..Len(orders) : OrderLedger[i] = View(orders[i])
      /\ Len(OrderLedger') = Len(orders')
      /\ \A i \in 1..Len(orders') : OrderLedger'[i] = View(orders'[i])
  BY <1>1 DEF OrderLedger
<1> HIDE DEF View
<1>5. /\ Len(OrderLedger') >= Len(OrderLedger)
      /\ \A i \in 1..Len(OrderLedger) : Lifecycle!MayBecome(OrderLedger[i], OrderLedger'[i])
      /\ \A i \in Len(OrderLedger) + 1 .. Len(OrderLedger') : Lifecycle!MayBeAdded(OrderLedger'[i])
  <2>1. Len(OrderLedger') >= Len(OrderLedger)
    BY <1>4 DEF Extends
  <2>2. \A i \in 1..Len(orders) : Lifecycle!MayBecome(View(orders[i]), View(orders'[i]))
    <3> TAKE i \in 1..Len(orders)
    <3>1. i \in 1..Len(orders') /\ Moves(orders[i], orders'[i])
      BY <1>1 DEF Extends
    <3>2. orders[i] \in OrderType /\ orders'[i] \in OrderType
      BY <1>1, <3>1
    <3> QED  BY ONLY <1>2, <3>1, <3>2
  <2>3. \A i \in Len(orders) + 1 .. Len(orders') :
          i \in 1..Len(orders') /\ Lifecycle!MayBeAdded(View(orders'[i]))
    BY <1>1, <1>3 DEF Extends
  <2>4. \A i \in 1..Len(orders) : i \in 1..Len(orders')
    BY <1>1 DEF Extends
  <2> QED  BY ONLY <1>4, <2>1, <2>2, <2>3, <2>4
<1> QED  BY <1>5 DEF Lifecycle!Advance, View

\* The order book keeps the promise of OrderLifecycle.
THEOREM BookImplementsLifecycle == BookSpec => ImplementsLifecycle
<1>1. BookInit => Lifecycle!LifecycleInit
  <2> SUFFICES ASSUME BookInit PROVE OrderLedger = <<>>
    BY DEF Lifecycle!LifecycleInit
  <2> QED  BY DEF BookInit, OrderLedger
<1>2. RInv /\ RInv' /\ [BookNext]_bookVars => [Lifecycle!LifecycleNext]_OrderLedger
  <2> SUFFICES ASSUME RInv, RInv', [BookNext]_bookVars
               PROVE  Lifecycle!LifecycleNext
    OBVIOUS
  <2>1. orders \in Seq(OrderType) /\ (orders \in Seq(OrderType))'
    BY DEF RInv, IInv, TypeOK
  <2>2. CASE Extends(orders, orders')
    BY <2>1, <2>2, ExtendsIsAdvance DEF Lifecycle!LifecycleNext
  <2>3. CASE orders' = <<>>
    <3>1. OrderLedger' = <<>>
      BY <2>3 DEF OrderLedger
    <3> QED  BY <3>1 DEF Lifecycle!LifecycleNext, Lifecycle!Clear
  <2> QED  BY <2>2, <2>3, StepExtends DEF RInv
<1> QED
  BY <1>1, <1>2, InitRInv, NextRInv, PTL DEF BookSpec, ImplementsLifecycle, Lifecycle!LifecycleSpec

\* No order fills on the wrong side of its limit: not a stop-limit released
\* by its trigger, not one whose limit was modified while it rested, not a leg.
THEOREM LimitsAreHonoured == BookSpec => []FillsHonourLimits
<1>1. RInv => FillsHonourLimits
  BY DEF RInv, Honoured, FillsHonourLimits
<1> QED  BY <1>1, InitRInv, NextRInv, PTL DEF BookSpec

\* A price update moves a trailing stop's trigger in the order's favour only,
\* whatever the order of its fills, rejections and cancellations.
THEOREM TrailingStopsOnlyTighten == BookSpec => TrailingNeverRetreats
<1>1. RInv /\ [BookNext]_bookVars =>
        [~Idle =>
           \A id \in 1..Len(orders) :
             LET o == orders[id]
             IN  o.order_type = "TRAILING_STOP" =>
                   IF o.side = "SELL"
                   THEN orders'[id].trigger_price >= o.trigger_price
                   ELSE orders'[id].trigger_price <= o.trigger_price]_bookVars
  BY StepExtends DEF RInv, Grows, Tightens
<1> QED  BY <1>1, InitRInv, NextRInv, PTL DEF BookSpec, TrailingNeverRetreats

-----------------------------------------------------------------------------
(***************************************************************************)
(* 3.  The holds.                                                          *)
(***************************************************************************)

-----------------------------------------------------------------------------
(***************************************************************************)
(* While no failed modify has lost a hold.                                 *)
(***************************************************************************)
\* The ledger's total is the sum of the holds.
Balanced(b) == b.reserved = SumFunction(b.reservations)

\* Every resting order but x is backed by its worst-case cost.
BackedBut(b, x) ==
    \A i \in Ids(b) : i # x /\ Resting(b.orders[i]) => b.reservations[i] >= Hold(b.orders[i])

\* LegsSound for the legs of short entries too.
OneLegOnly(b, y) ==
    \A i, j \in Ids(b) :
        /\ i # y
        /\ SameBracket(b, i, j)
        /\ b.orders[i].status = "COMPLETE"
        => b.orders[j].status \in {"CANCELLED", "REJECTED"}

\* x may have given its hold up and still rest, y may have filled and its
\* sibling still rest.
Covered(b, x, y) == Balanced(b) /\ BackedBut(b, x) /\ OneLegOnly(b, y)

\* A balanced ledger can give any hold back: release_cash does not raise.
LEMMA HoldsCanBeReleased ==
  ASSUME NEW b, Typed(b), Balanced(b), NEW id \in Ids(b)
  PROVE  CanRelease(b, id)
<1>1. b.reservations \in Seq(Nat) /\ id \in DOMAIN b.reservations
  BY DEF Typed, Books, Ids
<1>2. IsFiniteSet(DOMAIN b.reservations) /\ \A i \in DOMAIN b.reservations : b.reservations[i] \in Nat
  BY <1>1, SeqIndices
<1>3. b.reservations[id] <= SumFunctionOnSet(b.reservations, DOMAIN b.reservations)
  BY <1>1, <1>2, SumBoundsElement
<1> QED  BY <1>3 DEF CanRelease, Balanced, SumFunction

LEMMA ReleaseCovered ==
  ASSUME NEW b, NEW x, NEW y, SoundBut(b, y), Covered(b, x, y),
         NEW id \in Ids(b), x \in {None, id}
  PROVE  CanRelease(b, id) /\ Covered(ReleaseReservation(b, id), id, y)
<1> DEFINE c == ReleaseReservation(b, id)
<1>1. Typed(b) /\ CanRelease(b, id)
  BY HoldsCanBeReleased DEF SoundBut, Covered
<1>2. /\ c.orders = b.orders
      /\ c.reservations = [b.reservations EXCEPT ![id] = 0]
      /\ Typed(c)
  BY <1>1, ReleaseSound DEF SoundBut
<1>3. c.reserved = b.reserved - b.reservations[id]
  BY <1>1 DEF ReleaseReservation, Typed, Books
<1>4. Balanced(c)
  <2>1. b.reservations \in Seq(Nat) /\ id \in DOMAIN b.reservations
    BY <1>1 DEF Typed, Books, Ids
  <2>2. IsFiniteSet(DOMAIN b.reservations) /\ \A i \in DOMAIN b.reservations : b.reservations[i] \in Int
    BY <2>1, SeqIndices
  <2>3. SumFunction([b.reservations EXCEPT ![id] = 0])
          = SumFunction(b.reservations) - b.reservations[id] + 0
    BY <2>1, <2>2, SumExcept
  <2>4. b.reserved \in Nat /\ b.reservations[id] \in Nat
    BY <1>1, <2>1 DEF Typed, Books
  <2> HIDE DEF c
  <2> QED  BY <1>2, <1>3, <2>3, <2>4 DEF Covered, Balanced
<1> HIDE DEF c
<1>5. Ids(c) = Ids(b) /\ \A i \in Ids(b) : i # id => c.reservations[i] = b.reservations[i]
  BY <1>1, <1>2 DEF Ids, Typed, Books
<1>6. BackedBut(c, id)
  <2> SUFFICES ASSUME NEW i \in Ids(b), i # id, Resting(b.orders[i])
               PROVE  b.reservations[i] >= Hold(b.orders[i])
    BY <1>2, <1>5 DEF BackedBut
  <2>1. i # x
    BY DEF Ids, None
  <2> QED  BY <2>1 DEF Covered, BackedBut
<1>7. OneLegOnly(c, y)
  BY <1>2, <1>5 DEF Covered, OneLegOnly, SameBracket
<1> QED  BY <1>1, <1>4, <1>6, <1>7 DEF Covered, c

\* An order replaced by one that is backed, or does not rest.
LEMMA ReplaceCovered ==
  ASSUME NEW b, NEW x, Typed(b), Balanced(b), BackedBut(b, x),
         NEW id \in Ids(b), x \in {None, id},
         NEW w, NEW c,
         c.orders = [b.orders EXCEPT ![id] = w],
         c.reservations = b.reservations, c.reserved = b.reserved,
         w.parent_order_id = b.orders[id].parent_order_id,
         Resting(w) => b.reservations[id] >= Hold(w)
  PROVE  /\ Balanced(c)
         /\ BackedBut(c, None)
         /\ Ids(c) = Ids(b)
         /\ c.orders[id] = w
         /\ \A i \in Ids(b) : i # id => c.orders[i] = b.orders[i]
         /\ \A i, j \in Ids(b) : SameBracket(c, i, j) <=> SameBracket(b, i, j)
<1>1. Balanced(c)
  BY DEF Balanced
<1>2. /\ Ids(c) = Ids(b)
      /\ c.orders[id] = w
      /\ \A i \in Ids(b) : i # id => c.orders[i] = b.orders[i]
  BY DEF Typed, Books, Ids
<1>3. BackedBut(c, None)
  <2> SUFFICES ASSUME NEW i \in Ids(b), Resting(c.orders[i])
               PROVE  b.reservations[i] >= Hold(c.orders[i])
    BY <1>2 DEF BackedBut
  <2>1. CASE i = id
    BY <1>2, <2>1
  <2>2. CASE i # id
    <3>1. i # x /\ c.orders[i] = b.orders[i]
      BY <1>2, <2>2 DEF Ids, None
    <3> QED  BY <3>1 DEF BackedBut
  <2> QED  BY <2>1, <2>2
<1>4. \A i \in Ids(b) : c.orders[i].parent_order_id = b.orders[i].parent_order_id
  BY <1>2
<1>5. \A i, j \in Ids(b) : SameBracket(c, i, j) <=> SameBracket(b, i, j)
  BY <1>4 DEF SameBracket
<1> QED  BY <1>1, <1>2, <1>3, <1>5

LEMMA StoreCovered ==
  ASSUME NEW b, NEW x, NEW y, SoundBut(b, y), Covered(b, x, y),
         NEW id \in Ids(b), x \in {None, id}, Resting(b.orders[id]),
         NEW w \in OrderType,
         w.parent_order_id = b.orders[id].parent_order_id,
         w.status \in RestingStatuses \cup {"CANCELLED", "REJECTED"},
         Resting(w) => b.reservations[id] >= Hold(w)
  PROVE  Covered(Store(b, id, w), None, y)
<1> DEFINE c == Store(b, id, w)
<1>1. Typed(b)
  BY DEF SoundBut
<1>2. /\ c.orders = [b.orders EXCEPT ![id] = w]
      /\ c.reservations = b.reservations
      /\ c.reserved = b.reserved
  BY <1>1 DEF Store, Typed, Books
<1> HIDE DEF c
<1>3. /\ Balanced(c)
      /\ BackedBut(c, None)
      /\ Ids(c) = Ids(b)
      /\ c.orders[id] = w
      /\ \A i \in Ids(b) : i # id => c.orders[i] = b.orders[i]
      /\ \A i, j \in Ids(b) : SameBracket(c, i, j) <=> SameBracket(b, i, j)
  <2>1. Balanced(b) /\ BackedBut(b, x)
    BY DEF Covered
  <2> QED  BY <1>1, <1>2, <2>1, ReplaceCovered
<1>4. OneLegOnly(c, y)
  BY <1>3 DEF Covered, OneLegOnly, Resting, RestingStatuses
<1> QED  BY <1>3, <1>4 DEF Covered, c

LEMMA CompleteCovered ==
  ASSUME NEW b, NEW id \in Ids(b), Sound(b), Covered(b, id, None), Resting(b.orders[id]),
         NEW o \in OrderType, o.parent_order_id = b.orders[id].parent_order_id,
         NEW px \in Nat
  PROVE  Covered(Complete(b, id, o, px), None, id)
<1> DEFINE c == Complete(b, id, o, px)
           w == [o EXCEPT !.status = "COMPLETE", !.average_fill_price = px]
<1>1. Typed(b)
  BY DEF Sound, SoundBut
<1>2. /\ c.orders = [b.orders EXCEPT ![id] = w]
      /\ c.reservations = b.reservations
      /\ c.reserved = b.reserved
  BY <1>1 DEF Complete, Typed, Books
<1>3. w.parent_order_id = b.orders[id].parent_order_id /\ ~Resting(w)
  BY DEF OrderType, Resting, RestingStatuses
<1> HIDE DEF c, w
<1>4. /\ Balanced(c)
      /\ BackedBut(c, None)
      /\ Ids(c) = Ids(b)
      /\ c.orders[id] = w
      /\ \A i \in Ids(b) : i # id => c.orders[i] = b.orders[i]
      /\ \A i, j \in Ids(b) : SameBracket(c, i, j) <=> SameBracket(b, i, j)
  <2> DEFINE x == id
  <2>1. /\ Typed(b) /\ Balanced(b) /\ BackedBut(b, x) /\ id \in Ids(b) /\ x \in {None, id}
        /\ c.orders = [b.orders EXCEPT ![id] = w]
        /\ c.reservations = b.reservations
        /\ c.reserved = b.reserved
        /\ w.parent_order_id = b.orders[id].parent_order_id
        /\ Resting(w) => b.reservations[id] >= Hold(w)
    BY <1>1, <1>2, <1>3 DEF Covered
  <2> HIDE DEF x
  <2> QED  BY ONLY <2>1, ReplaceCovered
<1>5. OneLegOnly(c, id)
  <2> SUFFICES ASSUME NEW i \in Ids(b), NEW j \in Ids(b), i # id,
                      SameBracket(b, i, j), b.orders[i].status = "COMPLETE"
               PROVE  c.orders[j].status \in {"CANCELLED", "REJECTED"}
    BY <1>4 DEF OneLegOnly
  <2>1. b.orders[j].status \in {"CANCELLED", "REJECTED"}
    BY DEF Covered, OneLegOnly, Ids, None
  <2>2. j # id
    BY <2>1 DEF Resting, RestingStatuses
  <2> QED  BY <1>4, <2>1, <2>2
<1> QED  BY <1>4, <1>5 DEF Covered, c

\* The sibling of an order that has filled can be cancelled, whichever side
\* it is on.
LEMMA CancelSiblingCovered ==
  ASSUME NEW b, NEW id \in Ids(b), SoundBut(b, id), Covered(b, None, id),
         b.orders[id].status = "COMPLETE"
  PROVE  ~SiblingReleaseFails(b, id) /\ Covered(CancelSibling(b, id), None, None)
<1> DEFINE c == CancelSibling(b, id)
<1>1. Typed(b) /\ \A j \in Ids(b) : b.orders[j] \in OrderType
  BY DEF SoundBut, Typed, Books, Ids
<1>2. ~SiblingReleaseFails(b, id)
  BY <1>1, HoldsCanBeReleased DEF SiblingReleaseFails, Siblings, Covered
<1>3. CASE Siblings(b, id) = {}
  <2>1. c = b
    BY <1>3 DEF CancelSibling
  <2>2. ASSUME NEW j \in Ids(b), SameBracket(b, id, j)
        PROVE  b.orders[j].status \in {"CANCELLED", "REJECTED"}
    <3>1. ~Resting(b.orders[j])
      BY <1>3, <2>2 DEF Siblings, SameBracket
    <3>2. b.orders[j].status # "COMPLETE"
      BY <2>2 DEF Covered, OneLegOnly, SameBracket
    <3>3. b.orders[j].status \in RestingStatuses \cup TerminalStatuses
      BY <1>1 DEF OrderType
    <3> QED  BY <3>1, <3>2, <3>3 DEF Resting, TerminalStatuses
  <2>3. OneLegOnly(b, None)
    BY <2>2 DEF Covered, OneLegOnly
  <2> QED  BY <1>2, <2>1, <2>3 DEF Covered
<1>4. CASE Siblings(b, id) # {}
  <2> DEFINE other == CHOOSE s \in Siblings(b, id) : TRUE
             r == ReleaseReservation(b, other)
             o == [b.orders[other] EXCEPT !.status = "CANCELLED"]
  <2>1. other \in Siblings(b, id)
    BY <1>4
  <2>2. c = [r EXCEPT !.orders[other] = [r.orders[other] EXCEPT !.status = "CANCELLED"]]
    BY <1>4 DEF CancelSibling
  <2> HIDE DEF other
  <2>3. /\ other \in Ids(b)
        /\ SameBracket(b, id, other)
        /\ Resting(b.orders[other])
        /\ CanRelease(b, other)
    BY <1>2, <2>1 DEF Siblings, SameBracket, SiblingReleaseFails
  <2>4. SoundBut(r, id) /\ r.orders = b.orders
    BY <2>3, ReleaseSound
  <2>5. Covered(r, other, id)
    BY <2>3, ReleaseCovered
  <2> HIDE DEF r
  <2>6. /\ o \in OrderType
        /\ o.parent_order_id = b.orders[other].parent_order_id
        /\ o.status = "CANCELLED"
    BY <1>1, <2>3, StatusType DEF TerminalStatuses
  <2>7. c = Store(r, other, o) /\ other \in Ids(r) /\ Ids(r) = Ids(b)
    BY <2>2, <2>3, <2>4 DEF Ids, Store
  <2> HIDE DEF o, c
  <2>8. Covered(c, None, id)
    <3>1. /\ Resting(r.orders[other])
          /\ o.parent_order_id = r.orders[other].parent_order_id
          /\ o.status \in RestingStatuses \cup {"CANCELLED", "REJECTED"}
          /\ ~Resting(o)
      BY <2>3, <2>4, <2>6 DEF Resting, RestingStatuses
    <3> QED  BY <2>4, <2>5, <2>6, <2>7, <3>1, StoreCovered
  <2>9. /\ Ids(c) = Ids(b)
        /\ c.orders[other] = o
        /\ \A i \in Ids(b) : i # other => c.orders[i] = b.orders[i]
    <3>1. c.orders = [b.orders EXCEPT ![other] = o]
      BY <2>4, <2>7 DEF Store, SoundBut, Typed, Books
    <3>2. b.orders \in Seq(OrderType)
      BY <1>1 DEF Typed, Books
    <3> QED  BY <2>3, <3>1, <3>2 DEF Ids
  <2>10. \A j \in Ids(b) : c.orders[j].parent_order_id = b.orders[j].parent_order_id
    BY <2>6, <2>9
  <2>11. \A j \in Ids(b) : SameBracket(c, id, j) => j = other
    BY <2>3, <2>10 DEF SoundBut, PairsSound, SameBracket
  <2>12. OneLegOnly(c, None)
    BY <2>6, <2>8, <2>9, <2>11 DEF Covered, OneLegOnly
  <2> QED  BY <1>2, <2>8, <2>12 DEF Covered, c
<1> QED  BY <1>3, <1>4

\* An order added while it can be funded is backed.
LEMMA AddOrderCovered ==
  ASSUME NEW b, Sound(b), Covered(b, None, None), NEW o \in OrderType, Resting(o),
         \A j \in Ids(b) :
            b.orders[j].parent_order_id = o.parent_order_id /\ o.parent_order_id # None
              => b.orders[j].status # "COMPLETE"
  PROVE  Covered(AddOrder(b, o), None, None)
<1> DEFINE c == AddOrder(b, o)
           n == Len(b.orders) + 1
<1>1. Typed(b) /\ Len(b.orders) \in Nat /\ b.reservations \in Seq(Nat) /\ b.reserved \in Nat
  BY DEF Sound, SoundBut, Typed, Books
<1>2. /\ Typed(c)
      /\ Len(c.orders) = n
      /\ \A i \in Ids(b) : /\ c.orders[i] = b.orders[i]
                           /\ c.reservations[i] = b.reservations[i]
      /\ \/ c.orders[n] = o /\ c.reservations[n] = Hold(o)
         \/ c.orders[n] = [o EXCEPT !.status = "REJECTED"] /\ c.reservations[n] = 0
  BY <1>1, AddOrderAppends
<1>3. Ids(c) = Ids(b) \cup {n} /\ n \notin Ids(b)
  BY <1>1, <1>2 DEF Ids
<1>4. Hold(o) \in Nat
  BY HoldIsNat
<1>5. Balanced(c)
  <2>1. \A v \in Int : SumFunction(Append(b.reservations, v)) = SumFunction(b.reservations) + v
    BY <1>1, SumAppend
  <2>2. b.reserved = SumFunction(b.reservations)
    BY DEF Covered, Balanced
  <2>3. CASE Fundable(b, o)
    <3>1. /\ c.reservations = Append(b.reservations, Hold(o))
          /\ c.reserved = b.reserved + Hold(o)
      BY <1>1, <2>3 DEF AddOrder, Typed, Books
    <3> HIDE DEF c
    <3> QED  BY <1>4, <2>1, <2>2, <3>1 DEF Balanced
  <2>4. CASE ~Fundable(b, o)
    <3>1. /\ c.reservations = Append(b.reservations, 0)
          /\ c.reserved = b.reserved
      BY <1>1, <2>4 DEF AddOrder, Typed, Books
    <3> HIDE DEF c
    <3>2. SumFunction(Append(b.reservations, 0)) = b.reserved + 0
      BY <2>1, <2>2
    <3> QED  BY <1>1, <3>1, <3>2 DEF Balanced
  <2> QED  BY <2>3, <2>4
<1> HIDE DEF c, n
<1>6. /\ c.orders[n].parent_order_id = o.parent_order_id
      /\ c.orders[n].status \in {"OPEN", "TRIGGER_PENDING", "REJECTED"}
      /\ Resting(c.orders[n]) => c.reservations[n] >= Hold(c.orders[n])
  <2>1. CASE c.orders[n] = o /\ c.reservations[n] = Hold(o)
    BY <1>4, <2>1 DEF Resting, RestingStatuses
  <2>2. CASE c.orders[n] = [o EXCEPT !.status = "REJECTED"]
    <3>1. /\ c.orders[n].parent_order_id = o.parent_order_id
          /\ c.orders[n].status = "REJECTED"
      BY <2>2 DEF OrderType
    <3> QED  BY <3>1 DEF Resting, RestingStatuses
  <2> QED  BY <1>2, <2>1, <2>2
<1>7. BackedBut(c, None)
  BY <1>2, <1>3, <1>6 DEF Covered, BackedBut
<1>8. OneLegOnly(c, None)
  <2> SUFFICES ASSUME NEW i \in Ids(c), NEW j \in Ids(c), SameBracket(c, i, j),
                      c.orders[i].status = "COMPLETE"
               PROVE  c.orders[j].status \in {"CANCELLED", "REJECTED"}
    BY DEF OneLegOnly
  <2>1. i \in Ids(b)
    BY <1>3, <1>6
  <2>2. CASE j \in Ids(b)
    BY <1>2, <2>1, <2>2 DEF Covered, OneLegOnly, SameBracket, Ids, None
  <2>3. CASE j = n
    BY <1>2, <1>6, <2>1, <2>3 DEF SameBracket
  <2> QED  BY <1>3, <2>2, <2>3
<1> QED  BY <1>5, <1>7, <1>8 DEF Covered, c

LEMMA SpawnLegCovered ==
  ASSUME NEW b, Sound(b), Covered(b, None, None), NEW id \in Ids(b),
         RoomForLeg(b, id),
         NEW leg \in OrderType, Resting(leg), leg.parent_order_id = id,
         NEW is_stop_loss, NEW leg_price
  PROVE  Covered(SpawnLeg(b, id, is_stop_loss, leg_price, leg), None, None)
<1>1. Covered(AddOrder(b, leg), None, None)
  BY AddOrderCovered DEF RoomForLeg
<1> QED  BY <1>1 DEF SpawnLeg

LEMMA SpawnBracketCovered ==
  ASSUME NEW b, Sound(b), Covered(b, None, None), NEW id \in Ids(b),
         b.orders[id].status = "COMPLETE", NoLeg(b, id)
  PROVE  Covered(SpawnBracket(b, id), None, None)
<1>1. CASE b.orders[id].parent_order_id # None
  BY <1>1 DEF SpawnBracket
<1>2. CASE b.orders[id].parent_order_id = None
  <2> DEFINE c == SpawnStopLoss(b, id)
             stop == b.orders[id].stop_loss_price
             target == c.orders[id].target_price
  <2>1. b.orders[id] \in OrderType /\ Typed(b)
    BY DEF Sound, SoundBut, Typed, Books, Ids
  <2>2. stop \in Nat
    BY <2>1 DEF OrderType
  <2>3. RoomForLeg(b, id)
    BY DEF NoLeg, RoomForLeg
  <2>4. /\ Sound(c)
        /\ Covered(c, None, None)
        /\ id \in Ids(c)
        /\ c.orders[id] = b.orders[id]
        /\ RoomForLeg(c, id)
    <3> DEFINE leg == Leg(b, id, "STOP", None, stop, "TRIGGER_PENDING")
               is_stop_loss == TRUE
    <3>1. /\ leg \in OrderType
          /\ Resting(leg)
          /\ leg.parent_order_id = id
          /\ leg.side = Opposite(b.orders[id].side)
      BY <2>1, <2>2, LegType DEF OrderTypes, RestingStatuses, None
    <3> HIDE DEF leg, is_stop_loss
    <3>2. c = SpawnLeg(b, id, is_stop_loss, stop, leg)
      BY DEF SpawnStopLoss, leg, is_stop_loss
    <3>3. Covered(c, None, None)
      BY <2>3, <3>1, <3>2, SpawnLegCovered
    <3> QED  BY <2>3, <3>1, <3>2, <3>3, SpawnLegSound
  <2> HIDE DEF c
  <2>5. target \in Nat
    BY <2>1, <2>4 DEF OrderType
  <2>6. Covered(SpawnTarget(c, id), None, None)
    <3> DEFINE leg == Leg(c, id, "LIMIT", target, None, "OPEN")
               is_stop_loss == FALSE
    <3>1. leg \in OrderType /\ Resting(leg) /\ leg.parent_order_id = id
      BY <2>4, <2>5, LegType DEF OrderTypes, RestingStatuses, None, Sound, SoundBut
    <3> HIDE DEF leg, is_stop_loss
    <3>2. SpawnTarget(c, id) = SpawnLeg(c, id, is_stop_loss, target, leg)
      BY DEF SpawnTarget, leg, is_stop_loss
    <3> QED  BY ONLY <2>4, <3>1, <3>2, SpawnLegCovered
  <2>7. SpawnBracket(b, id) = SpawnTarget(c, id)
    BY <1>2 DEF SpawnBracket, c
  <2> QED  BY <2>6, <2>7
<1> QED  BY <1>1, <1>2

\* A price can only lower what a working order has to be backed by: a
\* trailing BUY's trigger falls.
LEMMA ProductGrows ==
  ASSUME NEW q \in Nat, NEW m \in Nat, NEW n \in Nat, m <= n
  PROVE  q * m <= q * n
  OBVIOUS

LEMMA WorkingHold ==
  ASSUME NEW o \in OrderType, Resting(o), NEW px \in Nat
  PROVE  Hold(Working(o, px)) <= Hold(o)
<1>1. CASE o.order_type = "TRAILING_STOP"
  <2> DEFINE t == RatchetTrailingTrigger(o, px)
  <2>1. TrailingOffset(o, px) \in Nat
    BY OffsetIsNat DEF OrderType
  <2>2. o.trigger_price \in Nat /\ o.quantity \in Nat /\ px \in Int
    BY DEF OrderType
  <2>3. o.side = "BUY" => t <= o.trigger_price
    BY <2>1, <2>2 DEF RatchetTrailingTrigger
  <2>4. t \in Nat
    BY <2>1, <2>2 DEF RatchetTrailingTrigger
  <2>5. Working(o, px) = [o EXCEPT !.trigger_price = t]
    BY <1>1 DEF Working
  <2> HIDE DEF t
  <2>6. o.side = "BUY" => o.quantity * t <= o.quantity * o.trigger_price
    BY <2>2, <2>3, <2>4, ProductGrows
  <2>7. Hold(o) \in Nat
    BY HoldIsNat
  <2>8. /\ Working(o, px).side = o.side /\ Working(o, px).order_type = o.order_type
        /\ Working(o, px).quantity = o.quantity /\ Working(o, px).price = o.price
        /\ Working(o, px).trigger_price = t
    BY <2>5 DEF OrderType
  <2>9. o.price \in Nat /\ o.quantity * o.price \in Nat
    BY <2>2, ProductIsNat DEF OrderType
  <2> QED  BY <2>6, <2>7, <2>8, <2>9 DEF Hold
<1>2. CASE o.order_type # "TRAILING_STOP"
  <2>1. Hold(Working(o, px)) = Hold(o)
    BY <1>2 DEF Working, Hold, OrderType
  <2> QED  BY <2>1, HoldIsNat
<1> QED  BY <1>1, <1>2

\* Settling an order of covered books raises nothing and covers them again.
LEMMA SettledCovered ==
  ASSUME NEW b, Sound(b), Covered(b, None, None), NEW id \in Ids(b), Resting(b.orders[id]),
         NEW px \in Nat
  PROVE  ~SettleRaises(b, id, px) /\ Covered(Settled(b, id, px), None, None)
<1> DEFINE o == Working(b.orders[id], px)
           r == ReleaseReservation(b, id)
           m == Complete(r, id, o, px)
           d == CancelSibling(m, id)
<1>1. Typed(b) /\ b.orders[id] \in OrderType
  BY DEF Sound, SoundBut, Typed, Books, Ids
<1>2. /\ o \in OrderType
      /\ Resting(o)
      /\ o.side = b.orders[id].side
      /\ o.parent_order_id = b.orders[id].parent_order_id
      /\ Hold(o) <= Hold(b.orders[id])
  BY <1>1, WorkingType, WorkingHold
<1>3. CanRelease(b, id) /\ Covered(r, id, None)
  BY ReleaseCovered DEF Sound
<1>4. /\ Sound(r)
      /\ r.orders = b.orders
      /\ r.reservations[id] = 0
      /\ id \in Ids(r)
  <2>1. /\ Sound(r)
        /\ r.orders = b.orders
        /\ r.reservations = [b.reservations EXCEPT ![id] = 0]
    BY <1>3, ReleaseSound DEF Sound
  <2> QED  BY <2>1 DEF Sound, SoundBut, Typed, Books, Ids
<1>5. Affordable(r, o, px) =>
        /\ SoundBut(m, id)
        /\ Covered(m, None, id)
        /\ m.orders[id].status = "COMPLETE"
        /\ id \in Ids(m)
        /\ NoLeg(m, id)
  <2> SUFFICES ASSUME Affordable(r, o, px)
               PROVE  /\ SoundBut(m, id)
                      /\ Covered(m, None, id)
                      /\ m.orders[id].status = "COMPLETE"
                      /\ id \in Ids(m)
                      /\ NoLeg(m, id)
    OBVIOUS
  <2>1. /\ Resting(r.orders[id])
        /\ o.side = r.orders[id].side
        /\ o.parent_order_id = r.orders[id].parent_order_id
    BY <1>2, <1>4
  <2> HIDE DEF o, r
  <2>2. /\ SoundBut(m, id)
        /\ m.orders[id].status = "COMPLETE"
        /\ Ids(m) = Ids(r)
        /\ NoLeg(m, id)
    BY ONLY <1>2, <1>4, <2>1, px \in Nat, Affordable(r, o, px), CompleteSound
  <2>3. Covered(m, None, id)
    BY ONLY <1>2, <1>3, <1>4, <2>1, px \in Nat, CompleteCovered
  <2> QED  BY <1>4, <2>2, <2>3
<1> HIDE DEF m
<1>6. Affordable(r, o, px) => ~SiblingReleaseFails(m, id) /\ Covered(d, None, None)
  BY <1>5, CancelSiblingCovered
<1>7. ~SettleRaises(b, id, px)
  BY <1>3, <1>6 DEF SettleRaises, m
<1>8. CASE ~Fills(o, px)
  <2>1. Settled(b, id, px) = Store(b, id, o)
    BY <1>8 DEF Settled, Store
  <2> HIDE DEF o
  <2>2. b.reservations[id] >= Hold(o)
    <3>1. b.reservations[id] >= Hold(b.orders[id])
      BY DEF Covered, BackedBut, Ids, None
    <3>2. b.reservations[id] \in Nat /\ Hold(o) \in Nat /\ Hold(b.orders[id]) \in Nat
      BY <1>1, <1>2, HoldIsNat DEF Typed, Books, Ids
    <3> QED  BY <1>2, <3>1, <3>2
  <2>3. SoundBut(b, None) /\ None \in {None, id}
    BY DEF Sound
  <2>4. o.status \in RestingStatuses \cup {"CANCELLED", "REJECTED"}
    BY <1>2 DEF Resting
  <2>5. Covered(Store(b, id, o), None, None)
    BY <1>2, <2>2, <2>3, <2>4, StoreCovered
  <2> QED  BY <1>7, <2>1, <2>5
<1>9. CASE Fills(o, px) /\ ~Affordable(r, o, px)
  <2> DEFINE w == [o EXCEPT !.status = "REJECTED"]
  <2>1. Settled(b, id, px) = Store(r, id, w)
    BY <1>9 DEF Settled, Reject, Store
  <2> HIDE DEF o, r
  <2>2. /\ w \in OrderType
        /\ w.parent_order_id = r.orders[id].parent_order_id
        /\ w.status \in RestingStatuses \cup {"CANCELLED", "REJECTED"}
        /\ ~Resting(w)
    <3>1. /\ w \in OrderType
          /\ w.parent_order_id = o.parent_order_id
          /\ w.status = "REJECTED"
      BY <1>2, StatusType DEF TerminalStatuses
    <3> HIDE DEF w
    <3> QED  BY <1>2, <1>4, <3>1 DEF Resting, RestingStatuses
  <2> DEFINE x == id
  <2>3. SoundBut(r, None) /\ Covered(r, x, None) /\ x \in {None, id} /\ Resting(r.orders[id])
    BY <1>3, <1>4 DEF Sound
  <2> HIDE DEF w, o, r, x
  <2>4. Covered(Store(r, id, w), None, None)
    BY <1>4, <2>2, <2>3, StoreCovered
  <2> QED  BY <1>7, <2>1, <2>4
<1>10. CASE Fills(o, px) /\ Affordable(r, o, px)
  <2>1. /\ Sound(d)
        /\ Ids(d) = Ids(m)
        /\ d.orders[id] = m.orders[id]
        /\ \A j \in Ids(m) :
             d.orders[j].parent_order_id = m.orders[j].parent_order_id
    BY <1>5, <1>6, <1>10, CancelSiblingSound
  <2>2. Settled(b, id, px) = SpawnBracket(d, id)
    BY <1>10 DEF Settled, m
  <2> HIDE DEF d, o, r
  <2>3. d.orders[id].status = "COMPLETE" /\ NoLeg(d, id) /\ id \in Ids(d)
    BY <1>5, <1>10, <2>1 DEF NoLeg
  <2>4. Covered(SpawnBracket(d, id), None, None)
    BY <1>6, <1>10, <2>1, <2>3, SpawnBracketCovered
  <2> QED  BY <1>7, <2>2, <2>4
<1> QED  BY <1>8, <1>9, <1>10

-----------------------------------------------------------------------------
(***************************************************************************)
(* The steps.                                                              *)
(***************************************************************************)
BooksCovered == ~holdLost => Covered(Book, None, None)

LEMMA BecomesCovered ==
  ASSUME NEW b, Typed(b), Covered(b, None, None), BookBecomes(b)
  PROVE  BooksCovered'
<1>1. Book' = b
  BY DEF Book, BookBecomes, Typed, Books
<1> QED  BY <1>1 DEF BooksCovered

LEMMA PlaceOrderCovers ==
  ASSUME IInv, BooksCovered, NEW req \in Requests, NEW px \in Prices, PlaceOrder(req, px)
  PROVE  BooksCovered'
<1> SUFFICES ASSUME ~holdLost' PROVE BooksCovered'
  BY DEF BooksCovered
<1> DEFINE o == NewOrder(req, px)
           b == AddOrder(Book, o)
           n == Len(orders) + 1
<1>1. req \in RequestType /\ px \in Nat
  BY OrderBookAssumption
<1>2. Sound(Book) /\ Covered(Book, None, None)
  BY BooksAreSound DEF PlaceOrder, BooksCovered
<1>3. o \in OrderType /\ Resting(o) /\ o.parent_order_id = None
  BY <1>1, NewOrderType DEF PlaceOrder, NewOrder
<1>4. BookBecomes(IF Fundable(Book, o) THEN Settled(b, n, px) ELSE b)
  BY DEF PlaceOrder
<1> HIDE DEF o
<1>5. Sound(b) /\ Covered(b, None, None)
  BY <1>2, <1>3, AddOrderSound, AddOrderCovered
<1>6. Fundable(Book, o) => /\ n \in Ids(b) /\ Resting(b.orders[n])
                           /\ ~SettleRaises(b, n, px)
  BY <1>1, <1>3, NewOrderSettles
<1> HIDE DEF b, n
<1>7. Fundable(Book, o) => Sound(Settled(b, n, px)) /\ Covered(Settled(b, n, px), None, None)
  BY <1>1, <1>5, <1>6, SettledSound, SettledCovered
<1>8. PICK c : Sound(c) /\ Covered(c, None, None) /\ BookBecomes(c)
  BY <1>4, <1>5, <1>7
<1> QED  BY <1>8, BecomesCovered DEF Sound, SoundBut

LEMMA CancelOrderCovers ==
  ASSUME IInv, BooksCovered, NEW id \in 1..Len(orders), CancelOrder(id)
  PROVE  BooksCovered'
<1> SUFFICES ASSUME ~holdLost' PROVE BooksCovered'
  BY DEF BooksCovered
<1> DEFINE r == ReleaseReservation(Book, id)
           w == [orders[id] EXCEPT !.status = "CANCELLED"]
<1>1. Sound(Book) /\ id \in Ids(Book) /\ Book.orders = orders /\ Covered(Book, None, None)
  BY BooksAreSound DEF CancelOrder, BooksCovered
<1>2. Resting(orders[id]) /\ orders[id] \in OrderType
  BY DEF CancelOrder, IInv, TypeOK
<1>3. CanRelease(Book, id) /\ Covered(r, id, None)
  BY <1>1, ReleaseCovered DEF Sound
<1>4. Sound(r) /\ r.orders = orders
  BY <1>1, <1>3, ReleaseSound DEF Sound
<1>5. BookBecomes([r EXCEPT !.orders[id] = [r.orders[id] EXCEPT !.status = "CANCELLED"]])
  BY <1>3 DEF CancelOrder
<1> HIDE DEF r
<1>6. BookBecomes(Store(r, id, w)) /\ id \in Ids(r)
  BY <1>1, <1>4, <1>5 DEF Store, Ids
<1>7. /\ w \in OrderType
      /\ w.status = "CANCELLED"
      /\ w.parent_order_id = orders[id].parent_order_id
  BY <1>2, StatusType DEF TerminalStatuses
<1> DEFINE x == id
<1>8. /\ SoundBut(r, None) /\ Covered(r, x, None) /\ x \in {None, id}
      /\ Resting(r.orders[id])
      /\ w.parent_order_id = r.orders[id].parent_order_id
      /\ w.status \in RestingStatuses \cup {"CANCELLED", "REJECTED"}
      /\ ~Resting(w)
  BY <1>2, <1>3, <1>4, <1>7 DEF Sound, Resting, RestingStatuses
<1> HIDE DEF w, x
<1>9. Covered(Store(r, id, w), None, None)
  BY <1>6, <1>7, <1>8, StoreCovered
<1>10. Typed(Store(r, id, w))
  <2>1. r.orders \in Seq(OrderType) /\ id \in 1..Len(r.orders)
    BY <1>4, <1>6 DEF Sound, SoundBut, Typed, Books, Ids
  <2>2. [r.orders EXCEPT ![id] = w] \in Seq(OrderType)
        /\ Len([r.orders EXCEPT ![id] = w]) = Len(r.orders)
    BY <1>7, <2>1
  <2>3. \A f \in Seq(OrderType) : Len(f) = Len(r.orders) => Typed([r EXCEPT !.orders = f])
    BY <1>4 DEF Sound, SoundBut, Typed, Books
  <2> QED  BY <2>2, <2>3 DEF Store
<1> QED  BY <1>6, <1>9, <1>10, BecomesCovered

LEMMA ModifyOrderCovers ==
  ASSUME IInv, BooksCovered, NEW id \in 1..Len(orders), NEW mod \in Modifications,
         ModifyOrder(id, mod)
  PROVE  BooksCovered'
<1> SUFFICES ASSUME ~holdLost' PROVE BooksCovered'
  BY DEF BooksCovered
<1> DEFINE o == Modified(orders[id], mod)
           r == ReleaseReservation(Book, id)
           h == Hold(o)
           c == [r EXCEPT !.orders[id] = o,
                          !.reservations[id] = h,
                          !.reserved = r.reserved + h]
<1>1. Sound(Book) /\ id \in Ids(Book) /\ Book.orders = orders /\ Covered(Book, None, None)
  BY BooksAreSound DEF ModifyOrder, BooksCovered
<1>2. Resting(orders[id]) /\ orders[id] \in OrderType
  BY DEF ModifyOrder, IInv, TypeOK
<1>3. /\ o \in OrderType
      /\ o.status = orders[id].status
      /\ o.parent_order_id = orders[id].parent_order_id
  BY <1>2, ModifiedType, OrderBookAssumption
<1>4. Covered(r, id, None) /\ CanRelease(Book, id)
  BY <1>1, ReleaseCovered DEF Sound
<1>5. Sound(r) /\ r.orders = orders /\ r.reservations = [Book.reservations EXCEPT ![id] = 0]
  BY <1>1, <1>4, ReleaseSound DEF Sound
<1>6. BookBecomes(c)
  BY DEF ModifyOrder
<1>7. h \in Nat
  BY <1>3, HoldIsNat
<1>8. /\ Typed(r) /\ id \in Ids(r)
      /\ r.reservations \in Seq(Nat)
      /\ r.orders \in Seq(OrderType)
      /\ id \in DOMAIN r.reservations
      /\ r.reserved \in Nat
      /\ r.reservations[id] = 0
  <2>1. Typed(r) /\ id \in Ids(r) /\ Typed(Book)
    BY <1>1, <1>5 DEF Sound, SoundBut, Ids
  <2>2. id \in DOMAIN Book.reservations
    BY <1>1, <2>1 DEF Typed, Books, Ids
  <2> HIDE DEF r
  <2> QED  BY <1>5, <2>1, <2>2 DEF Typed, Books, Ids
<1> HIDE DEF o, r, h
<1>9. /\ c.orders = [r.orders EXCEPT ![id] = o]
      /\ c.reservations = [r.reservations EXCEPT ![id] = h]
      /\ c.reserved = r.reserved + h
  BY <1>8 DEF Typed, Books
<1>10. Typed(c)
  <2>1. [r.orders EXCEPT ![id] = o] \in Seq(OrderType)
        /\ Len([r.orders EXCEPT ![id] = o]) = Len(r.orders)
    BY <1>3, <1>8 DEF Ids
  <2>2. [r.reservations EXCEPT ![id] = h] \in Seq(Nat)
        /\ Len([r.reservations EXCEPT ![id] = h]) = Len(r.reservations)
    BY <1>7, <1>8
  <2>3. r.reserved + h \in Nat
    BY <1>7, <1>8
  <2> DEFINE With(x, y, n) == [r EXCEPT !.orders = x, !.reservations = y, !.reserved = n]
  <2>4. \A x \in Seq(OrderType), y \in Seq(Nat), n \in Nat :
          Len(x) = Len(y) => Typed(With(x, y, n))
    BY <1>8 DEF Typed, Books
  <2>5. c = With([r.orders EXCEPT ![id] = o], [r.reservations EXCEPT ![id] = h], r.reserved + h)
    BY <1>8 DEF Typed, Books
  <2> HIDE DEF With, c
  <2>6. Len(r.orders) = Len(r.reservations)
    BY <1>8 DEF Typed
  <2> QED  BY <2>1, <2>2, <2>3, <2>4, <2>5, <2>6
<1> HIDE DEF c
<1>11. Balanced(c)
  <2>1. IsFiniteSet(DOMAIN r.reservations) /\ \A i \in DOMAIN r.reservations : r.reservations[i] \in Int
    BY <1>8, SeqIndices
  <2>2. SumFunction([r.reservations EXCEPT ![id] = h])
          = SumFunction(r.reservations) - r.reservations[id] + h
    BY <1>7, <1>8, <2>1, SumExcept
  <2>3. r.reserved = SumFunction(r.reservations)
    BY <1>4 DEF Covered, Balanced
  <2>4. SumFunction(c.reservations) = r.reserved - 0 + h
    BY <1>8, <1>9, <2>2, <2>3
  <2> QED  BY <1>7, <1>8, <1>9, <2>4 DEF Balanced
<1>12. /\ Ids(c) = Ids(r)
       /\ c.orders[id] = o /\ c.reservations[id] = h
       /\ \A i \in Ids(r) : i # id => c.orders[i] = r.orders[i]
                                      /\ c.reservations[i] = r.reservations[i]
  BY <1>8, <1>9 DEF Typed, Books, Ids
<1>13. BackedBut(c, None)
  <2>1. h >= Hold(o)
    BY <1>7 DEF h
  <2> QED  BY <1>4, <1>12, <2>1 DEF Covered, BackedBut
<1>14. OneLegOnly(c, None)
  <2>1. \A i \in Ids(r) : /\ c.orders[i].status = r.orders[i].status
                          /\ c.orders[i].parent_order_id = r.orders[i].parent_order_id
    BY <1>3, <1>5, <1>12
  <2> QED  BY <1>4, <1>12, <2>1 DEF Covered, OneLegOnly, SameBracket
<1> QED  BY <1>6, <1>10, <1>11, <1>13, <1>14, BecomesCovered DEF Covered

LEMMA EvaluateNextCovers ==
  ASSUME IInv, BooksCovered, NEW id \in pending, EvaluateNext(id)
  PROVE  BooksCovered'
<1> SUFFICES ASSUME ~holdLost' PROVE BooksCovered'
  BY DEF BooksCovered
<1> DEFINE px == tick.price
           c == IF Resting(orders[id]) THEN Settled(Book, id, px) ELSE Book
<1>1. ~Idle /\ BookBecomes(c) /\ ~holdLost
  BY DEF EvaluateNext
<1>2. /\ Sound(Book) /\ Ids(Book) = 1..Len(orders) /\ Book.orders = orders
      /\ Covered(Book, None, None)
  BY <1>1, BooksAreSound DEF BooksCovered
<1>3. id \in Ids(Book) /\ px \in Nat
  BY <1>1, <1>2, TickPrice DEF IInv, TypeOK
<1> HIDE DEF px
<1>4. CASE Resting(orders[id])
  <2>1. ~SettleRaises(Book, id, px) /\ Covered(Settled(Book, id, px), None, None)
    BY <1>2, <1>3, <1>4, SettledCovered
  <2>2. Sound(Settled(Book, id, px))
    BY <1>2, <1>3, <1>4, <2>1, SettledSound
  <2>3. Typed(Settled(Book, id, px)) /\ BookBecomes(Settled(Book, id, px))
    BY <1>1, <1>4, <2>2 DEF Sound, SoundBut
  <2> QED  BY <2>1, <2>3, BecomesCovered
<1>5. CASE ~Resting(orders[id])
  <2>1. Typed(Book) /\ BookBecomes(Book)
    BY <1>1, <1>2, <1>5 DEF Sound, SoundBut
  <2> QED  BY <1>2, <2>1, BecomesCovered
<1> QED  BY <1>4, <1>5

\* An update is cut short only after a failed modify has lost a hold.
LEMMA RaisingNeedsLostHold ==
  ASSUME IInv, BooksCovered, NEW id \in pending, EvaluateRaises(id)
  PROVE  holdLost
<1> SUFFICES ASSUME ~holdLost PROVE FALSE
  BY DEF IInv, TypeOK
<1> DEFINE px == tick.price
<1>1. ~Idle /\ Resting(orders[id]) /\ SettleRaises(Book, id, px)
  BY DEF EvaluateRaises
<1>2. /\ Sound(Book) /\ Ids(Book) = 1..Len(orders) /\ Book.orders = orders
      /\ Covered(Book, None, None)
  BY BooksAreSound DEF BooksCovered
<1>3. id \in Ids(Book) /\ px \in Nat
  BY <1>1, <1>2, TickPrice DEF IInv, TypeOK
<1> HIDE DEF px
<1> QED  BY <1>1, <1>2, <1>3, SettledCovered

LEMMA EmptyBookCovered ==
  ASSUME NEW amount
  PROVE  Covered([orders |-> <<>>, reservations |-> <<>>, cash |-> amount, reserved |-> 0],
                 None, None)
<1> DEFINE b == [orders |-> <<>>, reservations |-> <<>>, cash |-> amount, reserved |-> 0]
<1>1. b.orders = <<>> /\ b.reservations = <<>> /\ b.reserved = 0
  OBVIOUS
<1> HIDE DEF b
<1>2. Ids(b) = {} /\ DOMAIN b.reservations = {}
  BY <1>1 DEF Ids
<1>3. Balanced(b)
  BY <1>1, <1>2, SumEmpty DEF Balanced, SumFunction
<1>4. Covered(b, None, None)
  BY <1>2, <1>3 DEF Covered, BackedBut, OneLegOnly
<1> QED  BY <1>4 DEF b

LEMMA InitCovered == BookInit => BooksCovered
BY EmptyBookCovered DEF BookInit, BooksCovered, Book

LEMMA NextCovered == IInv /\ BooksCovered /\ [BookNext]_bookVars => BooksCovered'
<1> SUFFICES ASSUME IInv, BooksCovered, [BookNext]_bookVars
             PROVE  BooksCovered'
  OBVIOUS
<1>1. CASE \E req \in Requests, px \in Prices : PlaceOrder(req, px)
  BY <1>1, PlaceOrderCovers
<1>2. CASE \E id \in 1..Len(orders) : CancelOrder(id)
  BY <1>2, CancelOrderCovers
<1>3. CASE \E id \in 1..Len(orders), mod \in Modifications : ModifyOrder(id, mod)
  BY <1>3, ModifyOrderCovers
<1>4. CASE \E id \in 1..Len(orders), mod \in Modifications : ModifyLosesHold(id, mod)
  BY <1>4 DEF ModifyLosesHold, BooksCovered
<1>5. CASE \E id \in pending : EvaluateNext(id)
  BY <1>5, EvaluateNextCovers
<1>6. CASE \E id \in pending : EvaluateRaises(id)
  <2>1. holdLost /\ holdLost' = holdLost
    BY <1>6, RaisingNeedsLostHold DEF EvaluateRaises
  <2> QED  BY <2>1 DEF BooksCovered
<1>7. CASE \E amount \in Capitals : Reset(amount)
  <2>1. orders' = <<>> /\ reservations' = <<>> /\ reserved' = 0
    BY <1>7 DEF Reset
  <2>2. Covered(Book, None, None)'
    BY <2>1, EmptyBookCovered DEF Book
  <2> QED  BY <2>2 DEF BooksCovered
<1>8. CASE \/ \E symbol \in Symbols, px \in Prices : BeginPriceUpdate(symbol, px)
           \/ EndPriceUpdate
           \/ UNCHANGED bookVars
  <2>1. UNCHANGED <<orders, reservations, cash, reserved, holdLost>>
    BY <1>8 DEF BeginPriceUpdate, EndPriceUpdate, bookVars
  <2>2. Book' = Book
    BY <2>1 DEF Book
  <2> QED  BY <2>1, <2>2 DEF BooksCovered
<1> QED
  BY <1>1, <1>2, <1>3, <1>4, <1>5, <1>6, <1>7, <1>8 DEF BookNext

LEMMA BooksStayCovered == BookSpec => [](IInv /\ BooksCovered)
BY InitIInv, NextIInv, InitCovered, NextCovered, PTL DEF BookSpec

\* The ledger's total is the sum of the holds and every resting BUY is backed,
\* through every pairing of reserve and release, until a failed modify loses
\* a hold.
THEOREM HoldsAgreeWithTheBook == BookSpec => []HoldsMatchTheBook
<1>1. IInv /\ BooksCovered => HoldsMatchTheBook
  <2>1. /\ Book.orders = orders /\ Book.reservations = reservations
        /\ Book.reserved = reserved /\ Ids(Book) = 1..Len(orders)
    BY DEF Book, Ids
  <2> HIDE DEF Book
  <2> QED  BY <2>1 DEF BooksCovered, Covered, Balanced, BackedBut, Ids, None,
                       HoldsMatchTheBook, HoldsAddUp, RestingBuysAreBacked
<1> QED  BY <1>1, BooksStayCovered, PTL

-----------------------------------------------------------------------------
(***************************************************************************)
(* 4.  The fills.                                                          *)
(***************************************************************************)

-----------------------------------------------------------------------------
(***************************************************************************)
(* What a price update leaves behind.                                      *)
(***************************************************************************)
\* The price px does not fill this order.
Beyond(o, px) == Resting(o) => ~Fills(Working(o, px), px)

\* Between b and c every order but id is as it was, or out of px's reach.
Spared(b, c, id, px) ==
    \A i \in Ids(c) :
        \/ i \in Ids(b) /\ i # id /\ c.orders[i] = b.orders[i]
        \/ Beyond(c.orders[i], px)

\* Looking at an order twice at one price finds what it found the first time:
\* the ratchet has moved as far as px takes it.
LEMMA WorkingSettles ==
  ASSUME NEW o \in OrderType, Resting(o), NEW px \in Nat, ~Fills(Working(o, px), px)
  PROVE  Beyond(Working(o, px), px)
<1> DEFINE w == Working(o, px)
<1>1. TrailingOffset(o, px) \in Nat
  BY OffsetIsNat DEF OrderType
<1>2. CASE o.order_type = "TRAILING_STOP"
  <2> DEFINE t == RatchetTrailingTrigger(o, px)
  <2>1. w = [o EXCEPT !.trigger_price = t]
    BY <1>2 DEF Working
  <2>2. o.trigger_price \in Nat
    BY DEF OrderType
  <2> HIDE DEF t, w
  <2>3. /\ w.trigger_price = t /\ w.side = o.side /\ w.order_type = "TRAILING_STOP"
        /\ w.trailing_amount = o.trailing_amount
        /\ w.trailing_percent = o.trailing_percent
    BY <1>2, <2>1 DEF OrderType
  <2>4. TrailingOffset(w, px) = TrailingOffset(o, px)
    BY <2>3 DEF TrailingOffset
  <2>5. RatchetTrailingTrigger(w, px) = t
    BY <1>1, <2>2, <2>3, <2>4 DEF RatchetTrailingTrigger, t
  <2>6. Working(w, px) = [w EXCEPT !.trigger_price = t]
    BY <2>3, <2>5 DEF Working
  <2>7. w \in OrderType
    BY WorkingType DEF w
  <2>8. [w EXCEPT !.trigger_price = t] = w
    BY <2>3, <2>7 DEF OrderType
  <2> QED  BY <2>6, <2>8 DEF Beyond, w
<1>3. CASE o.order_type # "TRAILING_STOP"
  <2>1. w.order_type = o.order_type
    BY <1>3 DEF Working, OrderType
  <2>2. Working(w, px) = w
    BY <1>3, <2>1 DEF Working, OrderType, IsTriggered
  <2> QED  BY <2>2 DEF Beyond
<1> QED  BY <1>2, <1>3

LEMMA AddOrderSpares ==
  ASSUME NEW b, Typed(b), NEW o \in OrderType, NEW px, Beyond(o, px), NEW id, id \notin Ids(b)
  PROVE  Spared(b, AddOrder(b, o), id, px)
<1> DEFINE c == AddOrder(b, o)
           n == Len(b.orders) + 1
<1>1. /\ Typed(c)
      /\ Len(c.orders) = n
      /\ \A i \in Ids(b) : /\ c.orders[i] = b.orders[i]
                           /\ c.reservations[i] = b.reservations[i]
      /\ \/ c.orders[n] = o /\ c.reservations[n] = Hold(o)
         \/ c.orders[n] = [o EXCEPT !.status = "REJECTED"] /\ c.reservations[n] = 0
  BY AddOrderAppends
<1>2. Len(b.orders) \in Nat
  BY DEF Typed, Books
<1>3. Beyond(c.orders[n], px)
  BY <1>1 DEF Beyond, Resting, RestingStatuses, OrderType
<1> HIDE DEF c
<1>4. \A i \in Ids(c) : i \in Ids(b) \/ i = n
  BY <1>1, <1>2 DEF Ids
<1> QED  BY <1>1, <1>3, <1>4 DEF Spared, c

\* A leg spawned at the fill price px is out of px's reach.
LEMMA LegsAreBeyond ==
  ASSUME NEW b, Typed(b), NEW id \in Ids(b), NEW px \in Nat, NEW leg_price \in Nat,
         b.orders[id].average_fill_price = px
  PROVE  /\ LegIsValid(b.orders[id].side, TRUE, leg_price, px) =>
              Beyond(Leg(b, id, "STOP", None, leg_price, "TRIGGER_PENDING"), px)
         /\ LegIsValid(b.orders[id].side, FALSE, leg_price, px) =>
              Beyond(Leg(b, id, "LIMIT", leg_price, None, "OPEN"), px)
<1>0. b.orders[id] \in OrderType
  BY DEF Typed, Books, Ids
<1>1. b.orders[id].side \in Sides
  BY <1>0 DEF OrderType
<1>2. LegIsValid(b.orders[id].side, TRUE, leg_price, px) =>
        Beyond(Leg(b, id, "STOP", None, leg_price, "TRIGGER_PENDING"), px)
  BY <1>1 DEF LegIsValid, Beyond, Leg, Working, Fills, IsTriggered, Opposite, Sides
<1>3. LegIsValid(b.orders[id].side, FALSE, leg_price, px) =>
        Beyond(Leg(b, id, "LIMIT", leg_price, None, "OPEN"), px)
  BY <1>1 DEF LegIsValid, Beyond, Leg, Working, Fills, IsMarketable, Opposite, Sides
<1> QED  BY <1>2, <1>3

\* The bracket spawned by a fill at px.
LEMMA SpawnBracketSpares ==
  ASSUME NEW b, Sound(b), NEW id \in Ids(b), NoLeg(b, id), NEW px \in Nat,
         b.orders[id].status = "COMPLETE", b.orders[id].average_fill_price = px
  PROVE  \A i \in Ids(SpawnBracket(b, id)) :
            \/ i \in Ids(b) /\ SpawnBracket(b, id).orders[i] = b.orders[i]
            \/ Beyond(SpawnBracket(b, id).orders[i], px)
<1>1. CASE b.orders[id].parent_order_id # None
  BY <1>1 DEF SpawnBracket
<1>2. CASE b.orders[id].parent_order_id = None
  <2> DEFINE c == SpawnStopLoss(b, id)
             d == SpawnTarget(c, id)
             stop == b.orders[id].stop_loss_price
             target == c.orders[id].target_price
             slot == 0
  <2>0. SpawnBracket(b, id) = d
    BY <1>2 DEF SpawnBracket
  <2>1. b.orders[id] \in OrderType /\ Typed(b)
    BY DEF Sound, SoundBut, Typed, Books, Ids
  <2>2. stop \in Nat /\ slot \notin Ids(b)
    BY <2>1 DEF OrderType, Ids
  <2> HIDE DEF slot
  <2>3. /\ Typed(c)
        /\ id \in Ids(c)
        /\ Ids(b) \subseteq Ids(c)
        /\ c.orders[id] = b.orders[id]
        /\ \A i \in Ids(c) : (i \in Ids(b) /\ c.orders[i] = b.orders[i]) \/ Beyond(c.orders[i], px)
    <3> DEFINE leg == Leg(b, id, "STOP", None, stop, "TRIGGER_PENDING")
               is_stop_loss == TRUE
    <3>1. /\ leg \in OrderType
          /\ Resting(leg)
          /\ leg.parent_order_id = id
          /\ leg.side = Opposite(b.orders[id].side)
      BY <2>1, <2>2, LegType DEF OrderTypes, RestingStatuses, None
    <3>2. LegIsValid(b.orders[id].side, is_stop_loss, stop, px) => Beyond(leg, px)
      BY <2>1, <2>2, LegsAreBeyond
    <3> HIDE DEF leg, is_stop_loss
    <3>3. c = SpawnLeg(b, id, is_stop_loss, stop, leg)
      BY DEF SpawnStopLoss, leg, is_stop_loss
    <3>4. RoomForLeg(b, id)
      BY DEF NoLeg, RoomForLeg
    <3>5. /\ Sound(c)
          /\ Ids(b) \subseteq Ids(c)
          /\ c.orders[id] = b.orders[id]
      BY <3>1, <3>3, <3>4, SpawnLegSound
    <3>6. c = b \/ (c = AddOrder(b, leg) /\ Beyond(leg, px))
      BY <3>2, <3>3 DEF SpawnLeg
    <3> HIDE DEF c
    <3>7. CASE c = b
      BY <2>1, <3>7
    <3>8. CASE c = AddOrder(b, leg) /\ Beyond(leg, px)
      <4>1. Spared(b, c, slot, px)
        BY <2>1, <2>2, <3>1, <3>8, AddOrderSpares
      <4> QED  BY <3>5, <4>1 DEF Spared, Sound, SoundBut
    <3> QED  BY <3>6, <3>7, <3>8
  <2> HIDE DEF c
  <2>4. target \in Nat /\ slot \notin Ids(c)
    <3>1. c.orders[id] \in OrderType
      BY <2>1, <2>3
    <3> QED  BY <3>1 DEF OrderType, Ids, slot
  <2>5. \A i \in Ids(d) : (i \in Ids(c) /\ d.orders[i] = c.orders[i]) \/ Beyond(d.orders[i], px)
    <3> DEFINE leg == Leg(c, id, "LIMIT", target, None, "OPEN")
               is_stop_loss == FALSE
    <3>1. leg \in OrderType
      BY <2>3, <2>4, LegType DEF OrderTypes, RestingStatuses, None
    <3>2. LegIsValid(c.orders[id].side, is_stop_loss, target, px) => Beyond(leg, px)
      BY <2>3, <2>4, LegsAreBeyond
    <3>0. c.orders[id].average_fill_price = px
      BY <2>3
    <3> HIDE DEF leg, is_stop_loss
    <3>3. d = SpawnLeg(c, id, is_stop_loss, target, leg)
      BY DEF SpawnTarget, leg, is_stop_loss
    <3>4. d = c \/ (d = AddOrder(c, leg) /\ Beyond(leg, px))
      BY <3>0, <3>2, <3>3 DEF SpawnLeg
    <3> HIDE DEF d
    <3>5. CASE d = AddOrder(c, leg) /\ Beyond(leg, px)
      <4>1. Spared(c, d, slot, px)
        BY <2>3, <2>4, <3>1, <3>5, AddOrderSpares
      <4> QED  BY <4>1 DEF Spared
    <3> QED  BY <3>4, <3>5
  <2> HIDE DEF d
  <2>6. \A i \in Ids(d) : (i \in Ids(b) /\ d.orders[i] = b.orders[i]) \/ Beyond(d.orders[i], px)
    BY <2>3, <2>5
  <2> QED  BY <2>0, <2>6
<1> QED  BY <1>1, <1>2

LEMMA SettledSpares ==
  ASSUME NEW b, Sound(b), NEW id \in Ids(b), Resting(b.orders[id]),
         NEW px \in Nat, ~SettleRaises(b, id, px)
  PROVE  Spared(b, Settled(b, id, px), id, px)
<1> DEFINE o == Working(b.orders[id], px)
           w == [o EXCEPT !.status = "REJECTED"]
           f == [o EXCEPT !.status = "COMPLETE", !.average_fill_price = px]
           r == ReleaseReservation(b, id)
           m == Complete(r, id, o, px)
           d == CancelSibling(m, id)
           e == SpawnBracket(d, id)
<1>1. Typed(b) /\ b.orders[id] \in OrderType /\ b.orders \in Seq(OrderType)
  BY DEF Sound, SoundBut, Typed, Books, Ids
<1>2. /\ o \in OrderType
      /\ Resting(o)
      /\ o.side = b.orders[id].side
      /\ o.parent_order_id = b.orders[id].parent_order_id
  BY <1>1, WorkingType
<1>3. ASSUME NEW c, NEW z, c.orders = [b.orders EXCEPT ![id] = z], Beyond(z, px)
      PROVE  Spared(b, c, id, px)
  BY <1>1, <1>3 DEF Spared, Ids
<1>4. CASE ~Fills(o, px)
  <2>1. Settled(b, id, px).orders = [b.orders EXCEPT ![id] = o]
    BY <1>1, <1>4 DEF Settled, Typed, Books
  <2>2. Beyond(o, px)
    BY <1>1, <1>4, WorkingSettles
  <2> HIDE DEF o
  <2> QED  BY <1>3, <2>1, <2>2
<1>5. ASSUME Fills(o, px)
      PROVE  /\ Sound(r)
             /\ r.orders = b.orders
             /\ r.reservations[id] = 0
             /\ id \in Ids(r)
  <2>1. CanRelease(b, id)
    BY <1>5 DEF SettleRaises
  <2>2. /\ Sound(r)
        /\ r.orders = b.orders
        /\ r.reservations = [b.reservations EXCEPT ![id] = 0]
    BY <2>1, ReleaseSound DEF Sound
  <2> QED  BY <2>2 DEF Sound, SoundBut, Typed, Books, Ids
<1>6. CASE Fills(o, px) /\ ~Affordable(r, o, px)
  <2>1. Settled(b, id, px).orders = [b.orders EXCEPT ![id] = w]
    BY <1>5, <1>6 DEF Settled, Reject, Sound, SoundBut, Typed, Books
  <2>2. ~Resting(w)
    BY <1>2 DEF OrderType, Resting, RestingStatuses
  <2> HIDE DEF w
  <2> QED  BY <1>3, <2>1, <2>2 DEF Beyond
<1>7. CASE Fills(o, px) /\ Affordable(r, o, px)
  <2>1. /\ Settled(b, id, px) = e
        /\ ~SiblingReleaseFails(m, id)
    BY <1>7 DEF Settled, SettleRaises
  <2>2. m.orders = [b.orders EXCEPT ![id] = f]
    BY <1>5, <1>7 DEF Complete, Sound, SoundBut, Typed, Books
  <2>3. f.status = "COMPLETE" /\ f.average_fill_price = px /\ ~Resting(f)
    BY <1>2 DEF OrderType, Resting, RestingStatuses
  <2> HIDE DEF o, r, f
  <2>4. /\ SoundBut(m, id)
        /\ m.orders[id].status = "COMPLETE"
        /\ Ids(m) = Ids(r)
        /\ NoLeg(m, id)
    <3>1. /\ Sound(r) /\ r.reservations[id] = 0 /\ id \in Ids(r)
          /\ Resting(r.orders[id])
          /\ o.side = r.orders[id].side
          /\ o.parent_order_id = r.orders[id].parent_order_id
          /\ Affordable(r, o, px)
      BY <1>2, <1>5, <1>7
    <3> QED  BY ONLY <1>2, <3>1, px \in Nat, CompleteSound
  <2>5. /\ Ids(m) = Ids(b)
        /\ m.orders[id] = f
        /\ \A i \in Ids(b) : i # id => m.orders[i] = b.orders[i]
    BY <1>1, <2>2 DEF Ids
  <2> HIDE DEF m
  <2>6. /\ Sound(d)
        /\ Ids(d) = Ids(m)
        /\ d.orders[id] = m.orders[id]
        /\ \A j \in Ids(m) :
             d.orders[j].parent_order_id = m.orders[j].parent_order_id
    BY <2>1, <2>4, <2>5, CancelSiblingSound
  <2>7. \A i \in Ids(d) : d.orders[i] = m.orders[i] \/ ~Resting(d.orders[i])
    <3>1. CASE Siblings(m, id) = {}
      BY <3>1 DEF CancelSibling
    <3>2. CASE Siblings(m, id) # {}
      <4> DEFINE s == CHOOSE s \in Siblings(m, id) : TRUE
                 x == [m.orders[s] EXCEPT !.status = "CANCELLED"]
      <4>1. s \in Siblings(m, id)
        BY <3>2
      <4>2. d = [ReleaseReservation(m, s) EXCEPT !.orders[s].status = "CANCELLED"]
        BY <3>2 DEF CancelSibling
      <4> HIDE DEF s
      <4>3. s \in Ids(m) /\ m.orders \in Seq(OrderType) /\ m \in Books
        BY <2>4, <4>1 DEF Siblings, SoundBut, Typed, Books
      <4>4. d.orders = [m.orders EXCEPT ![s] = x]
        BY <4>2, <4>3 DEF ReleaseReservation, Books
      <4>5. m.orders[s] \in OrderType
        BY <4>3 DEF Ids
      <4>6. ~Resting(x)
        BY <4>5 DEF OrderType, Resting, RestingStatuses
      <4> HIDE DEF d, x
      <4> QED  BY <2>6, <4>3, <4>4, <4>6 DEF Ids
    <3> QED  BY <3>1, <3>2
  <2> HIDE DEF d
  <2>8. \A i \in Ids(e) : (i \in Ids(d) /\ e.orders[i] = d.orders[i]) \/ Beyond(e.orders[i], px)
    <3>1. /\ id \in Ids(d)
          /\ d.orders[id].status = "COMPLETE"
          /\ d.orders[id].average_fill_price = px
          /\ NoLeg(d, id)
      BY <2>3, <2>4, <2>5, <2>6 DEF NoLeg
    <3> QED  BY <2>6, <3>1, SpawnBracketSpares
  <2> HIDE DEF e
  <2>9. Spared(b, e, id, px)
    <3> SUFFICES ASSUME NEW i \in Ids(e), ~Beyond(e.orders[i], px)
                 PROVE  i \in Ids(b) /\ i # id /\ e.orders[i] = b.orders[i]
      BY DEF Spared
    <3>1. i \in Ids(d) /\ e.orders[i] = d.orders[i] /\ Resting(d.orders[i])
      BY <2>8 DEF Beyond
    <3>2. d.orders[i] = m.orders[i] /\ i \in Ids(m)
      BY <2>6, <2>7, <3>1
    <3> QED  BY <2>3, <2>5, <3>1, <3>2
  <2> QED  BY <2>1, <2>9
<1> QED  BY <1>4, <1>6, <1>7

-----------------------------------------------------------------------------
(***************************************************************************)
(* The steps of a price update.                                            *)
(***************************************************************************)
\* Every order of the symbol the update has been past is out of its reach.
PassedAreBeyond ==
    ~Idle =>
      \A id \in 1..Len(orders) :
        \/ id \in pending
        \/ orders[id].symbol # tick.symbol
        \/ Beyond(orders[id], tick.price)

LEMMA EvaluateNextPasses ==
  ASSUME IInv, PassedAreBeyond, NEW id \in pending, EvaluateNext(id)
  PROVE  PassedAreBeyond'
<1> DEFINE px == tick.price
           c == IF Resting(orders[id]) THEN Settled(Book, id, px) ELSE Book
<1>1. /\ ~Idle
      /\ BookBecomes(c)
      /\ Resting(orders[id]) => ~SettleRaises(Book, id, px)
      /\ tick' = tick
      /\ pending' = pending \ {id}
  BY DEF EvaluateNext
<1>2. Sound(Book) /\ Ids(Book) = 1..Len(orders) /\ Book.orders = orders
  BY BooksAreSound
<1>3. id \in 1..Len(orders) /\ px \in Nat
  BY <1>1, TickPrice DEF IInv, TypeOK
<1> HIDE DEF px
<1>4. Spared(Book, c, id, px)
  <2>1. CASE Resting(orders[id])
    BY <1>1, <1>2, <1>3, <2>1, SettledSpares
  <2>2. CASE ~Resting(orders[id])
    BY <1>2, <2>2 DEF Spared, Beyond
  <2> QED  BY <2>1, <2>2
<1> HIDE DEF c
<1>5. orders' = c.orders /\ Ids(c) = 1..Len(orders')
  BY <1>1 DEF BookBecomes, Ids
<1> SUFFICES ASSUME NEW i \in 1..Len(orders')
             PROVE  \/ i \in pending'
                    \/ orders'[i].symbol # tick'.symbol
                    \/ Beyond(orders'[i], tick'.price)
  BY DEF PassedAreBeyond, Beyond, Resting, Fills, Working, IsMarketable, IsTriggered,
         RatchetTrailingTrigger, TrailingOffset
<1>6. CASE i \in 1..Len(orders) /\ i # id /\ orders'[i] = orders[i]
  BY <1>1, <1>6 DEF PassedAreBeyond
<1>7. CASE Beyond(orders'[i], px)
  BY <1>1, <1>7 DEF px
<1> QED  BY <1>2, <1>4, <1>5, <1>6, <1>7 DEF Spared

LEMMA NextPasses == IInv /\ PassedAreBeyond /\ [BookNext]_bookVars => PassedAreBeyond'
<1> SUFFICES ASSUME IInv, PassedAreBeyond, [BookNext]_bookVars
             PROVE  PassedAreBeyond'
  OBVIOUS
<1>1. CASE \E id \in pending : EvaluateNext(id)
  BY <1>1, EvaluateNextPasses
<1>2. CASE \E symbol \in Symbols, px \in Prices : BeginPriceUpdate(symbol, px)
  <2>1. PICK symbol \in Symbols, px \in Prices : BeginPriceUpdate(symbol, px)
    BY <1>2
  <2>2. /\ orders' = orders
        /\ tick'.symbol = symbol
        /\ pending' = {id \in 1..Len(orders) : orders[id].symbol = symbol /\ Resting(orders[id])}
    BY <2>1 DEF BeginPriceUpdate, Ids, Book
  <2> SUFFICES ASSUME NEW id \in 1..Len(orders'), id \notin pending',
                      orders'[id].symbol = tick'.symbol
               PROVE  ~Resting(orders[id])
    BY <2>2 DEF PassedAreBeyond, Beyond, Resting
  <2> QED  BY <2>2
<1>3. CASE UNCHANGED bookVars
  BY <1>3 DEF PassedAreBeyond, Idle, bookVars, Beyond, Resting, Fills, Working, IsMarketable,
              IsTriggered, RatchetTrailingTrigger, TrailingOffset
<1>4. ASSUME Idle' PROVE PassedAreBeyond'
  BY <1>4 DEF PassedAreBeyond
<1>5. \/ \E req \in Requests, px \in Prices : PlaceOrder(req, px)
      \/ \E id \in 1..Len(orders) : CancelOrder(id)
      \/ \E id \in 1..Len(orders), mod \in Modifications : ModifyOrder(id, mod)
      \/ \E id \in 1..Len(orders), mod \in Modifications : ModifyLosesHold(id, mod)
      \/ \E id \in pending : EvaluateRaises(id)
      \/ EndPriceUpdate
      \/ \E amount \in Capitals : Reset(amount)
      => Idle'
  BY DEF PlaceOrder, CancelOrder, ModifyOrder, ModifyLosesHold, EvaluateRaises,
         EndPriceUpdate, Reset, Idle
<1> QED  BY <1>1, <1>2, <1>3, <1>4, <1>5 DEF BookNext

\* An order fills at a price within its limit, one leg of a bracket at most
\* fills, and a price update that ends has filled all it should.
THEOREM FillsStayExact == BookSpec => []FillsAreExact
<1>1. BookInit => PassedAreBeyond
  BY DEF BookInit, PassedAreBeyond, Idle
<1>2. RInv /\ BooksCovered /\ PassedAreBeyond => FillsAreExact
  <2> SUFFICES ASSUME RInv, BooksCovered, PassedAreBeyond
               PROVE  FillsHonourLimits /\ OneLegFills /\ NothingLeftToFill
    BY DEF FillsAreExact
  <2>1. FillsHonourLimits
    BY DEF RInv, Honoured, FillsHonourLimits
  <2>2. OneLegFills
    <3>1. Book.orders = orders /\ Ids(Book) = 1..Len(orders)
      BY DEF Book, Ids
    <3> QED  BY <3>1 DEF BooksCovered, Covered, OneLegOnly, OneLegFills, AreSiblings,
                         SameBracket, None, Ids
  <2>3. NothingLeftToFill
    BY DEF PassedAreBeyond, NothingLeftToFill, Beyond
  <2> QED  BY <2>1, <2>2, <2>3
<1>3. RInv => IInv
  BY DEF RInv
<1> QED
  BY <1>1, <1>2, <1>3, InitRInv, NextRInv, InitCovered, NextCovered, NextPasses, PTL
     DEF BookSpec

-----------------------------------------------------------------------------
(***************************************************************************)
(* 5.  The engine: cash, the trade history and the positions.              *)
(***************************************************************************)

-----------------------------------------------------------------------------
(***************************************************************************)
(* What a step of the order book does to cash.                             *)
(***************************************************************************)
Filled(b, i) == i \in Ids(b) /\ b.orders[i].status = "COMPLETE"

\* What a fill takes from cash: negative for a SELL.
Cost(o) == Sign(o.side) * (o.quantity * o.average_fill_price)

\* Between b and c nothing but x fills, and what has filled stays as it was.
FillsBut(b, c, x) ==
    /\ Ids(b) \subseteq Ids(c)
    /\ \A i \in Ids(b) : Filled(b, i) => c.orders[i] = b.orders[i]
    /\ \A i \in Ids(c) : Filled(c, i) => Filled(b, i) \/ i = x

\* Between b and c nothing fills, and cash is what it was.
Quiet(b, c) == FillsBut(b, c, 0) /\ c.cash = b.cash

\* Between b and c the order x fills, and cash pays for it.
FillsOne(b, c, x) ==
    /\ FillsBut(b, c, x)
    /\ Filled(c, x) /\ ~Filled(b, x)
    /\ c.cash = b.cash - Cost(c.orders[x])

LEMMA QuietReflexive ==
  ASSUME NEW b
  PROVE  Quiet(b, b)
BY DEF Quiet, FillsBut

LEMMA QuietTransitive ==
  ASSUME NEW b, NEW c, NEW d, Quiet(b, c), Quiet(c, d)
  PROVE  Quiet(b, d)
<1>1. 0 \notin Ids(b) /\ 0 \notin Ids(c) /\ 0 \notin Ids(d)
  BY DEF Ids
<1> QED  BY <1>1 DEF Quiet, FillsBut, Filled

LEMMA FillsOneThenQuiet ==
  ASSUME NEW b, NEW c, NEW d, NEW x, FillsOne(b, c, x), Quiet(c, d)
  PROVE  FillsOne(b, d, x)
<1>1. 0 \notin Ids(b) /\ 0 \notin Ids(c) /\ 0 \notin Ids(d)
  BY DEF Ids
<1>2. x \in Ids(c) /\ d.orders[x] = c.orders[x] /\ Filled(d, x)
  BY DEF FillsOne, Quiet, FillsBut, Filled
<1> QED  BY <1>1, <1>2 DEF FillsOne, Quiet, FillsBut, Filled

LEMMA QuietThenFillsOne ==
  ASSUME NEW b, NEW c, NEW d, NEW x, Quiet(b, c), FillsOne(c, d, x)
  PROVE  FillsOne(b, d, x)
<1>1. 0 \notin Ids(b) /\ 0 \notin Ids(c) /\ 0 \notin Ids(d)
  BY DEF Ids
<1>2. ~Filled(b, x)
  BY DEF FillsOne, Quiet, FillsBut, Filled
<1> QED  BY <1>1, <1>2 DEF FillsOne, Quiet, FillsBut, Filled

\* The same orders and cash.
LEMMA SameOrdersQuiet ==
  ASSUME NEW b, NEW c, c.orders = b.orders, c.cash = b.cash
  PROVE  Quiet(b, c)
BY DEF Quiet, FillsBut, Filled, Ids

\* An order that has not filled is replaced by one that has not.
LEMMA ReplaceQuiet ==
  ASSUME NEW b, NEW c, Typed(b), NEW id \in Ids(b), NEW w,
         b.orders[id].status # "COMPLETE", w.status # "COMPLETE",
         c.orders = [b.orders EXCEPT ![id] = w], c.cash = b.cash
  PROVE  Quiet(b, c)
<1>1. /\ Ids(c) = Ids(b)
      /\ c.orders[id] = w
      /\ \A i \in Ids(b) : i # id => c.orders[i] = b.orders[i]
  BY DEF Typed, Books, Ids
<1> QED  BY <1>1 DEF Quiet, FillsBut, Filled

LEMMA AddOrderQuiet ==
  ASSUME NEW b, Typed(b), NEW o \in OrderType, Resting(o)
  PROVE  Typed(AddOrder(b, o)) /\ Quiet(b, AddOrder(b, o))
<1> DEFINE c == AddOrder(b, o)
           n == Len(b.orders) + 1
<1>1. /\ Typed(c)
      /\ Len(c.orders) = n
      /\ \A i \in Ids(b) : c.orders[i] = b.orders[i]
      /\ \/ c.orders[n] = o
         \/ c.orders[n] = [o EXCEPT !.status = "REJECTED"]
  BY AddOrderAppends
<1>2. c.cash = b.cash
  BY DEF AddOrder, Typed, Books
<1>3. Len(b.orders) \in Nat
  BY DEF Typed, Books
<1>4. c.orders[n].status # "COMPLETE"
  BY <1>1 DEF Resting, RestingStatuses, OrderType
<1> HIDE DEF c
<1>5. Ids(b) \subseteq Ids(c) /\ \A i \in Ids(c) : i \in Ids(b) \/ i = n
  BY <1>1, <1>3 DEF Ids
<1>6. Quiet(b, c)
  BY <1>1, <1>2, <1>4, <1>5 DEF Quiet, FillsBut, Filled
<1> QED  BY <1>1, <1>6 DEF c

LEMMA SpawnLegQuiet ==
  ASSUME NEW b, Typed(b), NEW id, NEW is_stop_loss, NEW leg_price,
         NEW leg \in OrderType, Resting(leg)
  PROVE  LET c == SpawnLeg(b, id, is_stop_loss, leg_price, leg)
         IN  Typed(c) /\ Quiet(b, c)
BY QuietReflexive, AddOrderQuiet DEF SpawnLeg

LEMMA SpawnBracketQuiet ==
  ASSUME NEW b, Typed(b), NEW id \in Ids(b)
  PROVE  Quiet(b, SpawnBracket(b, id))
<1>1. CASE b.orders[id].parent_order_id # None
  BY <1>1, QuietReflexive DEF SpawnBracket
<1>2. CASE b.orders[id].parent_order_id = None
  <2> DEFINE c == SpawnStopLoss(b, id)
             d == SpawnTarget(c, id)
             stop == b.orders[id].stop_loss_price
             target == c.orders[id].target_price
  <2>1. Typed(c) /\ Quiet(b, c)
    <3> DEFINE leg == Leg(b, id, "STOP", None, stop, "TRIGGER_PENDING")
               is_stop_loss == TRUE
    <3>0. b.orders[id] \in OrderType
      BY DEF Typed, Books, Ids
    <3>1. stop \in Nat
      BY <3>0 DEF OrderType
    <3>2. leg \in OrderType /\ Resting(leg)
      BY <3>1, LegType DEF OrderTypes, RestingStatuses, None
    <3> HIDE DEF leg, is_stop_loss
    <3>4. c = SpawnLeg(b, id, is_stop_loss, stop, leg)
      BY DEF SpawnStopLoss, leg, is_stop_loss
    <3> QED  BY <3>2, <3>4, SpawnLegQuiet
  <2> HIDE DEF c
  <2>2. id \in Ids(c)
    BY <2>1 DEF Quiet, FillsBut
  <2>3. Typed(d) /\ Quiet(c, d)
    <3> DEFINE leg == Leg(c, id, "LIMIT", target, None, "OPEN")
               is_stop_loss == FALSE
    <3>0. c.orders[id] \in OrderType
      BY <2>1, <2>2 DEF Typed, Books, Ids
    <3>1. target \in Nat
      BY <3>0 DEF OrderType
    <3>2. leg \in OrderType /\ Resting(leg)
      BY <2>1, <2>2, <3>1, LegType DEF OrderTypes, RestingStatuses, None
    <3> HIDE DEF leg, is_stop_loss
    <3>4. d = SpawnLeg(c, id, is_stop_loss, target, leg)
      BY DEF SpawnTarget, leg, is_stop_loss
    <3> QED  BY <2>1, <3>2, <3>4, SpawnLegQuiet
  <2>4. SpawnBracket(b, id) = d
    BY <1>2 DEF SpawnBracket, c
  <2> HIDE DEF d
  <2> QED  BY <2>1, <2>3, <2>4, QuietTransitive
<1> QED  BY <1>1, <1>2

\* A release, or only a pop, is about reservations.
LEMMA ReleaseQuiet ==
  ASSUME NEW b, Typed(b), NEW id
  PROVE  /\ Quiet(b, ReleaseReservation(b, id))
         /\ Quiet(b, PopReservation(b, id))
<1>1. /\ ReleaseReservation(b, id).orders = b.orders
      /\ ReleaseReservation(b, id).cash = b.cash
      /\ PopReservation(b, id).orders = b.orders
      /\ PopReservation(b, id).cash = b.cash
  BY DEF ReleaseReservation, PopReservation, Typed, Books
<1> QED  BY <1>1, SameOrdersQuiet

LEMMA CancelSiblingQuiet ==
  ASSUME NEW b, Typed(b), NEW id \in Ids(b)
  PROVE  Quiet(b, CancelSibling(b, id))
<1>1. CASE Siblings(b, id) = {}
  BY <1>1, QuietReflexive DEF CancelSibling
<1>2. CASE Siblings(b, id) # {}
  <2> DEFINE other == CHOOSE s \in Siblings(b, id) : TRUE
             r == ReleaseReservation(b, other)
             w == [b.orders[other] EXCEPT !.status = "CANCELLED"]
             c == CancelSibling(b, id)
  <2>1. other \in Siblings(b, id)
    BY <1>2
  <2>2. c = [r EXCEPT !.orders[other].status = "CANCELLED"]
    BY <1>2 DEF CancelSibling
  <2> HIDE DEF other, c
  <2>3. other \in Ids(b) /\ Resting(b.orders[other])
    BY <2>1 DEF Siblings
  <2>4. c.orders = [b.orders EXCEPT ![other] = w] /\ c.cash = b.cash
    BY <2>2 DEF ReleaseReservation, Typed, Books
  <2>5. w.status # "COMPLETE" /\ b.orders[other].status # "COMPLETE"
    <3>1. b.orders[other] \in OrderType
      BY <2>3 DEF Typed, Books, Ids
    <3> QED  BY <2>3, <3>1 DEF OrderType, Resting, RestingStatuses
  <2> HIDE DEF w
  <2> QED  BY <2>3, <2>4, <2>5, ReplaceQuiet DEF c
<1> QED  BY <1>1, <1>2

LEMMA CompleteFillsOne ==
  ASSUME NEW b, Typed(b), NEW id \in Ids(b), Resting(b.orders[id]),
         NEW o \in OrderType, NEW px \in Nat
  PROVE  FillsOne(b, Complete(b, id, o, px), id)
<1> DEFINE c == Complete(b, id, o, px)
           f == [o EXCEPT !.status = "COMPLETE", !.average_fill_price = px]
<1>1. /\ c.orders = [b.orders EXCEPT ![id] = f]
      /\ c.cash = IF o.side = "BUY" THEN b.cash - o.quantity * px ELSE b.cash + o.quantity * px
  BY DEF Complete, Typed, Books
<1>2. /\ f.status = "COMPLETE" /\ f.average_fill_price = px
      /\ f.side = o.side /\ f.quantity = o.quantity
  BY DEF OrderType
<1>3. c.cash = b.cash - Cost(f)
  <2> DEFINE n == o.quantity * px
  <2>1. n \in Int /\ b.cash \in Int
    BY ProductIsNat DEF OrderType, Typed, Books
  <2>2. Cost(f) = Sign(o.side) * n
    BY <1>2 DEF Cost
  <2> HIDE DEF n
  <2>3. CASE o.side = "BUY"
    BY <1>1, <2>1, <2>2, <2>3 DEF Sign, n
  <2>4. CASE o.side # "BUY"
    <3>1. Cost(f) = 0 - n
      BY <2>1, <2>2, <2>4 DEF Sign
    <3>2. c.cash = b.cash + n
      BY <1>1, <2>4 DEF n
    <3> HIDE DEF c
    <3> QED  BY <2>1, <3>1, <3>2
  <2> QED  BY <2>3, <2>4
<1> HIDE DEF c, f
<1>4. /\ Ids(c) = Ids(b)
      /\ c.orders[id] = f
      /\ \A i \in Ids(b) : i # id => c.orders[i] = b.orders[i]
  BY <1>1 DEF Typed, Books, Ids
<1>5. b.orders[id].status # "COMPLETE"
  BY DEF Resting, RestingStatuses
<1> QED  BY <1>2, <1>3, <1>4, <1>5 DEF FillsOne, FillsBut, Filled, c

\* A candidate that is looked at fills or nothing does.
LEMMA SettledFills ==
  ASSUME NEW b, Sound(b), NEW id \in Ids(b), Resting(b.orders[id]),
         NEW px \in Nat, ~SettleRaises(b, id, px)
  PROVE  \/ Quiet(b, Settled(b, id, px))
         \/ FillsOne(b, Settled(b, id, px), id)
<1> DEFINE o == Working(b.orders[id], px)
           w == [o EXCEPT !.status = "REJECTED"]
           r == ReleaseReservation(b, id)
           m == Complete(r, id, o, px)
           d == CancelSibling(m, id)
           e == SpawnBracket(d, id)
<1>1. Typed(b) /\ b.orders[id] \in OrderType
  BY DEF Sound, SoundBut, Typed, Books, Ids
<1>2. o \in OrderType /\ Resting(o)
      /\ o.side = b.orders[id].side
      /\ o.parent_order_id = b.orders[id].parent_order_id
  BY <1>1, WorkingType
<1>3. b.orders[id].status # "COMPLETE" /\ o.status # "COMPLETE" /\ w.status # "COMPLETE"
  BY <1>2 DEF Resting, RestingStatuses, OrderType
<1>4. CASE ~Fills(o, px)
  <2>1. Settled(b, id, px).orders = [b.orders EXCEPT ![id] = o]
        /\ Settled(b, id, px).cash = b.cash
    BY <1>1, <1>4 DEF Settled, Typed, Books
  <2> HIDE DEF o
  <2> QED  BY <1>1, <1>3, <2>1, ReplaceQuiet
<1>5. ASSUME Fills(o, px)
      PROVE  /\ Sound(r)
             /\ r.orders = b.orders
             /\ r.reservations[id] = 0
             /\ id \in Ids(r)
             /\ r.cash = b.cash
  <2>1. CanRelease(b, id)
    BY <1>5 DEF SettleRaises
  <2>2. /\ Sound(r)
        /\ r.orders = b.orders
        /\ r.cash = b.cash
        /\ r.reservations = [b.reservations EXCEPT ![id] = 0]
    BY <2>1, ReleaseSound DEF Sound
  <2> QED  BY <2>2 DEF Sound, SoundBut, Typed, Books, Ids
<1>6. CASE Fills(o, px) /\ ~Affordable(r, o, px)
  <2>1. Settled(b, id, px).orders = [b.orders EXCEPT ![id] = w]
        /\ Settled(b, id, px).cash = b.cash
    BY <1>5, <1>6 DEF Settled, Reject, Sound, SoundBut, Typed, Books
  <2> HIDE DEF w
  <2> QED  BY <1>1, <1>3, <2>1, ReplaceQuiet
<1>7. CASE Fills(o, px) /\ Affordable(r, o, px)
  <2>1. /\ Settled(b, id, px) = e
        /\ ~SiblingReleaseFails(m, id)
    BY <1>7 DEF Settled, SettleRaises
  <2> HIDE DEF o, r
  <2>2. /\ Typed(r) /\ Quiet(b, r) /\ Resting(r.orders[id]) /\ id \in Ids(r)
    BY <1>5, <1>7, SameOrdersQuiet DEF Sound, SoundBut
  <2>3. FillsOne(r, m, id)
    BY <1>2, <2>2, CompleteFillsOne
  <2>4. /\ SoundBut(m, id)
        /\ m.orders[id].status = "COMPLETE"
        /\ Ids(m) = Ids(r)
    <3>1. /\ Sound(r) /\ r.reservations[id] = 0 /\ id \in Ids(r)
          /\ Resting(r.orders[id])
          /\ o.side = r.orders[id].side
          /\ o.parent_order_id = r.orders[id].parent_order_id
          /\ Affordable(r, o, px)
      BY <1>2, <1>5, <1>7
    <3> QED  BY ONLY <1>2, <3>1, px \in Nat, CompleteSound
  <2> HIDE DEF m
  <2>5. Sound(d) /\ Ids(d) = Ids(m)
    BY <2>1, <2>2, <2>4, CancelSiblingSound
  <2>6. Quiet(m, d)
    BY <2>2, <2>4, CancelSiblingQuiet DEF SoundBut
  <2> HIDE DEF d
  <2>7. Quiet(d, e)
    BY <2>2, <2>4, <2>5, SpawnBracketQuiet DEF Sound, SoundBut
  <2> HIDE DEF e
  <2>8. Quiet(m, e)
    BY <2>6, <2>7, QuietTransitive
  <2>9. FillsOne(b, m, id)
    BY <2>2, <2>3, QuietThenFillsOne
  <2>10. FillsOne(b, e, id)
    BY <2>8, <2>9, FillsOneThenQuiet
  <2> QED  BY <2>1, <2>10
<1> QED  BY <1>4, <1>6, <1>7

LEMMA HalfSettledFills ==
  ASSUME NEW b, Sound(b), NEW id \in Ids(b), Resting(b.orders[id]),
         NEW px \in Nat, SettleRaises(b, id, px)
  PROVE  \/ Quiet(b, HalfSettled(b, id, px))
         \/ FillsOne(b, HalfSettled(b, id, px), id)
<1> DEFINE o == Working(b.orders[id], px)
           r == ReleaseReservation(b, id)
           m == Complete(r, id, o, px)
           other == CHOOSE s \in Siblings(m, id) : TRUE
<1>1. Typed(b) /\ b.orders[id] \in OrderType
  BY DEF Sound, SoundBut, Typed, Books, Ids
<1>2. CASE ~CanRelease(b, id)
  BY <1>1, <1>2, ReleaseQuiet DEF HalfSettled
<1>3. CASE CanRelease(b, id)
  <2>1. o \in OrderType /\ o.side = b.orders[id].side
        /\ o.parent_order_id = b.orders[id].parent_order_id
    BY <1>1, WorkingType
  <2>2. Affordable(r, o, px)
    BY <1>3 DEF SettleRaises
  <2>3. /\ Sound(r)
        /\ r.orders = b.orders
        /\ r.cash = b.cash
        /\ r.reservations = [b.reservations EXCEPT ![id] = 0]
    BY <1>3, ReleaseSound DEF Sound
  <2>4. HalfSettled(b, id, px) = PopReservation(m, other)
    BY <1>3 DEF HalfSettled, PopSibling
  <2>5. /\ Typed(r) /\ Quiet(b, r) /\ Resting(r.orders[id]) /\ id \in Ids(r)
        /\ r.reservations[id] = 0
    <3>1. Typed(r) /\ id \in Ids(r) /\ r.reservations[id] = 0
      BY <2>3 DEF Sound, SoundBut, Typed, Books, Ids
    <3> HIDE DEF r
    <3> QED  BY <2>3, <3>1, SameOrdersQuiet
  <2> HIDE DEF o, r
  <2>6. FillsOne(b, m, id)
    <3>1. FillsOne(r, m, id)
      BY <2>1, <2>5, CompleteFillsOne
    <3> HIDE DEF m
    <3> QED  BY <2>5, <3>1, QuietThenFillsOne
  <2>7. Typed(m)
    <3>1. /\ Sound(r) /\ r.reservations[id] = 0 /\ id \in Ids(r)
          /\ Resting(r.orders[id])
          /\ o.side = r.orders[id].side
          /\ o.parent_order_id = r.orders[id].parent_order_id
          /\ Affordable(r, o, px)
      BY <2>1, <2>2, <2>3, <2>5
    <3>2. SoundBut(m, id) /\ m.orders[id].status = "COMPLETE" /\ Ids(m) = Ids(r)
      BY ONLY <2>1, <3>1, px \in Nat, CompleteSound
    <3> QED  BY <3>2 DEF SoundBut
  <2> HIDE DEF m, other
  <2>8. Quiet(m, PopReservation(m, other))
    BY <2>7, ReleaseQuiet
  <2> QED  BY <2>4, <2>6, <2>8, FillsOneThenQuiet
<1> QED  BY <1>2, <1>3

-----------------------------------------------------------------------------
(***************************************************************************)
(* What a fill does to a queue of units.                                   *)
(***************************************************************************)
Unit == [entry : Nat, side : Sides, price : Nat]

\* All the units of a queue are on one side.
OneSided(q) == \A i \in 1..Len(q) : q[i].side = q[1].side

\* What a unit cost, as a map to sum along a queue.
Paid == [u \in Unit |-> Sign(u.side) * u.price]

\* Whether a unit comes from the order e, as a number.
IsOf(e) == [u \in Unit |-> IF u.entry = e THEN 1 ELSE 0]

\* The units of a queue that come from the order e.
Of(q, e) == {i \in 1..Len(q) : q[i].entry = e}

\* NetQuantity, of a queue.
Net(q) == IF q = <<>> THEN 0 ELSE Sign(q[1].side) * Len(q)

LEMMA MinOfTwo ==
  ASSUME NEW m \in Nat, NEW n \in Nat
  PROVE  Min({m, n}) = IF m <= n THEN m ELSE n
<1>1. \E x \in {m, n} : \A y \in {m, n} : x <= y
  OBVIOUS
<1>2. Min({m, n}) \in {m, n} /\ \A y \in {m, n} : Min({m, n}) <= y
  <2> DEFINE x == CHOOSE x \in {m, n} : \A y \in {m, n} : x <= y
  <2>1. x \in {m, n} /\ \A y \in {m, n} : x <= y
    BY <1>1
  <2>2. Min({m, n}) = x
    BY DEF Min
  <2> HIDE DEF x
  <2> QED  BY <2>1, <2>2
<1> QED  BY <1>2

LEMMA SignType == \A side : Sign(side) \in {1, -1}
BY DEF Sign

LEMMA PaidType == Paid \in [Unit -> Int] /\ \A e : IsOf(e) \in [Unit -> Int]
<1>1. \A u \in Unit : Sign(u.side) * u.price \in Int
  <2> TAKE u \in Unit
  <2>1. u.price \in Int
    BY DEF Unit
  <2> QED  BY <2>1 DEF Sign
<1> QED  BY <1>1 DEF Paid, IsOf

LEMMA ConcatParts ==
  ASSUME NEW a \in Seq(Unit), NEW b \in Seq(Unit)
  PROVE  /\ a \o b \in Seq(Unit)
         /\ Len(a \o b) = Len(a) + Len(b)
         /\ \A i \in 1..Len(a) : (a \o b)[i] = a[i]
         /\ \A i \in 1..Len(b) : (a \o b)[i + Len(a)] = b[i]
  OBVIOUS

\* What a fill of n units by the order id at px takes from the front of a
\* queue, keeps of it, and opens.
Parts(q, side, n, px, id, c, closed, kept, opened) ==
    /\ c \in Nat /\ c <= n /\ c <= Len(q)
    /\ c # 0 => q[1].side # side
    /\ c # n => c = Len(q) \/ q[1].side = side
    /\ closed \in Seq(Unit) /\ Len(closed) = c
    /\ \A i \in 1..c : closed[i] = q[i]
    /\ kept \in Seq(Unit) /\ Len(kept) = Len(q) - c
    /\ \A i \in 1..(Len(q) - c) : kept[i] = q[i + c]
    /\ opened \in Seq(Unit) /\ Len(opened) = n - c
    /\ \A i \in 1..(n - c) : opened[i] = [entry |-> id, side |-> side, price |-> px]
    /\ q = closed \o kept

LEMMA QueueParts ==
  ASSUME NEW q \in Seq(Unit), NEW side \in Sides, NEW n \in Nat, NEW px \in Nat, NEW id \in Nat
  PROVE  Parts(q, side, n, px, id, CloseCount(q, side, n), Closed(q, side, n),
               Kept(q, side, n), Opened(q, side, n, px, id))
<1> DEFINE c == CloseCount(q, side, n)
           closed == Closed(q, side, n)
           kept == Kept(q, side, n)
           opened == Opened(q, side, n, px, id)
           u == [entry |-> id, side |-> side, price |-> px]
<1>1. /\ c \in Nat /\ c <= n /\ c <= Len(q)
      /\ c # 0 => q[1].side # side
      /\ c # n => c = Len(q) \/ q[1].side = side
  <2>1. Len(q) \in Nat /\ (q = <<>> <=> Len(q) = 0)
    OBVIOUS
  <2>2. CASE q # <<>> /\ q[1].side # side
    <3>1. c = IF Len(q) <= n THEN Len(q) ELSE n
      BY <2>1, <2>2, MinOfTwo DEF CloseCount
    <3> QED  BY <2>1, <2>2, <3>1
  <2>3. CASE ~(q # <<>> /\ q[1].side # side)
    BY <2>1, <2>3 DEF CloseCount
  <2> QED  BY <2>2, <2>3
<1>2. closed = SubSeq(q, 1, c) /\ kept = SubSeq(q, c + 1, Len(q))
  BY DEF Closed, Kept
<1>3. u \in Unit
  BY DEF Unit
<1>4. opened = [i \in 1..(n - c) |-> u]
  BY DEF Opened
<1> HIDE DEF c, closed, kept, opened, u
<1>5. /\ closed \in Seq(Unit) /\ Len(closed) = c
      /\ \A i \in 1..c : closed[i] = q[i]
  BY <1>1, <1>2
<1>6. /\ kept \in Seq(Unit) /\ Len(kept) = Len(q) - c
      /\ \A i \in 1..(Len(q) - c) : kept[i] = q[i + c]
  BY <1>1, <1>2
<1>7. /\ opened \in Seq(Unit) /\ Len(opened) = n - c
      /\ \A i \in 1..(n - c) : opened[i] = u
  BY <1>1, <1>3, <1>4
<1>8. q = closed \o kept
  <2>1. /\ closed \o kept \in Seq(Unit)
        /\ Len(closed \o kept) = Len(closed) + Len(kept)
        /\ \A i \in 1..Len(closed) : (closed \o kept)[i] = closed[i]
        /\ \A i \in 1..Len(kept) : (closed \o kept)[i + Len(closed)] = kept[i]
    BY <1>5, <1>6, ConcatParts
  <2>2. Len(q) \in Nat
    OBVIOUS
  <2>3. \A i \in 1..Len(q) : q[i] = (closed \o kept)[i]
    <3> TAKE i \in 1..Len(q)
    <3>1. CASE i \in 1..c
      BY <1>5, <2>1, <3>1
    <3>2. CASE i \notin 1..c
      <4>1. i - c \in 1..(Len(q) - c) /\ (i - c) + c = i
        BY <1>1, <2>2, <3>2
      <4> QED  BY <1>5, <1>6, <2>1, <4>1
    <3> QED  BY <3>1, <3>2
  <2>4. Len(q) = Len(closed \o kept)
    BY <1>1, <1>5, <1>6, <2>1, <2>2
  <2> DEFINE w == closed \o kept
  <2> HIDE DEF w
  <2>5. q = w
    BY <2>1, <2>3, <2>4, SeqEqual DEF w
  <2> QED  BY <2>5 DEF w
<1>9. Parts(q, side, n, px, id, c, closed, kept, opened)
  BY <1>1, <1>5, <1>6, <1>7, <1>8 DEF Parts, u
<1> QED  BY <1>9 DEF c, closed, kept, opened

\* The queue a fill leaves is on one side, and longer or shorter by the fill.
LEMMA FillOneSided ==
  ASSUME NEW q \in Seq(Unit), OneSided(q), NEW side \in Sides, NEW n \in Nat \ {0},
         NEW px \in Nat, NEW id \in Nat
  PROVE  LET now == Kept(q, side, n) \o Opened(q, side, n, px, id)
         IN  /\ now \in Seq(Unit)
             /\ OneSided(now)
             /\ Net(now) = Net(q) + Sign(side) * n
<1> DEFINE c == CloseCount(q, side, n)
           closed == Closed(q, side, n)
           kept == Kept(q, side, n)
           opened == Opened(q, side, n, px, id)
           now == kept \o opened
<1>1. Parts(q, side, n, px, id, c, closed, kept, opened)
  BY QueueParts
<1> HIDE DEF c, closed, kept, opened
<1>2. /\ now \in Seq(Unit)
      /\ Len(now) = Len(kept) + Len(opened)
      /\ \A i \in 1..Len(kept) : now[i] = kept[i]
      /\ \A i \in 1..Len(opened) : now[i + Len(kept)] = opened[i]
  BY <1>1, ConcatParts DEF Parts
<1> HIDE DEF now
<1>3. Len(q) \in Nat /\ (q = <<>> <=> Len(q) = 0) /\ (now = <<>> <=> Len(now) = 0)
      /\ Len(now) \in Nat
  BY <1>2
<1>4. c \in Nat /\ c <= n /\ c <= Len(q) /\ Len(kept) = Len(q) - c /\ Len(opened) = n - c
      /\ Len(now) = (Len(q) - c) + (n - c)
  BY <1>1, <1>2, <1>3 DEF Parts
<1>5. /\ \A i \in 1..(Len(q) - c) : now[i] = q[i + c]
      /\ \A i \in 1..(n - c) : now[i + (Len(q) - c)].side = side
  <2>1. \A i \in 1..(Len(q) - c) : now[i] = q[i + c]
    BY <1>1, <1>2, <1>4 DEF Parts
  <2>2. \A i \in 1..(n - c) : opened[i].side = side
    BY <1>1 DEF Parts
  <2> QED  BY <1>2, <1>4, <2>1, <2>2
<1>6. /\ c # 0 => q[1].side # side
      /\ c # n => c = Len(q) \/ q[1].side = side
  BY <1>1 DEF Parts
<1>7. \A i \in 1..(Len(q) - c) : now[i].side = q[1].side
  <2> TAKE i \in 1..(Len(q) - c)
  <2>1. i + c \in 1..Len(q)
    BY <1>3, <1>4
  <2> QED  BY <1>5, <2>1 DEF OneSided
<1>8. CASE c = n
  <2>1. Len(now) = Len(q) - n /\ q[1].side # side /\ q # <<>>
    BY <1>3, <1>4, <1>6, <1>8
  <2>2. \A i \in 1..Len(now) : now[i].side = q[1].side
    BY <1>7, <1>8, <2>1
  <2>3. OneSided(now)
    BY <1>3, <2>2 DEF OneSided
  <2>4. Net(now) = Sign(q[1].side) * (Len(q) - n)
    <3>1. CASE now = <<>>
      BY <1>3, <2>1, <3>1, SignType DEF Net
    <3>2. CASE now # <<>>
      BY <1>3, <2>1, <2>2, <3>2 DEF Net
    <3> QED  BY <3>1, <3>2
  <2>5. Sign(q[1].side) = -Sign(side)
    <3>1. q[1] \in Unit
      BY <1>3, <2>1
    <3> QED  BY <2>1, <3>1 DEF Unit, Sides, Sign
  <2>6. Net(q) = Sign(q[1].side) * Len(q)
    BY <2>1 DEF Net
  <2>7. Net(now) = Net(q) + Sign(side) * n
    BY <1>3, <2>4, <2>5, <2>6, SignType
  <2> QED  BY <1>2, <2>3, <2>7 DEF now, kept, opened
<1>9. CASE c # n
  <2>1. now # <<>>
    BY <1>3, <1>4, <1>9
  <2>2. \A i \in 1..Len(now) : now[i].side = side
    <3> TAKE i \in 1..Len(now)
    <3>1. CASE i \in 1..(Len(q) - c)
      <4>1. c # Len(q) /\ now[i].side = q[1].side
        BY <1>3, <1>4, <1>7, <3>1
      <4> QED  BY <1>6, <1>9, <4>1
    <3>2. CASE i \notin 1..(Len(q) - c)
      <4>1. i - (Len(q) - c) \in 1..(n - c) /\ (i - (Len(q) - c)) + (Len(q) - c) = i
        BY <1>3, <1>4, <3>2
      <4> QED  BY <1>5, <4>1
    <3> QED  BY <3>1, <3>2
  <2>3. OneSided(now) /\ now[1].side = side
    BY <1>3, <2>1, <2>2 DEF OneSided
  <2>4. Net(now) = Sign(side) * ((Len(q) - c) + (n - c))
    BY <1>4, <2>1, <2>3 DEF Net
  <2>5. Net(now) = Net(q) + Sign(side) * n
    <3>1. CASE q = <<>>
      <4>1. c = 0 /\ Len(q) = 0 /\ Net(q) = 0
        BY <1>3, <1>4, <3>1 DEF Net
      <4> QED  BY <2>4, <4>1, SignType
    <3>2. CASE q # <<>> /\ c = 0
      <4>1. q[1].side = side
        BY <1>3, <1>6, <1>9, <3>2
      <4>2. Net(q) = Sign(side) * Len(q)
        BY <3>2, <4>1 DEF Net
      <4> QED  BY <1>3, <2>4, <3>2, <4>2, SignType
    <3>3. CASE q # <<>> /\ c # 0
      <4>1. q[1].side # side /\ c = Len(q)
        BY <1>6, <1>9, <3>3
      <4>2. Sign(q[1].side) = -Sign(side)
        <5>1. q[1] \in Unit
          BY <1>3, <3>3
        <5> QED  BY <4>1, <5>1 DEF Unit, Sides, Sign
      <4>3. Net(q) = Sign(q[1].side) * Len(q)
        BY <3>3 DEF Net
      <4> QED  BY <1>3, <2>4, <4>1, <4>2, <4>3, SignType
    <3> QED  BY <3>1, <3>2, <3>3
  <2> QED  BY <1>2, <2>3, <2>5 DEF now, kept, opened
<1> QED  BY <1>8, <1>9

LEMMA SplitProduct ==
  \A n, c, v \in Int : /\ (n - c) * v = n * v - c * v
                       /\ c * (-v) = -(c * v)
                       /\ n * v \in Int /\ c * v \in Int
  OBVIOUS

\* What is realized and what is paid make up the change of what is open.
LEMMA FillCost ==
  ASSUME NEW q \in Seq(Unit), OneSided(q), NEW side \in Sides, NEW n \in Nat \ {0},
         NEW px \in Nat, NEW id \in Nat
  PROVE  LET now == Kept(q, side, n) \o Opened(q, side, n, px, id)
         IN  /\ SumOf(Paid, q) \in Int
             /\ RealizedPnl(Closed(q, side, n), px) \in Int
             /\ SumOf(Paid, now) = SumOf(Paid, q) + RealizedPnl(Closed(q, side, n), px)
                                     + Sign(side) * (n * px)
<1> DEFINE c == CloseCount(q, side, n)
           closed == Closed(q, side, n)
           kept == Kept(q, side, n)
           opened == Opened(q, side, n, px, id)
           v == Sign(side) * px
           pnl == [i \in 1..Len(closed) |-> UnitPnl(closed[i], px)]
           paid == Mapped(Paid, closed)
           both == [i \in 1..Len(closed) |-> -v]
           new == Mapped(Paid, opened)
           S == 1..c
           R == 1..(n - c)
<1>1. Parts(q, side, n, px, id, c, closed, kept, opened)
  BY QueueParts
<1>2. v \in Int
  BY SignType
<1> HIDE DEF c, closed, kept, opened
<1>3. /\ c \in Nat /\ c <= n /\ n - c \in Nat
      /\ closed \in Seq(Unit) /\ Len(closed) = c
      /\ kept \in Seq(Unit)
      /\ opened \in Seq(Unit) /\ Len(opened) = n - c
      /\ q = closed \o kept
  BY <1>1 DEF Parts
<1>4. \A i \in S : /\ closed[i] \in Unit
                   /\ Sign(closed[i].side) = -Sign(side)
                   /\ closed[i].price \in Nat
  <2> TAKE i \in S
  <2>1. closed[i] \in Unit
    BY <1>3
  <2>2. closed[i].side = q[1].side /\ q[1].side # side
    <3>1. closed[i] = q[i] /\ i \in 1..Len(q) /\ q[1].side # side
      BY <1>1 DEF Parts
    <3> QED  BY <3>1 DEF OneSided
  <2>3. Sign(closed[i].side) = -Sign(side)
    BY <2>1, <2>2 DEF Unit, Sides, Sign
  <2> QED  BY <2>1, <2>3 DEF Unit
<1>5. \A i \in S : paid[i] \in Int /\ pnl[i] \in Int /\ both[i] = paid[i] + pnl[i] /\ both[i] = -v
  <2> TAKE i \in S
  <2> DEFINE p == closed[i].price
             sg == Sign(side)
  <2>1. paid[i] = (-sg) * p
    BY <1>3, <1>4 DEF Mapped, Paid
  <2>2. pnl[i] = (-sg) * (px - p)
    BY <1>3, <1>4 DEF UnitPnl
  <2>3. both[i] = -(sg * px)
    BY <1>3
  <2>4. p \in Nat /\ sg \in {1, -1}
    BY <1>4, SignType
  <2> HIDE DEF p, paid, pnl, both, sg
  <2>5. both[i] = paid[i] + pnl[i] /\ paid[i] \in Int /\ pnl[i] \in Int
    BY <2>1, <2>2, <2>3, <2>4
  <2> QED  BY <2>3, <2>5 DEF sg
<1>6. /\ IsFiniteSet(S) /\ Cardinality(S) = c
      /\ IsFiniteSet(R) /\ Cardinality(R) = n - c
  <2>1. \A m \in Nat : IsFiniteSet(1..m) /\ Cardinality(1..m) = m
    BY FS_Interval
  <2> QED  BY <1>3, <2>1
<1>7. /\ DOMAIN paid = S /\ DOMAIN pnl = S /\ DOMAIN new = R
      /\ \A i \in R : new[i] = v
  <2>1. DOMAIN paid = S /\ DOMAIN pnl = S /\ DOMAIN new = R
    BY <1>3 DEF Mapped
  <2> SUFFICES ASSUME NEW i \in R PROVE new[i] = v
    BY <2>1
  <2>2. opened[i] = [entry |-> id, side |-> side, price |-> px]
    BY <1>1 DEF Parts
  <2>3. opened[i] \in Unit
    BY <1>3
  <2> QED  BY <1>3, <2>2, <2>3 DEF Mapped, Paid
<1> HIDE DEF S, R, v, pnl, paid, both, new
<1>8. c * (-v) = SumOf(Paid, closed) + RealizedPnl(closed, px)
  <2>1. SumFunctionOnSet(both, S) = c * (-v)
    BY <1>2, <1>5, <1>6, SumConstant
  <2>2. SumFunctionOnSet(both, S) = SumFunctionOnSet(paid, S) + SumFunctionOnSet(pnl, S)
    BY <1>5, <1>6, SumPlus
  <2>3. SumFunctionOnSet(paid, S) = SumOf(Paid, closed)
    BY <1>7 DEF SumOf, SumFunction, paid
  <2>4. SumFunctionOnSet(pnl, S) = RealizedPnl(closed, px)
    BY <1>7 DEF RealizedPnl, SumFunction, pnl
  <2> QED  BY <2>1, <2>2, <2>3, <2>4
<1>9. RealizedPnl(closed, px) \in Int
  <2>1. SumFunctionOnSet(pnl, S) \in Int
    BY <1>5, <1>6, SumIsInt
  <2> QED  BY <1>7, <2>1 DEF RealizedPnl, SumFunction, pnl
<1>10. SumOf(Paid, opened) = (n - c) * v
  <2>1. SumFunctionOnSet(new, R) = (n - c) * v
    BY <1>2, <1>6, <1>7, SumConstant
  <2> QED  BY <1>7, <2>1 DEF SumOf, SumFunction, new
<1>11. /\ SumOf(Paid, q) = SumOf(Paid, closed) + SumOf(Paid, kept)
       /\ SumOf(Paid, kept \o opened) = SumOf(Paid, kept) + SumOf(Paid, opened)
       /\ SumOf(Paid, closed) \in Int /\ SumOf(Paid, kept) \in Int
       /\ SumOf(Paid, q) \in Int
  <2>1. \A a, b \in Seq(Unit) : SumOf(Paid, a \o b) = SumOf(Paid, a) + SumOf(Paid, b)
    BY PaidType, SumOfConcat
  <2>2. \A a \in Seq(Unit) : SumOf(Paid, a) \in Int
    BY PaidType, SumOfIsInt
  <2> QED  BY <1>3, <2>1, <2>2
<1>12. Sign(side) * (n * px) = n * v
  BY SignType DEF v
<1>13. (n - c) * v = n * v - c * v /\ c * (-v) = -(c * v) /\ c * v \in Int /\ n * v \in Int
  BY <1>2, <1>3, SplitProduct
<1>14. SumOf(Paid, kept \o opened) = SumOf(Paid, q) + RealizedPnl(closed, px) + n * v
  <2> DEFINE nv == n * v
             cv == c * v
  <2>1. nv \in Int /\ cv \in Int /\ (n - c) * v = nv - cv /\ c * (-v) = -cv
    BY <1>13
  <2> DEFINE all == SumOf(Paid, kept \o opened)
             was == SumOf(Paid, q)
             gone == SumOf(Paid, closed)
             rest == SumOf(Paid, kept)
             pl == RealizedPnl(closed, px)
  <2>2. /\ all = rest + (nv - cv) /\ was = gone + rest /\ -cv = gone + pl
        /\ gone \in Int /\ rest \in Int /\ was \in Int /\ pl \in Int
    BY <1>8, <1>9, <1>10, <1>11, <2>1
  <2> HIDE DEF nv, cv, all, was, gone, rest, pl
  <2>3. all = was + pl + nv
    BY <2>1, <2>2
  <2> QED  BY <2>3 DEF nv, all, was, pl
<1> QED  BY <1>9, <1>11, <1>12, <1>14 DEF closed, kept, opened

\* Counting the units of an order.
LEMMA CountOf ==
  ASSUME NEW q \in Seq(Unit), NEW e
  PROVE  /\ IsFiniteSet(Of(q, e))
         /\ Cardinality(Of(q, e)) \in Nat
         /\ Cardinality(Of(q, e)) = SumOf(IsOf(e), q)
<1> DEFINE S == 1..Len(q)
           m == Mapped(IsOf(e), q)
<1>1. IsFiniteSet(S) /\ Of(q, e) \subseteq S
  BY FS_Interval DEF Of
<1>2. DOMAIN m = S /\ \A i \in S : m[i] = IF i \in Of(q, e) THEN 1 ELSE 0
  <2>1. \A i \in S : q[i] \in Unit
    OBVIOUS
  <2> QED  BY <2>1 DEF Mapped, IsOf, Of
<1> HIDE DEF S, m
<1>3. SumFunctionOnSet(m, S) = Cardinality(Of(q, e))
  BY <1>1, <1>2, SumIndicator
<1>4. IsFiniteSet(Of(q, e))
  BY <1>1, FS_Subset
<1> QED  BY <1>2, <1>3, <1>4, FS_CardinalityType DEF SumOf, SumFunction, m

LEMMA CountConcat ==
  ASSUME NEW a \in Seq(Unit), NEW b \in Seq(Unit), NEW e
  PROVE  Cardinality(Of(a \o b, e)) = Cardinality(Of(a, e)) + Cardinality(Of(b, e))
<1>1. a \o b \in Seq(Unit)
  OBVIOUS
<1> DEFINE f == IsOf(e)
<1>2. f \in [Unit -> Int]
  BY PaidType
<1> HIDE DEF f
<1>3. SumOf(f, a \o b) = SumOf(f, a) + SumOf(f, b)
  BY <1>2, SumOfConcat
<1>4. \A q \in Seq(Unit) : Cardinality(Of(q, e)) = SumOf(f, q)
  BY CountOf DEF f
<1> QED  BY <1>1, <1>3, <1>4

\* Where the units of each order go in a fill.
LEMMA FillCounts ==
  ASSUME NEW q \in Seq(Unit), NEW side \in Sides, NEW n \in Nat \ {0},
         NEW px \in Nat, NEW id \in Nat, \A i \in 1..Len(q) : q[i].entry # id
  PROVE  LET now == Kept(q, side, n) \o Opened(q, side, n, px, id)
             closed == Closed(q, side, n)
         IN  /\ \A e \in Nat \ {id} :
                  Cardinality(Of(now, e)) + Cardinality(Of(closed, e)) = Cardinality(Of(q, e))
             /\ Cardinality(Of(now, id)) + Len(closed) = n
<1> DEFINE c == CloseCount(q, side, n)
           closed == Closed(q, side, n)
           kept == Kept(q, side, n)
           opened == Opened(q, side, n, px, id)
           now == kept \o opened
<1>1. Parts(q, side, n, px, id, c, closed, kept, opened)
  BY QueueParts
<1> HIDE DEF c, closed, kept, opened
<1>2. /\ c \in Nat /\ n - c \in Nat
      /\ closed \in Seq(Unit) /\ Len(closed) = c
      /\ kept \in Seq(Unit) /\ opened \in Seq(Unit) /\ Len(opened) = n - c
      /\ q = closed \o kept
  BY <1>1 DEF Parts
<1>3. \A e \in Nat \ {id} : Cardinality(Of(opened, e)) = 0
  <2> TAKE e \in Nat \ {id}
  <2>1. Of(opened, e) = {}
    BY <1>1 DEF Of, Parts
  <2> QED  BY <2>1, FS_EmptySet
<1>4. Cardinality(Of(opened, id)) = n - c
  <2>1. Of(opened, id) = 1..(n - c)
    BY <1>1 DEF Of, Parts
  <2>2. \A m \in Nat : Cardinality(1..m) = m
    BY FS_Interval
  <2> QED  BY <1>2, <2>1, <2>2
<1>5. Cardinality(Of(kept, id)) = 0
  <2>1. \A i \in 1..Len(kept) : i + c \in 1..Len(q) /\ kept[i] = q[i + c]
    BY <1>1 DEF Parts
  <2>2. Of(kept, id) = {}
    BY <2>1 DEF Of
  <2> QED  BY <2>2, FS_EmptySet
<1>6. \A e : Cardinality(Of(kept, e)) \in Nat /\ Cardinality(Of(closed, e)) \in Nat
  BY <1>2, CountOf
<1>7. \A e : /\ Cardinality(Of(q, e)) = Cardinality(Of(closed, e)) + Cardinality(Of(kept, e))
             /\ Cardinality(Of(now, e)) = Cardinality(Of(kept, e)) + Cardinality(Of(opened, e))
  BY <1>2, CountConcat
<1>8. \A e \in Nat \ {id} :
        Cardinality(Of(now, e)) + Cardinality(Of(closed, e)) = Cardinality(Of(q, e))
  BY <1>3, <1>6, <1>7
<1>9. Cardinality(Of(now, id)) + Len(closed) = n
  BY <1>2, <1>4, <1>5, <1>7
<1> QED  BY <1>8, <1>9 DEF closed, kept, opened

-----------------------------------------------------------------------------


(***************************************************************************)
(* The trades of one fill.                                                 *)
(***************************************************************************)
Entries(units) == {units[i].entry : i \in 1..Len(units)}

\* What each of the units realizes.
Pnls(units, px) == [i \in 1..Len(units) |-> UnitPnl(units[i], px)]

TradeOf(units, px, id, e) ==
    [entry |-> e, exit |-> id, quantity |-> Cardinality(Of(units, e)),
     pnl |-> SumFunctionOnSet(Pnls(units, px), Of(units, e))]

LEMMA TradesAre ==
  ASSUME NEW units, NEW px, NEW id
  PROVE  ClosedTrades(units, px, id) = {TradeOf(units, px, id, e) : e \in Entries(units)}
BY DEF ClosedTrades, TradeOf, Entries, Pnls, Of

LEMMA PnlsType ==
  ASSUME NEW units \in Seq(Unit), NEW px \in Nat
  PROVE  /\ DOMAIN Pnls(units, px) = 1..Len(units)
         /\ \A i \in 1..Len(units) : Pnls(units, px)[i] \in Int
<1>1. \A i \in 1..Len(units) : UnitPnl(units[i], px) \in Int
  <2> TAKE i \in 1..Len(units)
  <2>1. units[i] \in Unit
    OBVIOUS
  <2>2. units[i].price \in Int
    BY <2>1 DEF Unit
  <2> QED  BY <2>2 DEF UnitPnl, Sign
<1> QED  BY <1>1 DEF Pnls

\* Each trade is that of one entry.
LEMMA TradesType ==
  ASSUME NEW units \in Seq(Unit), NEW px \in Nat, NEW id \in Nat
  PROVE  LET all == ClosedTrades(units, px, id)
         IN  /\ IsFiniteSet(Entries(units))
             /\ IsFiniteSet(all)
             /\ \A t \in all : /\ t.entry \in Entries(units)
                               /\ t = TradeOf(units, px, id, t.entry)
                               /\ t.exit = id
                               /\ t.quantity \in Nat
                               /\ t.pnl \in Int
<1> DEFINE S == 1..Len(units)
           E == Entries(units)
           trade == [e \in E |-> TradeOf(units, px, id, e)]
           entry == [i \in S |-> units[i].entry]
<1>1. IsFiniteSet(S)
  <2>1. Len(units) \in Nat
    OBVIOUS
  <2> QED  BY <2>1, IndicesFinite
<1>2. E = {entry[i] : i \in S}
  BY DEF Entries
<1>3. IsFiniteSet(E)
  <2> HIDE DEF E, S, entry
  <2> QED  BY <1>1, <1>2, FiniteImage
<1>4. ClosedTrades(units, px, id) = {trade[e] : e \in E}
  BY TradesAre
<1>5. IsFiniteSet({trade[e] : e \in E})
  <2> HIDE DEF E, trade
  <2> QED  BY <1>3, FiniteImage
<1>6. \A e \in E : TradeOf(units, px, id, e).quantity \in Nat /\ TradeOf(units, px, id, e).pnl \in Int
  <2> TAKE e \in E
  <2> DEFINE U == Of(units, e)
             f == Pnls(units, px)
  <2>1. IsFiniteSet(U) /\ Cardinality(U) \in Nat /\ U \subseteq S
    BY CountOf DEF Of
  <2>2. \A i \in U : f[i] \in Int
    BY <2>1, PnlsType
  <2> HIDE DEF U, f
  <2>3. SumFunctionOnSet(f, U) \in Int
    BY <2>1, <2>2, SumIsInt
  <2> QED  BY <2>1, <2>3 DEF TradeOf, U, f
<1>7. \A e \in E : TradeOf(units, px, id, e).entry = e /\ TradeOf(units, px, id, e).exit = id
  BY DEF TradeOf
<1>8. ASSUME NEW t \in ClosedTrades(units, px, id)
      PROVE  /\ t.entry \in E
             /\ t = TradeOf(units, px, id, t.entry)
             /\ t.exit = id
             /\ t.quantity \in Nat
             /\ t.pnl \in Int
  <2>1. PICK e \in E : t = TradeOf(units, px, id, e)
    BY <1>8, TradesAre
  <2> HIDE DEF E
  <2> QED  BY <1>6, <1>7, <2>1
<1> QED  BY <1>3, <1>4, <1>5, <1>8

\* A sum over the trades is one over their entries.
LEMMA SumByEntry ==
  ASSUME NEW units \in Seq(Unit), NEW px \in Nat, NEW id \in Nat, NEW h,
         \A e \in Entries(units) : h[TradeOf(units, px, id, e)] \in Int
  PROVE  SumFunctionOnSet(h, ClosedTrades(units, px, id)) =
           SumFunction([e \in Entries(units) |-> h[TradeOf(units, px, id, e)]])
<1> DEFINE E == Entries(units)
           g == [e \in E |-> h[TradeOf(units, px, id, e)]]
           p == [e \in E |-> TradeOf(units, px, id, e)]
<1>1. IsFiniteSet(E)
  BY TradesType
<1>2. \A e \in E : g[e] = h[p[e]] /\ h[p[e]] \in Int
  OBVIOUS
<1>3. \A e, d \in E : p[e] = p[d] => e = d
  <2>1. \A e \in E : p[e].entry = e
    BY DEF TradeOf
  <2> QED  BY <2>1
<1>4. ClosedTrades(units, px, id) = {p[e] : e \in E}
  BY TradesAre
<1>5. DOMAIN g = E
  OBVIOUS
<1> HIDE DEF E, g, p
<1>6. SumFunctionOnSet(g, E) = SumFunctionOnSet(h, {p[e] : e \in E})
  BY <1>1, <1>2, <1>3, SumRename
<1>7. SumFunction(g) = SumFunctionOnSet(h, ClosedTrades(units, px, id))
  BY <1>4, <1>5, <1>6 DEF SumFunction
<1> QED  BY <1>7 DEF g, E

\* A sum over the units is one over their entries.
LEMMA SumUnits ==
  ASSUME NEW units \in Seq(Unit), NEW f, \A i \in 1..Len(units) : f[i] \in Int
  PROVE  SumFunctionOnSet(f, 1..Len(units)) =
           SumFunction([e \in Entries(units) |-> SumFunctionOnSet(f, Of(units, e))])
<1> DEFINE S == 1..Len(units)
           E == Entries(units)
           p == [i \in S |-> units[i].entry]
<1>1. IsFiniteSet(S) /\ IsFiniteSet(E)
  <2>1. 0 \in Nat
    OBVIOUS
  <2> QED  BY <2>1, FS_Interval, TradesType
<1>2. \A i \in S : f[i] \in Int /\ p[i] \in E
  BY DEF Entries
<1>3. \A e \in E : {i \in S : p[i] = e} = Of(units, e)
  BY DEF Of
<1> HIDE DEF S, E, p
<1>4. SumFunctionOnSet(f, S) =
        SumFunction([e \in E |-> SumFunctionOnSet(f, {i \in S : p[i] = e})])
  BY <1>1, <1>2, SumByClass
<1>5. [e \in E |-> SumFunctionOnSet(f, {i \in S : p[i] = e})]
        = [e \in E |-> SumFunctionOnSet(f, Of(units, e))]
  BY <1>3
<1> QED  BY <1>4, <1>5 DEF S, E

\* The trades of a fill explain what it realizes, and the units it closes.
LEMMA TradesAddUp ==
  ASSUME NEW units \in Seq(Unit), NEW px \in Nat, NEW id \in Nat
  PROVE  LET all == ClosedTrades(units, px, id)
         IN  /\ SumFunction([t \in all |-> t.pnl]) = RealizedPnl(units, px)
             /\ SumFunction([t \in all |-> t.quantity]) = Len(units)
             /\ \A e : SumFunction([t \in {t \in all : t.entry = e} |-> t.quantity])
                         = Cardinality(Of(units, e))
<1> DEFINE all == ClosedTrades(units, px, id)
           E == Entries(units)
           S == 1..Len(units)
           pnl == [t \in all |-> t.pnl]
           quantity == [t \in all |-> t.quantity]
           one == [i \in S |-> 1]
<1>1. /\ \A t \in all : t.quantity \in Nat /\ t.pnl \in Int
      /\ \A t \in all : t.entry \in E /\ t = TradeOf(units, px, id, t.entry)
      /\ \A e \in E : TradeOf(units, px, id, e) \in all
      /\ IsFiniteSet(E) /\ IsFiniteSet(all)
  BY TradesType, TradesAre
<1>2. \A e \in E : /\ TradeOf(units, px, id, e).pnl = SumFunctionOnSet(Pnls(units, px), Of(units, e))
                   /\ TradeOf(units, px, id, e).quantity = Cardinality(Of(units, e))
                   /\ TradeOf(units, px, id, e).entry = e
  BY DEF TradeOf
<1>3. \A e \in E : /\ pnl[TradeOf(units, px, id, e)] = TradeOf(units, px, id, e).pnl
                   /\ quantity[TradeOf(units, px, id, e)] = TradeOf(units, px, id, e).quantity
  <2> HIDE DEF all
  <2> QED  BY <1>1
<1>4. /\ DOMAIN pnl = all /\ DOMAIN quantity = all /\ DOMAIN one = S
      /\ \A i \in S : one[i] = 1
  OBVIOUS
<1>5. SumFunction(pnl) = RealizedPnl(units, px)
  <2>1. \A e \in E : pnl[TradeOf(units, px, id, e)] \in Int
    BY <1>1, <1>3
  <2>2. SumFunctionOnSet(pnl, all) = SumFunction([e \in E |-> pnl[TradeOf(units, px, id, e)]])
    <3> HIDE DEF pnl
    <3> QED  BY <2>1, SumByEntry
  <2>3. SumFunctionOnSet(Pnls(units, px), S)
          = SumFunction([e \in E |-> SumFunctionOnSet(Pnls(units, px), Of(units, e))])
    BY PnlsType, SumUnits
  <2>4. [e \in E |-> pnl[TradeOf(units, px, id, e)]]
          = [e \in E |-> SumFunctionOnSet(Pnls(units, px), Of(units, e))]
    <3> HIDE DEF pnl, E
    <3> QED  BY <1>2, <1>3
  <2>5. SumFunctionOnSet(Pnls(units, px), S) = RealizedPnl(units, px)
    BY PnlsType DEF RealizedPnl, SumFunction, Pnls
  <2> HIDE DEF pnl, all, E, S
  <2> QED  BY <1>4, <2>2, <2>3, <2>4, <2>5 DEF SumFunction
<1>6. SumFunction(quantity) = Len(units)
  <2>1. \A e \in E : quantity[TradeOf(units, px, id, e)] \in Int
    BY <1>1, <1>3
  <2>2. SumFunctionOnSet(quantity, all) = SumFunction([e \in E |-> quantity[TradeOf(units, px, id, e)]])
    <3> HIDE DEF quantity
    <3> QED  BY <2>1, SumByEntry
  <2>3. SumFunctionOnSet(one, S) = SumFunction([e \in E |-> SumFunctionOnSet(one, Of(units, e))])
    <3>1. \A i \in S : one[i] \in Int
      OBVIOUS
    <3> HIDE DEF one
    <3> QED  BY <3>1, SumUnits
  <2>4. \A e \in E : SumFunctionOnSet(one, Of(units, e)) = Cardinality(Of(units, e))
    <3> TAKE e \in E
    <3> DEFINE U == Of(units, e)
    <3>1. IsFiniteSet(U) /\ Cardinality(U) \in Nat /\ U \subseteq S
      BY CountOf DEF Of
    <3> DEFINE v == 1
    <3>2. v \in Int /\ v = 1 /\ \A i \in U : one[i] = v
      BY <1>4, <3>1
    <3> HIDE DEF U, one, v
    <3>3. SumFunctionOnSet(one, U) = Cardinality(U) * v
      BY <3>1, <3>2, SumConstant
    <3> QED  BY <3>1, <3>2, <3>3 DEF U
  <2>5. [e \in E |-> quantity[TradeOf(units, px, id, e)]]
          = [e \in E |-> SumFunctionOnSet(one, Of(units, e))]
    <3> HIDE DEF quantity, E, one
    <3> QED  BY <1>2, <1>3, <2>4
  <2>6. SumFunctionOnSet(one, S) = Len(units)
    <3>1. IsFiniteSet(S) /\ Cardinality(S) = Len(units) /\ Len(units) \in Nat
      BY IndicesFinite
    <3> DEFINE v == 1
    <3>2. v \in Int /\ v = 1 /\ \A i \in S : one[i] = v
      BY <1>4
    <3> HIDE DEF one, S, v
    <3>3. SumFunctionOnSet(one, S) = Cardinality(S) * v
      BY <3>1, <3>2, SumConstant
    <3> QED  BY <3>1, <3>2, <3>3
  <2> HIDE DEF quantity, all, E, S, one
  <2> QED  BY <1>4, <2>2, <2>3, <2>5, <2>6 DEF SumFunction
<1>7. ASSUME NEW e
      PROVE  SumFunction([t \in {t \in all : t.entry = e} |-> t.quantity]) = Cardinality(Of(units, e))
  <2> DEFINE mine == {t \in all : t.entry = e}
             f == [t \in mine |-> t.quantity]
             x == TradeOf(units, px, id, e)
  <2>1. CASE e \in E
    <3>1. mine = {x}
      <4> HIDE DEF all, E
      <4> QED  BY <1>1, <1>2, <2>1
    <3>2. DOMAIN f = {x} /\ f[x] = Cardinality(Of(units, e))
      <4> HIDE DEF all, E, x
      <4> QED  BY <1>2, <2>1, <3>1 DEF x
    <3>3. Cardinality(Of(units, e)) \in Nat
      BY CountOf
    <3>4. IsFiniteSet({}) /\ x \notin {} /\ \A y \in {} \cup {x} : f[y] \in Int
      BY <3>2, <3>3, FS_EmptySet
    <3>5. SumFunctionOnSet(f, {}) = 0
      BY SumEmpty
    <3> DEFINE none == {}
    <3> HIDE DEF f, x
    <3>6. SumFunctionOnSet(f, none \cup {x}) = SumFunctionOnSet(f, none) + f[x]
      <4>1. IsFiniteSet(none) /\ x \notin none /\ \A y \in none \cup {x} : f[y] \in Int
        BY <3>4
      <4> HIDE DEF none
      <4> QED  BY <4>1, SumAdd
    <3>7. none \cup {x} = {x}
      OBVIOUS
    <3>8. SumFunction(f) = Cardinality(Of(units, e))
      BY <3>2, <3>3, <3>5, <3>6, <3>7 DEF SumFunction
    <3> QED  BY <3>8 DEF f
  <2>2. CASE e \notin E
    <3>1. mine = {} /\ DOMAIN f = {}
      <4> HIDE DEF all, E
      <4> QED  BY <1>1, <2>2
    <3>2. Of(units, e) = {}
      BY <2>2 DEF Of, Entries
    <3> HIDE DEF f
    <3>3. SumFunction(f) = 0
      BY <3>1, SumEmpty DEF SumFunction
    <3> QED  BY <3>2, <3>3, FS_EmptySet DEF f
  <2> QED  BY <2>1, <2>2
<1> QED  BY <1>5, <1>6, <1>7

\* The units of one order close at one profit each.
LEMMA TradePnl ==
  ASSUME NEW units \in Seq(Unit), NEW px \in Nat, NEW id \in Nat, NEW e, NEW w \in Int,
         \A i \in 1..Len(units) : units[i].entry = e => UnitPnl(units[i], px) = w
  PROVE  TradeOf(units, px, id, e).pnl = Cardinality(Of(units, e)) * w
<1> DEFINE U == Of(units, e)
           f == Pnls(units, px)
<1>1. IsFiniteSet(U)
  BY CountOf
<1>2. \A i \in U : f[i] = w
  BY DEF Of, Pnls
<1> HIDE DEF U, f
<1>3. SumFunctionOnSet(f, U) = Cardinality(U) * w
  BY <1>1, <1>2, SumConstant
<1> QED  BY <1>3 DEF TradeOf, U, f

-----------------------------------------------------------------------------
(***************************************************************************)
(* The invariant.                                                          *)
(***************************************************************************)
\* Every unit of a queue of symbol s carries the terms of a filled order.
UnitsMatch(b, s, q) ==
    \A i \in 1..Len(q) :
        /\ Filled(b, q[i].entry)
        /\ b.orders[q[i].entry].symbol = s
        /\ b.orders[q[i].entry].side = q[i].side
        /\ b.orders[q[i].entry].average_fill_price = q[i].price

\* The open units L fit the book b.
LotsFit(b, L) ==
    /\ L \in [Symbols -> Seq(Unit)]
    /\ \A s \in Symbols : OneSided(L[s]) /\ UnitsMatch(b, s, L[s])

\* A trade is between two filled orders, at their prices.
TradeFits(b, t) ==
    /\ Filled(b, t.entry) /\ Filled(b, t.exit)
    /\ t.entry # t.exit
    /\ t.quantity \in Nat
    /\ t.pnl \in Int
    /\ t.pnl = Sign(b.orders[t.entry].side) * t.quantity
                 * (b.orders[t.exit].average_fill_price
                      - b.orders[t.entry].average_fill_price)

TradesFit(b, T) == IsFiniteSet(T) /\ \A t \in T : TradeFits(b, t)

\* The signed cost of what is open.
Open(L) == SumFunction([s \in Symbols |-> SumOf(Paid, L[s])])

CashFits(b, L, base, pnl) == b.cash + Open(L) = base + pnl

FilledOf(b, s) == {i \in Ids(b) : b.orders[i].symbol = s /\ b.orders[i].status = "COMPLETE"}

Fill(b) == [i \in Ids(b) |-> Sign(b.orders[i].side) * b.orders[i].quantity]

NetFits(b, L) == \A s \in Symbols : Net(L[s]) = SumFunctionOnSet(Fill(b), FilledOf(b, s))

\* The pnl and the quantity of trades, to sum.
PnlOf(T) == [t \in T |-> t.pnl]
QuantityOf(T) == [t \in T |-> t.quantity]

Mine(T, id) == {t \in T : t.entry = id \/ t.exit = id}

\* The units of the order id that are open, or were traded.
Accounted(b, L, T, id) ==
    Cardinality(Of(L[b.orders[id].symbol], id)) + SumFunction(QuantityOf(Mine(T, id)))

HistoryFits(b, L, T, pnl) ==
    /\ pnl = SumFunction(PnlOf(T))
    /\ \A id \in Ids(b) :
         Accounted(b, L, T, id) = IF Filled(b, id) THEN b.orders[id].quantity ELSE 0

-----------------------------------------------------------------------------
(***************************************************************************)
(* Steps in which nothing fills.                                           *)
(***************************************************************************)
LEMMA FilledStays ==
  ASSUME NEW b, NEW c, NEW x, FillsBut(b, c, x), NEW i, Filled(b, i)
  PROVE  Filled(c, i) /\ c.orders[i] = b.orders[i]
BY DEF FillsBut, Filled

LEMMA LotsStayFit ==
  ASSUME NEW b, NEW c, NEW x, FillsBut(b, c, x), NEW L, LotsFit(b, L)
  PROVE  LotsFit(c, L)
BY FilledStays DEF LotsFit, UnitsMatch

LEMMA TradesStayFit ==
  ASSUME NEW b, NEW c, NEW x, FillsBut(b, c, x), NEW T, TradesFit(b, T)
  PROVE  TradesFit(c, T)
BY FilledStays DEF TradesFit, TradeFits

\* The fills, as numbers.
LEMMA FillType ==
  ASSUME NEW b, Typed(b), NEW s
  PROVE  /\ IsFiniteSet(FilledOf(b, s))
         /\ \A i \in FilledOf(b, s) : /\ i \in Ids(b) /\ Filled(b, i)
                                      /\ Fill(b)[i] = Sign(b.orders[i].side) * b.orders[i].quantity
                                      /\ Fill(b)[i] \in Int
<1>1. Len(b.orders) \in Nat /\ \A i \in Ids(b) : b.orders[i] \in OrderType
  BY DEF Typed, Books, Ids
<1>2. IsFiniteSet(Ids(b))
  BY <1>1, IndicesFinite DEF Ids
<1>3. FilledOf(b, s) \subseteq Ids(b)
  BY DEF FilledOf
<1>4. \A i \in Ids(b) : b.orders[i].quantity \in Int
  BY <1>1 DEF OrderType
<1>5. \A i \in Ids(b) : Sign(b.orders[i].side) * b.orders[i].quantity \in Int
  BY <1>4, SignType
<1> QED  BY <1>2, <1>3, <1>5, FS_Subset DEF FilledOf, Filled, Fill

LEMMA QuietNet ==
  ASSUME NEW b, NEW c, Typed(b), Typed(c), FillsBut(b, c, 0), NEW s
  PROVE  SumFunctionOnSet(Fill(c), FilledOf(c, s)) = SumFunctionOnSet(Fill(b), FilledOf(b, s))
<1>1. ~Filled(c, 0)
  BY DEF Filled, Ids
<1>2. FilledOf(c, s) = FilledOf(b, s)
  BY <1>1, FilledStays DEF FilledOf, Filled, FillsBut
<1> DEFINE S == FilledOf(b, s)
           f == Fill(b)
           g == Fill(c)
<1>3. IsFiniteSet(S) /\ \A i \in S : g[i] = f[i]
  BY <1>2, FillType, FilledStays
<1> HIDE DEF f, g, S
<1>4. SumFunctionOnSet(g, S) = SumFunctionOnSet(f, S)
  BY <1>3, SumAgree
<1> QED  BY <1>2, <1>4 DEF f, g, S

LEMMA QuietNets ==
  ASSUME NEW b, NEW c, Typed(b), Typed(c), FillsBut(b, c, 0), NEW L, NetFits(b, L)
  PROVE  NetFits(c, L)
BY QuietNet DEF NetFits

\* What no filled order owns is nothing.
LEMMA NothingElse ==
  ASSUME NEW c, NEW L, LotsFit(c, L), NEW T, TradesFit(c, T), NEW id, ~Filled(c, id)
  PROVE  /\ \A s \in Symbols : Cardinality(Of(L[s], id)) = 0
         /\ Mine(T, id) = {}
         /\ SumFunction(QuantityOf(Mine(T, id))) = 0
<1>1. \A s \in Symbols : Of(L[s], id) = {}
  BY DEF LotsFit, UnitsMatch, Of
<1>2. Mine(T, id) = {}
  BY DEF TradesFit, TradeFits, Mine
<1>3. SumFunction(QuantityOf({})) = 0
  <2> DEFINE f == QuantityOf({})
  <2>1. DOMAIN f = {}
    BY DEF QuantityOf
  <2> HIDE DEF f
  <2>2. SumFunction(f) = 0
    BY <2>1, SumEmpty DEF SumFunction
  <2> QED  BY <2>2 DEF f
<1> QED  BY <1>1, <1>2, <1>3, FS_EmptySet

LEMMA QuietHistory ==
  ASSUME NEW b, NEW c, Typed(b), Typed(c), FillsBut(b, c, 0),
         NEW L, LotsFit(b, L), NEW T, TradesFit(b, T), NEW pnl, HistoryFits(b, L, T, pnl)
  PROVE  HistoryFits(c, L, T, pnl)
<1>1. ~Filled(c, 0)
  BY DEF Filled, Ids
<1>2. LotsFit(c, L) /\ TradesFit(c, T)
  BY LotsStayFit, TradesStayFit
<1>3. \A id \in Ids(c) : c.orders[id].symbol \in Symbols
  <2>1. \A id \in Ids(c) : c.orders[id] \in OrderType
    BY DEF Typed, Books, Ids
  <2> QED  BY <2>1 DEF OrderType
<1>4. ASSUME NEW id \in Ids(c)
      PROVE  Accounted(c, L, T, id) = IF Filled(c, id) THEN c.orders[id].quantity ELSE 0
  <2>1. CASE Filled(c, id)
    <3>1. Filled(b, id)
      BY <1>1, <2>1 DEF FillsBut
    <3>2. c.orders[id] = b.orders[id] /\ id \in Ids(b)
      BY <3>1, FilledStays DEF Filled
    <3> QED  BY <2>1, <3>1, <3>2 DEF HistoryFits, Accounted
  <2>2. CASE ~Filled(c, id)
    <3>1. Cardinality(Of(L[c.orders[id].symbol], id)) = 0
      BY <1>2, <1>3, <1>4, <2>2, NothingElse
    <3>2. SumFunction(QuantityOf(Mine(T, id))) = 0
      BY <1>2, <2>2, NothingElse
    <3> QED  BY <2>2, <3>1, <3>2 DEF Accounted
  <2> QED  BY <2>1, <2>2
<1> QED  BY <1>4 DEF HistoryFits

-----------------------------------------------------------------------------
(***************************************************************************)
(* The fill of the order x, which leaves the book c.                       *)
(***************************************************************************)
Was(c, L, x) == L[c.orders[x].symbol]

Shut(c, L, x) == Closed(Was(c, L, x), c.orders[x].side, c.orders[x].quantity)

Rest(c, L, x) == Kept(Was(c, L, x), c.orders[x].side, c.orders[x].quantity)

New(c, L, x) == Opened(Was(c, L, x), c.orders[x].side, c.orders[x].quantity,
                       c.orders[x].average_fill_price, x)

After(c, L, x) == [L EXCEPT ![c.orders[x].symbol] = Rest(c, L, x) \o New(c, L, x)]

Gain(c, L, x) == RealizedPnl(Shut(c, L, x), c.orders[x].average_fill_price)

Trades(c, L, x) == ClosedTrades(Shut(c, L, x), c.orders[x].average_fill_price, x)

\* The order that fills, and the queue it meets.
FillMeets(b, c, L, x) ==
    /\ x \in Nat
    /\ c.orders[x].symbol \in Symbols
    /\ c.orders[x].side \in Sides
    /\ c.orders[x].quantity \in Nat \ {0}
    /\ c.orders[x].average_fill_price \in Nat
    /\ Was(c, L, x) \in Seq(Unit)
    /\ OneSided(Was(c, L, x))
    /\ \A i \in 1..Len(Was(c, L, x)) : /\ Filled(b, Was(c, L, x)[i].entry)
                                       /\ Was(c, L, x)[i].entry # x
    /\ Shut(c, L, x) \in Seq(Unit)
    /\ \A i \in 1..Len(Shut(c, L, x)) :
         i \in 1..Len(Was(c, L, x)) /\ Shut(c, L, x)[i] = Was(c, L, x)[i]
    /\ Rest(c, L, x) \o New(c, L, x) \in Seq(Unit)
    /\ OneSided(Rest(c, L, x) \o New(c, L, x))
    /\ \A s \in Symbols :
         After(c, L, x)[s] = IF s = c.orders[x].symbol
                             THEN Rest(c, L, x) \o New(c, L, x) ELSE L[s]
    /\ After(c, L, x) \in [Symbols -> Seq(Unit)]

LEMMA FillMeetsQueue ==
  ASSUME NEW b, NEW c, NEW x, Typed(b), Typed(c), FillsOne(b, c, x), NEW L, LotsFit(b, L)
  PROVE  FillMeets(b, c, L, x)
<1> DEFINE o == c.orders[x]
           s == o.symbol
           n == o.quantity
           px == o.average_fill_price
           side == o.side
           q == L[s]
<1>1. Filled(c, x) /\ ~Filled(b, x) /\ x \in Ids(c)
  BY DEF FillsOne, Filled
<1>2. x \in Nat /\ o \in OrderType
  BY <1>1 DEF Typed, Books, Ids
<1>3. s \in Symbols /\ side \in Sides /\ n \in Nat \ {0} /\ px \in Nat
  BY <1>2 DEF OrderType
<1> HIDE DEF o, s, n, px, side
<1>4. L \in [Symbols -> Seq(Unit)] /\ q \in Seq(Unit) /\ OneSided(q) /\ UnitsMatch(b, s, q)
  BY <1>3 DEF LotsFit
<1> HIDE DEF q
<1>5. \A i \in 1..Len(q) : Filled(b, q[i].entry) /\ q[i].entry # x
  BY <1>1, <1>4 DEF UnitsMatch
<1> DEFINE k == CloseCount(q, side, n)
           closed == Closed(q, side, n)
           kept == Kept(q, side, n)
           opened == Opened(q, side, n, px, x)
           now == kept \o opened
<1>6. Parts(q, side, n, px, x, k, closed, kept, opened)
  BY <1>2, <1>3, <1>4, QueueParts
<1>7. now \in Seq(Unit) /\ OneSided(now)
  BY <1>2, <1>3, <1>4, FillOneSided
<1> HIDE DEF k, closed, kept, opened
<1>8. closed \in Seq(Unit) /\ \A i \in 1..Len(closed) : i \in 1..Len(q) /\ closed[i] = q[i]
  <2>1. /\ closed \in Seq(Unit) /\ Len(closed) = k /\ k \in Nat /\ k <= Len(q)
        /\ \A i \in 1..k : closed[i] = q[i]
    BY <1>6 DEF Parts
  <2>2. Len(q) \in Nat
    BY <1>4
  <2> QED  BY <2>1, <2>2
<1> HIDE DEF now
<1>9. /\ [L EXCEPT ![s] = now] \in [Symbols -> Seq(Unit)]
      /\ \A r \in Symbols : [L EXCEPT ![s] = now][r] = IF r = s THEN now ELSE L[r]
  BY <1>3, <1>4, <1>7
<1>10. /\ Was(c, L, x) = q /\ Shut(c, L, x) = closed
       /\ Rest(c, L, x) \o New(c, L, x) = now
       /\ After(c, L, x) = [L EXCEPT ![s] = now]
  BY DEF Was, Shut, Rest, New, After, o, s, n, px, side, q, closed, kept, opened, now
<1>11. /\ c.orders[x].symbol = s /\ c.orders[x].side = side /\ c.orders[x].quantity = n
       /\ c.orders[x].average_fill_price = px
  BY DEF o, s, n, px, side
<1> QED
  BY ONLY <1>2, <1>3, <1>4, <1>5, <1>7, <1>8, <1>9, <1>10, <1>11 DEF FillMeets

\* The units a fill leaves come from the orders they name.
LEMMA LotsFitAfterFill ==
  ASSUME NEW b, NEW c, NEW x, Typed(b), Typed(c), FillsOne(b, c, x), NEW L, LotsFit(b, L)
  PROVE  LotsFit(c, After(c, L, x))
<1> DEFINE o == c.orders[x]
           s == o.symbol
           n == o.quantity
           px == o.average_fill_price
           side == o.side
           q == Was(c, L, x)
           k == CloseCount(q, side, n)
           closed == Closed(q, side, n)
           kept == Kept(q, side, n)
           opened == Opened(q, side, n, px, x)
           now == kept \o opened
           M == After(c, L, x)
<1>1. FillMeets(b, c, L, x) /\ FillsBut(b, c, x) /\ Filled(c, x)
  BY FillMeetsQueue DEF FillsOne
<1>2. now = Rest(c, L, x) \o New(c, L, x)
  BY DEF Rest, New
<1> HIDE DEF now
<1>3. Parts(q, side, n, px, x, k, closed, kept, opened)
  <2>1. q \in Seq(Unit) /\ side \in Sides /\ n \in Nat /\ px \in Nat /\ x \in Nat
    BY <1>1 DEF FillMeets
  <2> HIDE DEF q, side, n, px
  <2> QED  BY <2>1, QueueParts
<1> HIDE DEF k, closed, kept, opened
<1>4. /\ \A r \in Symbols : M[r] = IF r = s THEN now ELSE L[r]
      /\ M \in [Symbols -> Seq(Unit)]
      /\ OneSided(now)
      /\ s \in Symbols
      /\ q = L[s]
  BY <1>1, <1>2 DEF FillMeets, Was
<1>5. LotsFit(c, L)
  BY <1>1, LotsStayFit
<1>6. UnitsMatch(c, s, q)
  BY <1>4, <1>5 DEF LotsFit
<1> HIDE DEF q, M
<1>7. /\ kept \in Seq(Unit) /\ opened \in Seq(Unit) /\ k \in Nat /\ k <= Len(q) /\ Len(q) \in Nat
      /\ Len(kept) = Len(q) - k
      /\ \A i \in 1..Len(kept) : kept[i] = q[i + k] /\ i + k \in 1..Len(q)
      /\ \A i \in 1..Len(opened) : opened[i] = [entry |-> x, side |-> side, price |-> px]
  <2>1. /\ kept \in Seq(Unit) /\ opened \in Seq(Unit) /\ k \in Nat /\ k <= Len(q)
        /\ Len(kept) = Len(q) - k
        /\ \A i \in 1..(Len(q) - k) : kept[i] = q[i + k]
        /\ Len(opened) = n - k
        /\ \A i \in 1..(n - k) : opened[i] = [entry |-> x, side |-> side, price |-> px]
    BY <1>3 DEF Parts
  <2>2. Len(q) \in Nat
    BY <1>1 DEF FillMeets, q
  <2> QED  BY <2>1, <2>2
<1>8. UnitsMatch(c, s, now)
  <2>1. \A i \in 1..Len(kept) : /\ Filled(c, kept[i].entry)
                                /\ c.orders[kept[i].entry].symbol = s
                                /\ c.orders[kept[i].entry].side = kept[i].side
                                /\ c.orders[kept[i].entry].average_fill_price = kept[i].price
    BY <1>6, <1>7 DEF UnitsMatch
  <2>2. \A i \in 1..Len(opened) : /\ Filled(c, opened[i].entry)
                                  /\ c.orders[opened[i].entry].symbol = s
                                  /\ c.orders[opened[i].entry].side = opened[i].side
                                  /\ c.orders[opened[i].entry].average_fill_price = opened[i].price
    BY <1>1, <1>7
  <2>3. /\ Len(now) = Len(kept) + Len(opened)
        /\ \A i \in 1..Len(kept) : now[i] = kept[i]
        /\ \A i \in 1..Len(opened) : now[i + Len(kept)] = opened[i]
        /\ Len(kept) \in Nat /\ Len(opened) \in Nat
    <3>1. kept \in Seq(Unit) /\ opened \in Seq(Unit) /\ now = kept \o opened
      BY <1>7 DEF now
    <3> QED  BY ONLY <3>1, ConcatParts
  <2>4. ASSUME NEW i \in 1..Len(now)
        PROVE  \/ i \in 1..Len(kept)
               \/ i - Len(kept) \in 1..Len(opened) /\ (i - Len(kept)) + Len(kept) = i
    BY <2>3
  <2>5. ASSUME NEW i \in 1..Len(now)
        PROVE  /\ Filled(c, now[i].entry)
               /\ c.orders[now[i].entry].symbol = s
               /\ c.orders[now[i].entry].side = now[i].side
               /\ c.orders[now[i].entry].average_fill_price = now[i].price
    <3>1. CASE i \in 1..Len(kept)
      BY <2>1, <2>3, <3>1
    <3>2. CASE i - Len(kept) \in 1..Len(opened) /\ (i - Len(kept)) + Len(kept) = i
      <4>1. now[i] = opened[i - Len(kept)]
        BY <2>3, <3>2
      <4> QED  BY <2>2, <3>2, <4>1
    <3> QED  BY <2>4, <3>1, <3>2
  <2> QED  BY <2>5 DEF UnitsMatch
<1>9. \A r \in Symbols : OneSided(M[r]) /\ UnitsMatch(c, r, M[r])
  BY <1>4, <1>5, <1>8 DEF LotsFit
<1> QED  BY <1>4, <1>9 DEF LotsFit, M

\* The trades of a fill fit the two orders they are between.
LEMMA TradesFitAfterFill ==
  ASSUME NEW b, NEW c, NEW x, Typed(b), Typed(c), FillsOne(b, c, x), NEW L, LotsFit(b, L)
  PROVE  /\ TradesFit(c, Trades(c, L, x))
         /\ \A t \in Trades(c, L, x) : t.exit = x /\ Filled(b, t.entry)
<1> DEFINE o == c.orders[x]
           s == o.symbol
           px == o.average_fill_price
           q == Was(c, L, x)
           units == Shut(c, L, x)
           T == Trades(c, L, x)
<1>1. FillMeets(b, c, L, x) /\ FillsBut(b, c, x) /\ Filled(c, x)
  BY FillMeetsQueue DEF FillsOne
<1>2. x \in Nat /\ px \in Nat /\ units \in Seq(Unit) /\ s \in Symbols
  BY <1>1 DEF FillMeets
<1>3. \A i \in 1..Len(units) : /\ Filled(b, units[i].entry) /\ units[i].entry # x
                               /\ c.orders[units[i].entry].side = units[i].side
                               /\ c.orders[units[i].entry].average_fill_price = units[i].price
  <2>1. LotsFit(c, L)
    BY <1>1, LotsStayFit
  <2>2. UnitsMatch(c, s, q)
    BY <1>2, <2>1 DEF LotsFit, Was
  <2> QED  BY <1>1, <2>2 DEF FillMeets, UnitsMatch
<1>4. T = ClosedTrades(units, px, x)
  BY DEF Trades
<1> HIDE DEF units, T, px, o, s, q
<1>5. /\ IsFiniteSet(T)
      /\ \A t \in T : /\ t.entry \in Entries(units)
                      /\ t = TradeOf(units, px, x, t.entry)
                      /\ t.exit = x
                      /\ t.quantity \in Nat
                      /\ t.pnl \in Int
  BY <1>2, <1>4, TradesType
<1>6. ASSUME NEW t \in T
      PROVE  TradeFits(c, t) /\ Filled(b, t.entry)
  <2> DEFINE e == t.entry
             w == Sign(c.orders[e].side) * (px - c.orders[e].average_fill_price)
  <2>1. PICK i \in 1..Len(units) : units[i].entry = e
    BY <1>5 DEF Entries
  <2>2. /\ Filled(b, e) /\ e # x
        /\ c.orders[e].side = units[i].side
        /\ c.orders[e].average_fill_price = units[i].price
    BY <1>3, <2>1
  <2>3. Filled(c, e)
    BY <1>1, <2>2, FilledStays
  <2>4. c.orders[e].average_fill_price \in Int
    <3>1. units[i] \in Unit
      BY <1>2
    <3> QED  BY <2>2, <3>1 DEF Unit
  <2>5. w \in Int
    BY <1>2, <2>4, SignType
  <2>6. \A j \in 1..Len(units) : units[j].entry = e => UnitPnl(units[j], px) = w
    BY <1>3 DEF UnitPnl
  <2>7. TradeOf(units, px, x, e).pnl = Cardinality(Of(units, e)) * w
    <3> HIDE DEF e, w
    <3> QED  BY <1>2, <2>5, <2>6, TradePnl
  <2>8. t.pnl = t.quantity * w /\ t.quantity \in Nat
    <3>1. TradeOf(units, px, x, e).quantity = Cardinality(Of(units, e))
      BY DEF TradeOf
    <3> QED  BY <1>5, <2>7, <3>1
  <2>9. t.pnl = Sign(c.orders[e].side) * t.quantity * (px - c.orders[e].average_fill_price)
    <3> DEFINE sg == Sign(c.orders[e].side)
               d == px - c.orders[e].average_fill_price
               m == t.quantity
    <3>1. sg \in {1, -1} /\ d \in Int /\ m \in Int /\ t.pnl = m * (sg * d)
      BY <1>2, <2>4, <2>8, SignType
    <3> HIDE DEF sg, d, m
    <3>2. m * (sg * d) = sg * m * d
      BY <3>1
    <3> QED  BY <3>1, <3>2 DEF sg, d, m
  <2>10. t.exit = x /\ t.pnl \in Int
    BY <1>5
  <2> QED  BY <1>1, <2>2, <2>3, <2>8, <2>9, <2>10 DEF TradeFits, px, o
<1>7. \A t \in T : TradeFits(c, t) /\ Filled(b, t.entry) /\ t.exit = x
  BY <1>5, <1>6
<1> QED  BY <1>5, <1>7 DEF TradesFit, T

\* Cash pays for what opens, and is paid for what closes.
LEMMA CashFitsAfterFill ==
  ASSUME IsFiniteSet(Symbols),
         NEW b, NEW c, NEW x, Typed(b), Typed(c), FillsOne(b, c, x),
         NEW L, LotsFit(b, L), NEW base \in Int, NEW pnl \in Int, CashFits(b, L, base, pnl)
  PROVE  /\ Gain(c, L, x) \in Int
         /\ CashFits(c, After(c, L, x), base, pnl + Gain(c, L, x))
<1> DEFINE o == c.orders[x]
           s == o.symbol
           n == o.quantity
           px == o.average_fill_price
           side == o.side
           q == Was(c, L, x)
           now == Rest(c, L, x) \o New(c, L, x)
           M == After(c, L, x)
           gain == Gain(c, L, x)
           f == [r \in Symbols |-> SumOf(Paid, L[r])]
           g == [r \in Symbols |-> SumOf(Paid, M[r])]
           v == SumOf(Paid, now)
           cost == Sign(side) * (n * px)
<1>1. FillMeets(b, c, L, x)
  BY FillMeetsQueue
<1>2. /\ x \in Nat /\ s \in Symbols /\ side \in Sides /\ n \in Nat \ {0} /\ px \in Nat
      /\ q \in Seq(Unit) /\ OneSided(q) /\ now \in Seq(Unit)
      /\ M \in [Symbols -> Seq(Unit)]
      /\ \A r \in Symbols : M[r] = IF r = s THEN now ELSE L[r]
      /\ q = L[s]
  BY <1>1 DEF FillMeets, Was
<1>3. /\ now = Kept(q, side, n) \o Opened(q, side, n, px, x)
      /\ gain = RealizedPnl(Closed(q, side, n), px)
      /\ c.cash = b.cash - cost
      /\ b.cash \in Int
  BY DEF Rest, New, Gain, Shut, FillsOne, Cost, Typed, Books
<1>4. L \in [Symbols -> Seq(Unit)]
  BY DEF LotsFit
<1> HIDE DEF o, s, n, px, side, q, now, M, gain
<1>5. SumOf(Paid, q) \in Int /\ gain \in Int /\ v = SumOf(Paid, q) + gain + cost
  BY <1>2, <1>3, FillCost
<1>6. cost \in Int
  BY <1>2, SignType
<1>7. \A r \in Symbols : f[r] \in Int
  <2> TAKE r \in Symbols
  <2>1. L[r] \in Seq(Unit) /\ Paid \in [Unit -> Int]
    BY <1>4, PaidType
  <2>2. SumOf(Paid, L[r]) \in Int
    BY <2>1, SumOfIsInt
  <2> QED  BY <2>2
<1>8. /\ DOMAIN f = Symbols
      /\ f[s] = SumOf(Paid, q)
      /\ g = [f EXCEPT ![s] = v]
      /\ v \in Int
  <2>1. g = [f EXCEPT ![s] = v]
    BY <1>2
  <2> QED  BY <1>2, <1>5, <1>6, <2>1
<1>9. Open(L) = SumFunction(f) /\ Open(M) = SumFunction(g)
  BY DEF Open
<1>10. SumFunction(f) \in Int
  <2> HIDE DEF f
  <2> QED  BY <1>7, <1>8, SumIsInt DEF SumFunction
<1> HIDE DEF f, g, v, cost
<1>11. SumFunction(g) = SumFunction(f) - f[s] + v
  <2>1. /\ IsFiniteSet(DOMAIN f) /\ s \in DOMAIN f /\ \A y \in DOMAIN f : f[y] \in Int
        /\ v \in Int
    BY <1>2, <1>7, <1>8
  <2>2. SumFunction([f EXCEPT ![s] = v]) = SumFunction(f) - f[s] + v
    BY <2>1, SumExcept
  <2> QED  BY <1>8, <2>2
<1>12. Open(M) = Open(L) + gain + cost /\ Open(L) \in Int
  BY <1>5, <1>6, <1>8, <1>9, <1>10, <1>11
<1>13. c.cash + Open(M) = base + (pnl + gain)
  <2>1. b.cash + Open(L) = base + pnl
    BY DEF CashFits
  <2>2. c.cash = b.cash - cost /\ b.cash \in Int /\ gain \in Int
    BY <1>3, <1>5
  <2> DEFINE cash1 == c.cash
             cash0 == b.cash
             open1 == Open(M)
             open0 == Open(L)
  <2>3. /\ cash1 = cash0 - cost /\ cash0 \in Int /\ gain \in Int /\ cost \in Int
        /\ open1 = open0 + gain + cost /\ open0 \in Int
        /\ cash0 + open0 = base + pnl
    BY <1>6, <1>12, <2>1, <2>2
  <2> HIDE DEF cash1, cash0, open1, open0
  <2>4. cash1 + open1 = base + (pnl + gain)
    BY <2>3
  <2> QED  BY <2>4 DEF cash1, open1
<1> QED  BY <1>5, <1>13 DEF CashFits, M, gain

\* A position moves by the fill.
LEMMA NetFitsAfterFill ==
  ASSUME NEW b, NEW c, NEW x, Typed(b), Typed(c), FillsOne(b, c, x),
         NEW L, LotsFit(b, L), NetFits(b, L)
  PROVE  NetFits(c, After(c, L, x))
<1> DEFINE o == c.orders[x]
           s == o.symbol
           n == o.quantity
           px == o.average_fill_price
           side == o.side
           q == Was(c, L, x)
           now == Rest(c, L, x) \o New(c, L, x)
           M == After(c, L, x)
           f == Fill(b)
           g == Fill(c)
<1>1. FillMeets(b, c, L, x) /\ FillsBut(b, c, x) /\ Filled(c, x) /\ ~Filled(b, x)
  BY FillMeetsQueue DEF FillsOne
<1>2. /\ x \in Nat /\ s \in Symbols /\ side \in Sides /\ n \in Nat \ {0} /\ px \in Nat
      /\ q \in Seq(Unit) /\ OneSided(q)
      /\ \A r \in Symbols : M[r] = IF r = s THEN now ELSE L[r]
      /\ q = L[s]
  BY <1>1 DEF FillMeets, Was
<1>3. now = Kept(q, side, n) \o Opened(q, side, n, px, x)
  BY DEF Rest, New
<1>4. /\ g[x] = Sign(side) * n
      /\ x \in FilledOf(c, s)
  BY <1>1 DEF Fill, Filled, FilledOf
<1>5. FilledOf(c, s) = FilledOf(b, s) \cup {x} /\ x \notin FilledOf(b, s)
  BY <1>1, <1>4, FilledStays DEF FilledOf, Filled, FillsBut
<1>6. \A r \in Symbols \ {s} : FilledOf(c, r) = FilledOf(b, r)
  BY <1>1, FilledStays DEF FilledOf, Filled, FillsBut
<1>7. \A r \in Symbols : /\ IsFiniteSet(FilledOf(b, r))
                         /\ \A i \in FilledOf(b, r) : f[i] \in Int /\ g[i] = f[i]
  <2> TAKE r \in Symbols
  <2>1. \A i \in FilledOf(b, r) : Filled(b, i) /\ i \in Ids(c) /\ c.orders[i] = b.orders[i]
    BY <1>1, FillType, FilledStays DEF Filled
  <2>2. \A i \in FilledOf(b, r) : g[i] = f[i]
    BY <2>1 DEF Fill, Filled
  <2> QED  BY <2>2, FillType
<1> HIDE DEF f, g
<1>8. \A r \in Symbols : SumFunctionOnSet(g, FilledOf(b, r)) = SumFunctionOnSet(f, FilledOf(b, r))
  <2> TAKE r \in Symbols
  <2> DEFINE S == FilledOf(b, r)
  <2>1. IsFiniteSet(S) /\ \A i \in S : g[i] = f[i]
    BY <1>7
  <2> HIDE DEF S
  <2>2. SumFunctionOnSet(g, S) = SumFunctionOnSet(f, S)
    BY <2>1, SumAgree
  <2> QED  BY <2>2 DEF S
<1> HIDE DEF o, s, n, px, side, q, now, M
<1>9. Net(now) = Net(q) + Sign(side) * n
  BY <1>2, <1>3, FillOneSided
<1>10. SumFunctionOnSet(g, FilledOf(c, s)) = SumFunctionOnSet(f, FilledOf(b, s)) + Sign(side) * n
  <2> DEFINE S == FilledOf(b, s)
             v == Sign(side) * n
  <2>1. v \in Int
    BY <1>2, SignType
  <2>2. /\ IsFiniteSet(S) /\ x \notin S /\ \A i \in S \cup {x} : g[i] \in Int
        /\ g[x] = v
    BY <1>2, <1>4, <1>5, <1>7, <2>1
  <2>3. FilledOf(c, s) = S \cup {x} /\ SumFunctionOnSet(g, S) = SumFunctionOnSet(f, S)
    BY <1>2, <1>5, <1>8
  <2> HIDE DEF S, v
  <2>4. SumFunctionOnSet(g, S \cup {x}) = SumFunctionOnSet(g, S) + g[x]
    BY <2>2, SumAdd
  <2>5. SumFunctionOnSet(g, FilledOf(c, s)) = SumFunctionOnSet(f, S) + v
    BY <2>2, <2>3, <2>4
  <2> QED  BY <2>5 DEF S, v
<1>11. \A r \in Symbols : Net(L[r]) = SumFunctionOnSet(f, FilledOf(b, r))
  BY DEF NetFits, f
<1>12. \A r \in Symbols : Net(M[r]) = SumFunctionOnSet(g, FilledOf(c, r))
  <2> TAKE r \in Symbols
  <2>1. CASE r = s
    BY <1>2, <1>9, <1>10, <1>11, <2>1
  <2>2. CASE r # s
    BY <1>2, <1>6, <1>8, <1>11, <2>2
  <2> QED  BY <2>1, <2>2
<1> QED  BY <1>12 DEF NetFits, M, g

-----------------------------------------------------------------------------
(***************************************************************************)
(* The history after a fill.                                               *)
(***************************************************************************)

LEMMA PnlJoin ==
  ASSUME NEW S, NEW T, IsFiniteSet(S), IsFiniteSet(T), S \cap T = {},
         \A t \in S \cup T : t.pnl \in Int
  PROVE  SumFunction(PnlOf(S \cup T)) = SumFunction(PnlOf(S)) + SumFunction(PnlOf(T))
<1> DEFINE f == PnlOf(S \cup T)
           g == PnlOf(S)
           h == PnlOf(T)
<1>1. /\ DOMAIN f = S \cup T /\ DOMAIN g = S /\ DOMAIN h = T
      /\ \A y \in S : f[y] = g[y] /\ g[y] \in Int
      /\ \A y \in T : f[y] = h[y] /\ h[y] \in Int
  BY DEF PnlOf
<1> HIDE DEF f, g, h
<1>2. SumFunction(f) = SumFunction(g) + SumFunction(h)
  BY <1>1, SumJoin
<1> QED  BY <1>2 DEF f, g, h

LEMMA QuantityJoin ==
  ASSUME NEW S, NEW T, IsFiniteSet(S), IsFiniteSet(T), S \cap T = {},
         \A t \in S \cup T : t.quantity \in Nat
  PROVE  /\ SumFunction(QuantityOf(S \cup T)) = SumFunction(QuantityOf(S)) + SumFunction(QuantityOf(T))
         /\ SumFunction(QuantityOf(S)) \in Nat
         /\ SumFunction(QuantityOf(T)) \in Nat
<1> DEFINE f == QuantityOf(S \cup T)
           g == QuantityOf(S)
           h == QuantityOf(T)
<1>1. /\ DOMAIN f = S \cup T /\ DOMAIN g = S /\ DOMAIN h = T
      /\ \A y \in S : f[y] = g[y] /\ g[y] \in Nat
      /\ \A y \in T : f[y] = h[y] /\ h[y] \in Nat
  BY DEF QuantityOf
<1> HIDE DEF f, g, h
<1>2. SumFunction(f) = SumFunction(g) + SumFunction(h)
  BY <1>1, SumJoin
<1>3. SumFunction(g) \in Nat /\ SumFunction(h) \in Nat
  BY <1>1, SumIsNat DEF SumFunction
<1> QED  BY <1>2, <1>3 DEF f, g, h

LEMMA HistoryFitsAfterFill ==
  ASSUME NEW b, NEW c, NEW x, Typed(b), Typed(c), FillsOne(b, c, x),
         NEW L, LotsFit(b, L), NEW T, TradesFit(b, T), NEW pnl, HistoryFits(b, L, T, pnl)
  PROVE  HistoryFits(c, After(c, L, x), T \cup Trades(c, L, x), pnl + Gain(c, L, x))
<1> DEFINE o == c.orders[x]
           s == o.symbol
           n == o.quantity
           px == o.average_fill_price
           side == o.side
           q == Was(c, L, x)
           units == Shut(c, L, x)
           now == Rest(c, L, x) \o New(c, L, x)
           M == After(c, L, x)
           N == Trades(c, L, x)
           U == T \cup N
<1>1. FillMeets(b, c, L, x) /\ FillsBut(b, c, x) /\ Filled(c, x) /\ ~Filled(b, x)
  BY FillMeetsQueue DEF FillsOne
<1>2. /\ x \in Nat /\ s \in Symbols /\ side \in Sides /\ n \in Nat \ {0} /\ px \in Nat
      /\ q \in Seq(Unit) /\ units \in Seq(Unit) /\ now \in Seq(Unit)
      /\ \A i \in 1..Len(q) : Filled(b, q[i].entry) /\ q[i].entry # x
      /\ \A i \in 1..Len(units) : i \in 1..Len(q) /\ units[i] = q[i]
      /\ \A r \in Symbols : M[r] = IF r = s THEN now ELSE L[r]
      /\ q = L[s]
  BY <1>1 DEF FillMeets, Was
<1>3. /\ now = Kept(q, side, n) \o Opened(q, side, n, px, x)
      /\ units = Closed(q, side, n)
      /\ N = ClosedTrades(units, px, x)
      /\ Gain(c, L, x) = RealizedPnl(units, px)
  BY DEF Rest, New, Gain, Shut, Trades
<1>4. LotsFit(c, M) /\ LotsFit(c, L)
  BY <1>1, LotsFitAfterFill, LotsStayFit
<1>5. /\ TradesFit(c, N) /\ TradesFit(c, T)
      /\ \A t \in N : t.exit = x /\ Filled(b, t.entry)
      /\ \A t \in T : Filled(b, t.exit) /\ Filled(b, t.entry)
  BY <1>1, TradesFitAfterFill, TradesStayFit DEF TradesFit, TradeFits
<1>6. /\ T \cap N = {}
      /\ IsFiniteSet(T) /\ IsFiniteSet(N) /\ IsFiniteSet(U)
      /\ \A t \in U : t.pnl \in Int /\ t.quantity \in Nat
      /\ TradesFit(c, U)
  <2>1. T \cap N = {}
    BY <1>1, <1>5
  <2>2. IsFiniteSet(T) /\ IsFiniteSet(N)
    BY <1>5 DEF TradesFit
  <2>3. IsFiniteSet(U)
    BY <2>2, FS_Union
  <2> QED  BY <1>5, <2>1, <2>2, <2>3 DEF TradesFit, TradeFits
<1> HIDE DEF units, now, M, N, q, px, side, n
<1>7. pnl + Gain(c, L, x) = SumFunction(PnlOf(U))
  <2>1. SumFunction(PnlOf(U)) = SumFunction(PnlOf(T)) + SumFunction(PnlOf(N))
    BY <1>6, PnlJoin
  <2>2. SumFunction(PnlOf(N)) = RealizedPnl(units, px)
    BY <1>2, <1>3, TradesAddUp DEF PnlOf
  <2>3. pnl = SumFunction(PnlOf(T))
    BY DEF HistoryFits
  <2> QED  BY <1>3, <2>1, <2>2, <2>3
<1>8. \A S : S \subseteq U => IsFiniteSet(S)
  BY <1>6, FS_Subset
<1>9. ASSUME NEW id
      PROVE  /\ Mine(U, id) = Mine(T, id) \cup Mine(N, id)
             /\ SumFunction(QuantityOf(Mine(U, id)))
                  = SumFunction(QuantityOf(Mine(T, id))) + SumFunction(QuantityOf(Mine(N, id)))
             /\ SumFunction(QuantityOf(Mine(T, id))) \in Nat
             /\ SumFunction(QuantityOf(Mine(N, id))) \in Nat
  <2> DEFINE V == Mine(T, id)
             W == Mine(N, id)
  <2>1. /\ Mine(U, id) = V \cup W
        /\ V \cap W = {} /\ V \cup W \subseteq U /\ V \subseteq U /\ W \subseteq U
    BY <1>6 DEF Mine
  <2> HIDE DEF V, W, U
  <2>2. /\ IsFiniteSet(V) /\ IsFiniteSet(W)
        /\ \A t \in V \cup W : t.quantity \in Nat
    BY <1>6, <1>8, <2>1
  <2>3. /\ SumFunction(QuantityOf(V \cup W)) = SumFunction(QuantityOf(V)) + SumFunction(QuantityOf(W))
        /\ SumFunction(QuantityOf(V)) \in Nat
        /\ SumFunction(QuantityOf(W)) \in Nat
    BY <2>1, <2>2, QuantityJoin
  <2> QED  BY <2>1, <2>3 DEF V, W
<1>10. /\ \A e \in Nat \ {x} :
            Cardinality(Of(now, e)) + Cardinality(Of(units, e)) = Cardinality(Of(q, e))
       /\ Cardinality(Of(now, x)) + Len(units) = n
  <2>1. /\ q \in Seq(Unit) /\ side \in Sides /\ n \in Nat \ {0} /\ px \in Nat /\ x \in Nat
        /\ \A i \in 1..Len(q) : q[i].entry # x
    BY <1>2
  <2>2. /\ \A e \in Nat \ {x} :
             Cardinality(Of(Kept(q, side, n) \o Opened(q, side, n, px, x), e))
               + Cardinality(Of(Closed(q, side, n), e)) = Cardinality(Of(q, e))
        /\ Cardinality(Of(Kept(q, side, n) \o Opened(q, side, n, px, x), x))
             + Len(Closed(q, side, n)) = n
    BY ONLY <2>1, FillCounts
  <2> QED  BY <1>3, <2>2
<1>11. \A e : /\ Cardinality(Of(now, e)) \in Nat
              /\ Cardinality(Of(units, e)) \in Nat
              /\ Cardinality(Of(q, e)) \in Nat
  BY <1>2, CountOf
<1>12. ASSUME NEW e, e # x
       PROVE  SumFunction(QuantityOf(Mine(N, e))) = Cardinality(Of(units, e))
  <2>1. Mine(N, e) = {t \in N : t.entry = e}
    BY <1>5, <1>12 DEF Mine
  <2>2. SumFunction([t \in {t \in N : t.entry = e} |-> t.quantity]) = Cardinality(Of(units, e))
    <3>1. units \in Seq(Unit) /\ px \in Nat /\ x \in Nat
      BY <1>2
    <3>2. \A d : SumFunction([t \in {t \in ClosedTrades(units, px, x) : t.entry = d} |-> t.quantity])
                   = Cardinality(Of(units, d))
      BY ONLY <3>1, TradesAddUp
    <3> QED  BY <1>3, <3>2
  <2> QED  BY <2>1, <2>2 DEF QuantityOf
<1>13. /\ SumFunction(QuantityOf(Mine(N, x))) = Len(units)
       /\ SumFunction(QuantityOf(Mine(T, x))) = 0
  <2>1. Mine(N, x) = N
    BY <1>5 DEF Mine
  <2>2. SumFunction([t \in N |-> t.quantity]) = Len(units)
    BY <1>2, <1>3, TradesAddUp
  <2>3. SumFunction(QuantityOf(Mine(T, x))) = 0
    BY <1>1, NothingElse
  <2> QED  BY <2>1, <2>2, <2>3 DEF QuantityOf
<1>14. \A id \in Ids(c) : c.orders[id].symbol \in Symbols
  <2>1. \A id \in Ids(c) : c.orders[id] \in OrderType
    BY DEF Typed, Books, Ids
  <2> QED  BY <2>1 DEF OrderType
<1>15. ASSUME NEW id \in Ids(c)
       PROVE  Accounted(c, M, U, id) = IF Filled(c, id) THEN c.orders[id].quantity ELSE 0
  <2>1. CASE ~Filled(c, id)
    <3>1. Cardinality(Of(M[c.orders[id].symbol], id)) = 0
      BY <1>4, <1>6, <1>14, <1>15, <2>1, NothingElse
    <3>2. SumFunction(QuantityOf(Mine(U, id))) = 0
      BY <1>4, <1>6, <2>1, NothingElse
    <3> QED  BY <2>1, <3>1, <3>2 DEF Accounted
  <2>2. CASE id = x
    <3>1. M[c.orders[id].symbol] = now
      BY <1>2, <2>2
    <3>2. SumFunction(QuantityOf(Mine(U, x))) = 0 + Len(units)
      BY <1>9, <1>13
    <3>3. Len(units) \in Nat /\ Cardinality(Of(now, x)) \in Nat
      BY <1>2, <1>11
    <3>4. Cardinality(Of(now, x)) + SumFunction(QuantityOf(Mine(U, x))) = n
      BY <1>10, <3>2, <3>3
    <3> QED  BY <1>1, <2>2, <3>1, <3>4 DEF Accounted, n
  <2>3. CASE Filled(c, id) /\ id # x
    <3>1. Filled(b, id) /\ c.orders[id] = b.orders[id] /\ id \in Ids(b)
      BY <1>1, <2>3, FilledStays DEF FillsBut, Filled
    <3>2. Accounted(b, L, T, id) = c.orders[id].quantity
      BY <3>1 DEF HistoryFits
    <3> DEFINE r == c.orders[id].symbol
               open == Cardinality(Of(L[r], id))
               was == SumFunction(QuantityOf(Mine(T, id)))
               shut == Cardinality(Of(units, id))
    <3>3. open + was = c.orders[id].quantity
      BY <3>1, <3>2 DEF Accounted
    <3>4. SumFunction(QuantityOf(Mine(U, id))) = was + shut /\ was \in Nat /\ shut \in Nat
      BY <1>9, <1>11, <1>12, <2>3
    <3>5. id \in Nat /\ r \in Symbols
      BY <1>14, <1>15 DEF Ids
    <3>6. Cardinality(Of(M[r], id)) + shut = open /\ Cardinality(Of(M[r], id)) \in Nat
      <4>1. CASE r = s
        BY <1>2, <1>10, <1>11, <2>3, <3>5, <4>1
      <4>2. CASE r # s
        <5>1. M[r] = L[r]
          BY <1>2, <3>5, <4>2
        <5>2. Of(units, id) = {}
          <6>1. UnitsMatch(c, s, q)
            BY <1>2, <1>4 DEF LotsFit
          <6>2. \A i \in 1..Len(units) : c.orders[units[i].entry].symbol = s
            <7>1. \A i \in 1..Len(units) : i \in 1..Len(q) /\ units[i] = q[i]
              BY <1>2
            <7>2. \A i \in 1..Len(q) : c.orders[q[i].entry].symbol = s
              BY <6>1 DEF UnitsMatch
            <7> QED  BY ONLY <7>1, <7>2
          <6> QED  BY <4>2, <6>2 DEF Of
        <5>3. shut = 0
          BY <5>2, FS_EmptySet
        <5>4. open \in Nat
          <6>1. L[r] \in Seq(Unit)
            BY <1>4, <3>5 DEF LotsFit
          <6> QED  BY <6>1, CountOf
        <5> QED  BY <5>1, <5>3, <5>4
      <4> QED  BY <4>1, <4>2
    <3> HIDE DEF open, was, shut
    <3>7. Cardinality(Of(M[r], id)) + SumFunction(QuantityOf(Mine(U, id))) = c.orders[id].quantity
      BY <3>3, <3>4, <3>6
    <3> QED  BY <2>3, <3>7 DEF Accounted
  <2> QED  BY <2>1, <2>2, <2>3
<1> QED  BY <1>7, <1>15 DEF HistoryFits, U, N, M

-----------------------------------------------------------------------------
(***************************************************************************)
(* What the operations of the book fill.                                   *)
(***************************************************************************)
Fills1 == Quiet(Book, Book') \/ \E x \in Nat : FillsOne(Book, Book', x)

LEMMA BookTypes ==
  ASSUME IInv
  PROVE  /\ Sound(Book) /\ Typed(Book)
         /\ Ids(Book) = 1..Len(orders) /\ Book.orders = orders /\ Book.cash = cash
BY BooksAreSound DEF Sound, SoundBut, Book

LEMMA BecomesBook ==
  ASSUME NEW b, Typed(b), BookBecomes(b)
  PROVE  Book' = b
BY DEF Book, BookBecomes, Typed, Books

LEMMA PlaceOrderFills ==
  ASSUME IInv, NEW req \in Requests, NEW px \in Prices, PlaceOrder(req, px)
  PROVE  Fills1
<1> DEFINE o == NewOrder(req, px)
           b == AddOrder(Book, o)
           n == Len(orders) + 1
<1>1. req \in RequestType /\ px \in Nat
  BY OrderBookAssumption
<1>2. Sound(Book) /\ Typed(Book)
  BY BookTypes
<1>3. o \in OrderType /\ Resting(o) /\ o.parent_order_id = None
  BY <1>1, NewOrderType DEF PlaceOrder, NewOrder
<1>4. BookBecomes(IF Fundable(Book, o) THEN Settled(b, n, px) ELSE b)
  BY DEF PlaceOrder
<1> HIDE DEF o
<1>5. Typed(b) /\ Quiet(Book, b)
  BY <1>2, <1>3, AddOrderQuiet
<1>6. Fundable(Book, o) => /\ Sound(b) /\ n \in Ids(b) /\ b.orders[n] = o
                           /\ ~SettleRaises(b, n, px)
  BY <1>1, <1>3, NewOrderSettles
<1> HIDE DEF b
<1>7. CASE Fundable(Book, o)
  <2> DEFINE c == Settled(b, n, px)
  <2>1. Sound(c)
    BY <1>1, <1>3, <1>6, <1>7, SettledSound
  <2>2. Book' = c
    BY <1>4, <1>7, <2>1, BecomesBook DEF Sound, SoundBut
  <2>3. Quiet(b, c) \/ FillsOne(b, c, n)
    BY <1>1, <1>3, <1>6, <1>7, SettledFills
  <2>4. n \in Nat
    BY <1>6, <1>7 DEF Ids
  <2> HIDE DEF c, n
  <2>5. CASE Quiet(b, c)
    BY <1>5, <2>2, <2>5, QuietTransitive DEF Fills1
  <2>6. CASE FillsOne(b, c, n)
    <3>1. FillsOne(Book, c, n)
      BY <1>5, <2>6, QuietThenFillsOne
    <3> QED  BY <2>2, <2>4, <3>1 DEF Fills1
  <2> QED  BY <2>3, <2>5, <2>6
<1>8. CASE ~Fundable(Book, o)
  <2>1. Book' = b
    BY <1>4, <1>5, <1>8, BecomesBook
  <2> QED  BY <1>5, <2>1 DEF Fills1
<1> QED  BY <1>7, <1>8

LEMMA EvaluateNextFills ==
  ASSUME IInv, NEW id \in pending, EvaluateNext(id)
  PROVE  Fills1
<1> DEFINE px == tick.price
           c == Settled(Book, id, px)
<1>1. /\ ~Idle
      /\ BookBecomes(IF Resting(orders[id]) THEN c ELSE Book)
      /\ Resting(orders[id]) => ~SettleRaises(Book, id, px)
  BY DEF EvaluateNext
<1>2. Sound(Book) /\ Typed(Book) /\ Ids(Book) = 1..Len(orders) /\ Book.orders = orders
  BY BookTypes
<1>3. id \in Ids(Book) /\ px \in Nat /\ id \in Nat
  BY <1>1, <1>2, TickPrice DEF IInv, TypeOK
<1> HIDE DEF px
<1>4. CASE Resting(orders[id])
  <2>1. Sound(c)
    BY <1>1, <1>2, <1>3, <1>4, SettledSound
  <2>2. Quiet(Book, c) \/ FillsOne(Book, c, id)
    BY <1>1, <1>2, <1>3, <1>4, SettledFills
  <2>3. Book' = c
    BY <1>1, <1>4, <2>1, BecomesBook DEF Sound, SoundBut
  <2> QED  BY <1>3, <2>2, <2>3 DEF Fills1
<1>5. CASE ~Resting(orders[id])
  <2>1. Book' = Book
    BY <1>1, <1>2, <1>5, BecomesBook
  <2> QED  BY <2>1, QuietReflexive DEF Fills1
<1> QED  BY <1>4, <1>5

LEMMA EvaluateRaisesFills ==
  ASSUME IInv, IInv', NEW id \in pending, EvaluateRaises(id)
  PROVE  Fills1
<1> DEFINE px == tick.price
           c == HalfSettled(Book, id, px)
<1>1. ~Idle /\ BookBecomes(c) /\ Resting(orders[id]) /\ SettleRaises(Book, id, px)
  BY DEF EvaluateRaises
<1>2. Sound(Book) /\ Ids(Book) = 1..Len(orders) /\ Book.orders = orders
  BY BookTypes
<1>3. id \in Ids(Book) /\ px \in Nat /\ id \in Nat
  BY <1>1, <1>2, TickPrice DEF IInv, TypeOK
<1> HIDE DEF px
<1>4. Quiet(Book, c) \/ FillsOne(Book, c, id)
  BY <1>1, <1>2, <1>3, HalfSettledFills
<1> HIDE DEF c
<1>5. Book'.orders = c.orders /\ Book'.cash = c.cash
  BY <1>1 DEF Book, BookBecomes
<1>6. Quiet(c, Book')
  BY <1>5, SameOrdersQuiet
<1> DEFINE d == Book'
<1>7. Quiet(c, d)
  BY <1>6
<1> HIDE DEF d
<1>8. Quiet(Book, d) \/ FillsOne(Book, d, id)
  BY <1>4, <1>7, QuietTransitive, FillsOneThenQuiet
<1> QED  BY <1>3, <1>8 DEF Fills1, d

LEMMA CancelOrderQuiet ==
  ASSUME IInv, NEW id \in 1..Len(orders), CancelOrder(id)
  PROVE  Quiet(Book, Book')
<1> DEFINE w == [orders[id] EXCEPT !.status = "CANCELLED"]
<1>1. Resting(orders[id]) /\ orders[id] \in OrderType
  BY OrdersTyped DEF CancelOrder
<1>2. Typed(Book) /\ Ids(Book) = 1..Len(orders) /\ Book.orders = orders /\ Book.cash = cash
  BY BookTypes
<1>3. cash' = cash /\ (orders' = orders \/ orders' = [orders EXCEPT ![id] = w])
  <2>1. /\ ReleaseReservation(Book, id).orders = orders
        /\ PopReservation(Book, id).orders = orders
        /\ PopReservation(Book, id).cash = cash
    BY <1>2, ReleaseKeepsOrders DEF PopReservation, Typed, Books
  <2>2. /\ [ReleaseReservation(Book, id) EXCEPT !.orders[id].status = "CANCELLED"].orders
             = [orders EXCEPT ![id] = w]
        /\ [ReleaseReservation(Book, id) EXCEPT !.orders[id].status = "CANCELLED"].cash = cash
    BY <1>2, <2>1 DEF ReleaseReservation, Typed, Books
  <2> QED  BY <2>1, <2>2 DEF CancelOrder, BookBecomes
<1>4. w.status # "COMPLETE" /\ orders[id].status # "COMPLETE"
  BY <1>1 DEF OrderType, Resting, RestingStatuses
<1>5. Book'.orders = orders' /\ Book'.cash = cash'
  BY DEF Book
<1> HIDE DEF w
<1> QED  BY <1>2, <1>3, <1>4, <1>5, SameOrdersQuiet, ReplaceQuiet

LEMMA ModifyOrderQuiet ==
  ASSUME IInv, NEW id \in 1..Len(orders), NEW mod \in Modifications, ModifyOrder(id, mod)
  PROVE  Quiet(Book, Book')
<1> DEFINE w == Modified(orders[id], mod)
           r == ReleaseReservation(Book, id)
<1>1. orders[id] \in OrderType /\ mod \in ModificationType /\ Resting(orders[id])
  BY OrdersTyped, OrderBookAssumption DEF ModifyOrder
<1>2. Typed(Book) /\ Ids(Book) = 1..Len(orders) /\ Book.orders = orders /\ Book.cash = cash
  BY BookTypes
<1>3. cash' = cash /\ orders' = [orders EXCEPT ![id] = w]
  <2>1. r.orders = orders /\ r.cash = cash
    BY <1>2, ReleaseKeepsOrders DEF ReleaseReservation, Typed, Books
  <2>2. /\ orders' = [r EXCEPT !.orders[id] = w,
                              !.reservations[id] = Hold(w),
                              !.reserved = @ + Hold(w)].orders
        /\ cash' = [r EXCEPT !.orders[id] = w,
                             !.reservations[id] = Hold(w),
                             !.reserved = @ + Hold(w)].cash
    BY DEF ModifyOrder, BookBecomes
  <2> HIDE DEF w
  <2> QED  BY <1>2, <2>1, <2>2 DEF ReleaseReservation, Typed, Books
<1>4. w.status # "COMPLETE" /\ orders[id].status # "COMPLETE"
  <2>1. w.status = orders[id].status
    BY <1>1, ModifiedType
  <2> QED  BY <1>1, <2>1 DEF Resting, RestingStatuses
<1> DEFINE b == Book
           c == Book'
<1>5. /\ Typed(b) /\ id \in Ids(b)
      /\ b.orders[id].status # "COMPLETE" /\ w.status # "COMPLETE"
      /\ c.orders = [b.orders EXCEPT ![id] = w] /\ c.cash = b.cash
  <2>1. c.orders = orders' /\ c.cash = cash'
    BY DEF Book
  <2> QED  BY <1>2, <1>3, <1>4, <2>1
<1> HIDE DEF w, b, c
<1>6. Quiet(b, c)
  BY ONLY <1>5, ReplaceQuiet
<1> QED  BY <1>6 DEF b, c

\* The operations that leave the orders and the cash alone.
LEMMA OrdersKeptQuiet ==
  ASSUME UNCHANGED <<orders, cash>>
  PROVE  Quiet(Book, Book')
<1>1. Book'.orders = Book.orders /\ Book'.cash = Book.cash
  BY DEF Book
<1> QED  BY <1>1, SameOrdersQuiet

-----------------------------------------------------------------------------
(***************************************************************************)
(* What the engine books of a fill.                                        *)
(***************************************************************************)
LEMMA NothingFilledNow ==
  ASSUME Quiet(Book, Book')
  PROVE  FilledNow = {} /\ TradesNow = {}
<1> DEFINE b == Book
           c == Book'
<1>1. b.orders = orders /\ c.orders = orders'
  BY DEF Book
<1>2. ~Filled(c, 0)
  BY DEF Filled, Ids
<1>3. \A i \in Ids(c) : Filled(c, i) => Filled(b, i)
  BY <1>2 DEF Quiet, FillsBut
<1> HIDE DEF b, c
<1>4. FilledNow = {}
  BY <1>1, <1>3 DEF FilledNow, Filled, Ids
<1> QED  BY <1>4 DEF TradesNow

LEMMA OneFilledNow ==
  ASSUME IInv, NEW x, FillsOne(Book, Book', x)
  PROVE  FilledNow = {x}
<1> DEFINE b == Book
           c == Book'
<1>1. b.orders = orders /\ c.orders = orders' /\ Ids(b) = 1..Len(orders)
  BY BookTypes DEF Book
<1>2. /\ \A i \in Ids(c) : Filled(c, i) => Filled(b, i) \/ i = x
      /\ Filled(c, x) /\ ~Filled(b, x)
  BY DEF FillsOne, FillsBut
<1> HIDE DEF b, c
<1>3. Len(orders) \in Nat /\ x \in 1..Len(orders')
  BY <1>1, <1>2 DEF IInv, TypeOK, Filled, Ids
<1> QED  BY <1>1, <1>2, <1>3 DEF FilledNow, Filled, Ids

LEMMA EngineBooksFill ==
  ASSUME IInv, NEW x, FillsOne(Book, Book', x), BookFill
  PROVE  /\ lots' = After(Book', lots, x)
         /\ realized' = realized + Gain(Book', lots, x)
         /\ realized_since_open' =
              [realized_since_open EXCEPT ![orders'[x].symbol] =
                 IF Rest(Book', lots, x) = <<>> THEN 0 ELSE @ + Gain(Book', lots, x)]
         /\ TradesNow = Trades(Book', lots, x)
<1> DEFINE c == Book'
<1>1. c.orders = orders'
  BY DEF Book
<1>2. FilledNow = {x}
  BY OneFilledNow
<1>3. (CHOOSE f \in FilledNow : TRUE) = x
  BY <1>2
<1> HIDE DEF c
<1>4. /\ lots' = After(c, lots, x)
      /\ realized' = realized + Gain(c, lots, x)
      /\ realized_since_open' =
           [realized_since_open EXCEPT ![orders'[x].symbol] =
              IF Rest(c, lots, x) = <<>> THEN 0 ELSE @ + Gain(c, lots, x)]
  BY <1>1, <1>2, <1>3 DEF BookFill, ApplyFill, After, Gain, Rest, New, Was, Shut
<1>5. TradesNow = Trades(c, lots, x)
  BY <1>1, <1>2 DEF TradesNow, Trades, Was, Shut
<1> QED  BY <1>4, <1>5 DEF c

-----------------------------------------------------------------------------
(***************************************************************************)
(* The inductive invariant.                                                *)
(***************************************************************************)
\* A position's own realized P&L is 0 while it is flat.
FlatIsZero ==
    /\ realized_since_open \in [Symbols -> Int]
    /\ \A s \in Symbols : lots[s] = <<>> => realized_since_open[s] = 0

\* The positions, the cash and the history fit the book, given the trades.
LedgerFits(T) ==
    /\ LotsFit(Book, lots)
    /\ TradesFit(Book, T)
    /\ realized \in Int
    /\ CashFits(Book, lots, capital, realized)
    /\ NetFits(Book, lots)
    /\ ~holdLost => HistoryFits(Book, lots, T, realized)

EngineInv ==
    /\ IInv
    /\ BooksCovered
    /\ FlatIsZero
    /\ LedgerFits(trades \cup batch)
    /\ Idle => batch = {}

\* Every step of the engine is one of the book.
LEMMA EngineStepsAreBookSteps ==
  ASSUME [Next]_vars
  PROVE  [BookNext]_bookVars
<1>1. CASE \E req \in Requests, px \in Prices : EnginePlaceOrder(req, px)
  BY <1>1 DEF EnginePlaceOrder, BookNext
<1>2. CASE \E id \in 1..Len(orders) : EngineCancelOrder(id)
  BY <1>2 DEF EngineCancelOrder, BookNext
<1>3. CASE \E id \in 1..Len(orders), mod \in Modifications : EngineModifyOrder(id, mod)
  BY <1>3 DEF EngineModifyOrder, BookNext
<1>4. CASE \E symbol \in Symbols, px \in Prices : EngineBeginPriceUpdate(symbol, px)
  BY <1>4 DEF EngineBeginPriceUpdate, BookNext
<1>5. CASE \E id \in pending : EngineEvaluateNext(id)
  BY <1>5 DEF EngineEvaluateNext, BookNext
<1>6. CASE \E id \in pending : EngineEvaluateRaises(id)
  BY <1>6 DEF EngineEvaluateRaises, BookNext
<1>7. CASE EngineEndPriceUpdate
  BY <1>7 DEF EngineEndPriceUpdate, BookNext
<1>8. CASE \E amount \in Capitals : EngineReset(amount)
  BY <1>8 DEF EngineReset, BookNext
<1>9. CASE UNCHANGED vars
  BY <1>9 DEF vars
<1> QED
  BY <1>1, <1>2, <1>3, <1>4, <1>5, <1>6, <1>7, <1>8, <1>9 DEF Next

-----------------------------------------------------------------------------
(***************************************************************************)
(* The steps.                                                              *)
(***************************************************************************)
\* How the books, the positions and the ledger move together.
StandsStill ==
    /\ Quiet(Book, Book')
    /\ lots' = lots
    /\ realized_since_open' = realized_since_open
    /\ realized' = realized
    /\ capital' = capital
    /\ TradesNow = {}

BooksOne(x) ==
    /\ FillsOne(Book, Book', x)
    /\ lots' = After(Book', lots, x)
    /\ realized' = realized + Gain(Book', lots, x)
    /\ realized_since_open' =
         [realized_since_open EXCEPT ![orders'[x].symbol] =
            IF Rest(Book', lots, x) = <<>> THEN 0 ELSE @ + Gain(Book', lots, x)]
    /\ capital' = capital
    /\ TradesNow = Trades(Book', lots, x)

StartsAfresh ==
    /\ orders' = <<>>
    /\ cash' = capital'
    /\ capital' \in Capitals
    /\ lots' = [s \in Symbols |-> <<>>]
    /\ realized_since_open' = [s \in Symbols |-> 0]
    /\ realized' = 0
    /\ trades' = {}
    /\ batch' = {}

LEMMA BookFillMoves ==
  ASSUME IInv, Fills1, BookFill, capital' = capital
  PROVE  StandsStill \/ \E x : BooksOne(x)
<1>1. CASE Quiet(Book, Book')
  <2>1. FilledNow = {} /\ TradesNow = {}
    BY <1>1, NothingFilledNow
  <2> QED  BY <1>1, <2>1 DEF BookFill, lotVars, StandsStill
<1>2. CASE \E x \in Nat : FillsOne(Book, Book', x)
  <2>1. PICK x \in Nat : FillsOne(Book, Book', x)
    BY <1>2
  <2> QED  BY <2>1, EngineBooksFill DEF BooksOne
<1> QED  BY <1>1, <1>2 DEF Fills1

\* Where the trades of a step go.
TradesMove ==
    \/ holdLost' = holdLost /\ trades' \cup batch' = (trades \cup batch) \cup TradesNow
    \/ holdLost' /\ trades' \cup batch' \subseteq trades \cup batch

LEMMA StepMoves ==
  ASSUME EngineInv, IInv', [Next]_vars
  PROVE  /\ Idle' => batch' = {}
         /\ \/ StartsAfresh
            \/ TradesMove /\ (StandsStill \/ \E x : BooksOne(x))
<1>1. IInv /\ BooksCovered /\ (Idle => batch = {})
  BY DEF EngineInv
<1>2. CASE \E req \in Requests, px \in Prices : EnginePlaceOrder(req, px)
  <2>1. PICK req \in Requests, px \in Prices : EnginePlaceOrder(req, px)
    BY <1>2
  <2>2. /\ PlaceOrder(req, px) /\ BookFill
        /\ trades' = trades \cup TradesNow /\ batch' = batch
    BY <2>1 DEF EnginePlaceOrder
  <2>3. Idle /\ tick' = tick /\ capital' = capital /\ holdLost' = holdLost
    BY <2>2 DEF PlaceOrder
  <2>4. StandsStill \/ \E x : BooksOne(x)
    BY <1>1, <2>2, <2>3, PlaceOrderFills, BookFillMoves
  <2>5. TradesMove
    BY <2>2, <2>3 DEF TradesMove
  <2>6. Idle' => batch' = {}
    BY <1>1, <2>2, <2>3
  <2> QED  BY <2>4, <2>5, <2>6
<1>3. CASE \E id \in pending : EngineEvaluateNext(id)
  <2>1. PICK id \in pending : EngineEvaluateNext(id)
    BY <1>3
  <2>2. /\ EvaluateNext(id) /\ BookFill
        /\ batch' = batch \cup TradesNow /\ trades' = trades
    BY <2>1 DEF EngineEvaluateNext
  <2>3. ~Idle /\ tick' = tick /\ capital' = capital /\ holdLost' = holdLost
    BY <2>2 DEF EvaluateNext
  <2>4. StandsStill \/ \E x : BooksOne(x)
    BY <1>1, <2>2, <2>3, EvaluateNextFills, BookFillMoves
  <2>5. TradesMove
    BY <2>2, <2>3 DEF TradesMove
  <2>6. ~Idle'
    BY <2>3 DEF Idle
  <2> QED  BY <2>4, <2>5, <2>6
<1>4. CASE \E id \in pending : EngineEvaluateRaises(id)
  <2>1. PICK id \in pending : EngineEvaluateRaises(id)
    BY <1>4
  <2>2. EvaluateRaises(id) /\ BookFill /\ batch' = {} /\ trades' = trades
    BY <2>1 DEF EngineEvaluateRaises
  <2>3. capital' = capital /\ holdLost' = holdLost
    BY <2>2 DEF EvaluateRaises
  <2>4. holdLost
    BY <1>1, <2>2, RaisingNeedsLostHold
  <2>5. StandsStill \/ \E x : BooksOne(x)
    BY <1>1, <2>2, <2>3, EvaluateRaisesFills, BookFillMoves
  <2>6. TradesMove
    BY <2>2, <2>3, <2>4 DEF TradesMove
  <2> QED  BY <2>2, <2>5, <2>6
<1>5. CASE \E amount \in Capitals : EngineReset(amount)
  <2>1. PICK amount \in Capitals : EngineReset(amount)
    BY <1>5
  <2>2. Reset(amount) /\ Idle /\ batch' = batch
    BY <2>1 DEF EngineReset, Reset
  <2>3. batch' = {}
    BY <1>1, <2>2
  <2> QED  BY <2>1, <2>2, <2>3 DEF EngineReset, Reset, ResetPositions, StartsAfresh
<1>6. ASSUME Quiet(Book, Book'), UNCHANGED <<lots, realized_since_open, realized, capital>>,
             \/ holdLost' = holdLost /\ trades' \cup batch' = trades \cup batch
             \/ holdLost' /\ trades' \cup batch' = trades \cup batch
      PROVE  TradesMove /\ StandsStill
  <2>1. TradesNow = {}
    BY <1>6, NothingFilledNow
  <2> QED  BY <1>6, <2>1 DEF TradesMove, StandsStill
<1>7. CASE \E id \in 1..Len(orders) : EngineCancelOrder(id)
  <2>1. PICK id \in 1..Len(orders) : CancelOrder(id) /\ UNCHANGED <<lotVars, ledgerVars>>
    BY <1>7 DEF EngineCancelOrder
  <2>2. Quiet(Book, Book')
    BY <1>1, <2>1, CancelOrderQuiet
  <2>3. Idle /\ tick' = tick /\ capital' = capital /\ holdLost' = holdLost
    BY <2>1 DEF CancelOrder
  <2> QED  BY <1>1, <1>6, <2>1, <2>2, <2>3 DEF lotVars, ledgerVars
<1>8. CASE \E id \in 1..Len(orders), mod \in Modifications : EngineModifyOrder(id, mod)
  <2>1. PICK id \in 1..Len(orders), mod \in Modifications :
          /\ ModifyOrder(id, mod) \/ ModifyLosesHold(id, mod)
          /\ UNCHANGED <<lotVars, ledgerVars>>
    BY <1>8 DEF EngineModifyOrder
  <2>2. Quiet(Book, Book')
    BY <1>1, <2>1, ModifyOrderQuiet, OrdersKeptQuiet DEF ModifyLosesHold
  <2>3. Idle /\ tick' = tick /\ capital' = capital /\ (holdLost' = holdLost \/ holdLost')
    BY <2>1 DEF ModifyOrder, ModifyLosesHold
  <2> QED  BY <1>1, <1>6, <2>1, <2>2, <2>3 DEF lotVars, ledgerVars
<1>9. CASE \E symbol \in Symbols, px \in Prices : EngineBeginPriceUpdate(symbol, px)
  <2>1. PICK symbol \in Symbols, px \in Prices :
          BeginPriceUpdate(symbol, px) /\ UNCHANGED <<lotVars, ledgerVars>>
    BY <1>9 DEF EngineBeginPriceUpdate
  <2>2. Quiet(Book, Book') /\ Idle /\ capital' = capital /\ holdLost' = holdLost
    BY <2>1, OrdersKeptQuiet DEF BeginPriceUpdate
  <2> QED  BY <1>1, <1>6, <2>1, <2>2 DEF lotVars, ledgerVars
<1>10. CASE EngineEndPriceUpdate
  <2>1. /\ EndPriceUpdate /\ UpdateLastPrice(tick.symbol, tick.price)
        /\ trades' = trades \cup batch /\ batch' = {} /\ UNCHANGED realized
    BY <1>10 DEF EngineEndPriceUpdate
  <2>2. Quiet(Book, Book') /\ capital' = capital /\ holdLost' = holdLost
    BY <2>1, OrdersKeptQuiet DEF EndPriceUpdate
  <2> QED  BY <1>6, <2>1, <2>2 DEF UpdateLastPrice
<1>11. CASE UNCHANGED vars
  <2>1. UNCHANGED <<bookVars, lotVars, ledgerVars>>
    BY <1>11 DEF vars
  <2>2. Quiet(Book, Book') /\ tick' = tick /\ capital' = capital /\ holdLost' = holdLost
    BY <2>1, OrdersKeptQuiet DEF bookVars
  <2>3. Idle' => batch' = {}
    BY <1>1, <2>1, <2>2 DEF ledgerVars, Idle
  <2> QED  BY <1>6, <2>1, <2>2, <2>3 DEF lotVars, ledgerVars
<1> QED
  BY <1>2, <1>3, <1>4, <1>5, <1>7, <1>8, <1>9, <1>10, <1>11 DEF Next

\* Nothing has happened yet.
LEMMA EmptyFits ==
  ASSUME NEW b, b.orders = <<>>, b.cash \in Int, NEW L, L = [s \in Symbols |-> <<>>]
  PROVE  /\ LotsFit(b, L)
         /\ TradesFit(b, {})
         /\ CashFits(b, L, b.cash, 0)
         /\ NetFits(b, L)
         /\ HistoryFits(b, L, {}, 0)
<1>1. Ids(b) = {}
  BY DEF Ids
<1>2. LotsFit(b, L)
  BY DEF LotsFit, OneSided, UnitsMatch
<1>3. TradesFit(b, {})
  BY FS_EmptySet DEF TradesFit
<1>4. SumOf(Paid, <<>>) = 0
  <2> DEFINE f == Mapped(Paid, <<>>)
  <2>1. DOMAIN f = {}
    BY DEF Mapped
  <2> HIDE DEF f
  <2>2. SumFunction(f) = 0
    BY <2>1, SumEmpty DEF SumFunction
  <2> QED  BY <2>2 DEF f, SumOf
<1>5. Open(L) = 0
  <2> DEFINE f == [s \in Symbols |-> SumOf(Paid, L[s])]
             v == 0
             S == Symbols
  <2>1. DOMAIN f = S /\ v \in Int /\ v = 0 /\ IsFiniteSet(S) /\ \A s \in S : f[s] = v
    BY <1>4, PaperEngineAssumption
  <2>2. Cardinality(S) \in Nat
    BY <2>1, FS_CardinalityType
  <2> HIDE DEF f, v, S
  <2>3. SumFunctionOnSet(f, S) = Cardinality(S) * v
    BY <2>1, SumConstant
  <2>4. SumFunction(f) = 0
    BY <2>1, <2>2, <2>3 DEF SumFunction
  <2> QED  BY <2>4 DEF Open, f
<1>6. CashFits(b, L, b.cash, 0)
  BY <1>5 DEF CashFits
<1>7. NetFits(b, L)
  <2>1. \A s \in Symbols : FilledOf(b, s) = {} /\ Net(L[s]) = 0
    BY <1>1 DEF FilledOf, Net
  <2>2. \A s \in Symbols : SumFunctionOnSet(Fill(b), FilledOf(b, s)) = 0
    BY <2>1, SumEmpty
  <2> QED  BY <2>1, <2>2 DEF NetFits
<1>8. HistoryFits(b, L, {}, 0)
  <2> DEFINE f == PnlOf({})
  <2>1. DOMAIN f = {}
    BY DEF PnlOf
  <2> HIDE DEF f
  <2>2. SumFunction(f) = 0
    BY <2>1, SumEmpty DEF SumFunction
  <2> QED  BY <1>1, <2>2 DEF HistoryFits, f
<1> QED  BY <1>2, <1>3, <1>6, <1>7, <1>8

LEMMA CapitalIsInt == Capitals \subseteq Nat
BY OrderBookAssumption

LEMMA InitEngineInv == Init => EngineInv
<1> SUFFICES ASSUME Init PROVE EngineInv
  OBVIOUS
<1>1. IInv /\ BooksCovered
  BY InitIInv, InitCovered DEF Init
<1>2. /\ lots = [s \in Symbols |-> <<>>]
      /\ realized_since_open = [s \in Symbols |-> 0]
      /\ realized = 0 /\ trades = {} /\ batch = {} /\ trades \cup batch = {}
  BY DEF Init, PositionsInit
<1>3. FlatIsZero
  BY <1>2 DEF FlatIsZero
<1>4. Book.orders = <<>> /\ Book.cash = capital /\ capital \in Int
  BY CapitalIsInt DEF Init, BookInit, Book
<1> DEFINE b == Book
<1> HIDE DEF b
<1>5. /\ LotsFit(b, lots)
      /\ TradesFit(b, {})
      /\ CashFits(b, lots, capital, 0)
      /\ NetFits(b, lots)
      /\ HistoryFits(b, lots, {}, 0)
  BY <1>2, <1>4, EmptyFits DEF b
<1>6. LedgerFits(trades \cup batch)
  BY <1>2, <1>5 DEF LedgerFits, b
<1> QED  BY <1>1, <1>2, <1>3, <1>6 DEF EngineInv

\* Fewer trades fit as well.
LEMMA FewerTradesFit ==
  ASSUME NEW b, NEW T, TradesFit(b, T), NEW S, S \subseteq T
  PROVE  TradesFit(b, S)
BY FS_Subset DEF TradesFit

LEMMA StillFits ==
  ASSUME EngineInv, IInv', StandsStill, TradesMove
  PROVE  FlatIsZero' /\ LedgerFits(trades \cup batch)'
<1> DEFINE b == Book
           c == Book'
           T == trades \cup batch
           U == trades' \cup batch'
<1>1. Typed(b) /\ Typed(c)
  BY DEF EngineInv, IInv, Sound, SoundBut
<1>2. FillsBut(b, c, 0) /\ c.cash = b.cash
  BY DEF StandsStill, Quiet
<1>3. /\ lots' = lots /\ realized' = realized /\ capital' = capital
      /\ realized_since_open' = realized_since_open
  BY DEF StandsStill
<1>4. /\ LotsFit(b, lots) /\ TradesFit(b, T) /\ realized \in Int
      /\ CashFits(b, lots, capital, realized) /\ NetFits(b, lots)
      /\ ~holdLost => HistoryFits(b, lots, T, realized)
  BY DEF EngineInv, LedgerFits
<1>5. U \subseteq T /\ (~holdLost' => ~holdLost /\ U = T)
  BY DEF StandsStill, TradesMove
<1> HIDE DEF b, c, T, U
<1>6. LotsFit(c, lots)
  BY <1>2, <1>4, LotsStayFit
<1>7. TradesFit(c, U)
  BY <1>2, <1>4, <1>5, TradesStayFit, FewerTradesFit
<1>8. CashFits(c, lots, capital, realized)
  BY <1>2, <1>4 DEF CashFits
<1>9. NetFits(c, lots)
  BY <1>1, <1>2, <1>4, QuietNets
<1>10. ~holdLost' => HistoryFits(c, lots, U, realized)
  BY <1>1, <1>2, <1>4, <1>5, QuietHistory
<1>11. LedgerFits(trades \cup batch)'
  BY <1>3, <1>4, <1>6, <1>7, <1>8, <1>9, <1>10 DEF LedgerFits, c, U
<1>12. FlatIsZero'
  BY <1>3 DEF EngineInv, FlatIsZero
<1> QED  BY <1>11, <1>12

LEMMA FillFits ==
  ASSUME EngineInv, IInv', NEW x, BooksOne(x), TradesMove
  PROVE  FlatIsZero' /\ LedgerFits(trades \cup batch)'
<1> DEFINE b == Book
           c == Book'
           T == trades \cup batch
           U == trades' \cup batch'
           M == After(c, lots, x)
           gain == Gain(c, lots, x)
<1>1. Typed(b) /\ Typed(c) /\ capital \in Int
  BY CapitalIsInt DEF EngineInv, IInv, TypeOK, Sound, SoundBut
<1>2. FillsOne(b, c, x) /\ FillsBut(b, c, x)
  BY DEF BooksOne, FillsOne
<1>3. lots' = M /\ realized' = realized + gain /\ capital' = capital
  BY DEF BooksOne
<1>4. /\ LotsFit(b, lots) /\ TradesFit(b, T) /\ realized \in Int
      /\ CashFits(b, lots, capital, realized) /\ NetFits(b, lots)
      /\ ~holdLost => HistoryFits(b, lots, T, realized)
  BY DEF EngineInv, LedgerFits
<1>5. /\ U \subseteq T \cup Trades(c, lots, x)
      /\ ~holdLost' => ~holdLost /\ U = T \cup Trades(c, lots, x)
  BY DEF BooksOne, TradesMove
<1>6. realized_since_open' =
        [realized_since_open EXCEPT ![c.orders[x].symbol] =
           IF Rest(c, lots, x) = <<>> THEN 0 ELSE @ + gain]
  <2>1. c.orders = orders'
    BY DEF Book
  <2> QED  BY <2>1 DEF BooksOne
<1> HIDE DEF b, c, T, U
<1>7. LotsFit(c, M) /\ FillMeets(b, c, lots, x)
  BY <1>1, <1>2, <1>4, LotsFitAfterFill, FillMeetsQueue
<1>8. TradesFit(c, U)
  <2> DEFINE N == Trades(c, lots, x)
             V == T \cup N
  <2>1. TradesFit(c, N) /\ TradesFit(c, T)
    BY <1>1, <1>2, <1>4, TradesFitAfterFill, TradesStayFit
  <2> HIDE DEF N
  <2>2. TradesFit(c, V)
    BY <2>1, FS_Union DEF TradesFit
  <2>3. U \subseteq V
    BY <1>5 DEF N
  <2> HIDE DEF V
  <2> QED  BY <2>2, <2>3, FewerTradesFit
<1>9. gain \in Int /\ CashFits(c, M, capital, realized + gain)
  BY <1>1, <1>2, <1>4, CashFitsAfterFill, PaperEngineAssumption
<1>10. NetFits(c, M)
  BY <1>1, <1>2, <1>4, NetFitsAfterFill
<1>11. ~holdLost' => HistoryFits(c, M, U, realized + gain)
  BY <1>1, <1>2, <1>4, <1>5, HistoryFitsAfterFill
<1> HIDE DEF M, gain
<1>12. LedgerFits(trades \cup batch)'
  <2>1. realized' \in Int
    BY <1>3, <1>4, <1>9
  <2> QED  BY <1>3, <1>7, <1>8, <1>9, <1>10, <1>11, <2>1 DEF LedgerFits, c, U
<1>13. FlatIsZero'
  <2> DEFINE s == c.orders[x].symbol
             v == IF Rest(c, lots, x) = <<>> THEN 0 ELSE realized_since_open[s] + gain
  <2>1. FlatIsZero /\ s \in Symbols
    BY <1>7 DEF EngineInv, FillMeets
  <2>2. v \in Int
    BY <1>9, <2>1 DEF FlatIsZero
  <2>3. realized_since_open' = [realized_since_open EXCEPT ![s] = v]
    BY <1>6, <2>1 DEF FlatIsZero
  <2>4. realized_since_open' \in [Symbols -> Int]
    BY <2>1, <2>2, <2>3 DEF FlatIsZero
  <2>5. \A r \in Symbols : M[r] = IF r = s THEN Rest(c, lots, x) \o New(c, lots, x) ELSE lots[r]
    BY <1>7 DEF FillMeets, M
  <2>6. Rest(c, lots, x) \o New(c, lots, x) = <<>> => v = 0
    <3> DEFINE o == c.orders[x]
               q == Was(c, lots, x)
               kept == Rest(c, lots, x)
               opened == New(c, lots, x)
    <3>1. /\ q \in Seq(Unit) /\ o.side \in Sides /\ o.quantity \in Nat
          /\ o.average_fill_price \in Nat /\ x \in Nat
      BY <1>7 DEF FillMeets
    <3>2. kept \in Seq(Unit) /\ opened \in Seq(Unit)
      BY <3>1, QueueParts DEF Parts, Rest, New
    <3> HIDE DEF kept, opened
    <3>3. kept \o opened = <<>> => kept = <<>>
      BY <3>2
    <3> QED  BY <3>3 DEF kept, opened
  <2>7. ASSUME NEW r \in Symbols, M[r] = <<>>
        PROVE  realized_since_open'[r] = 0
    <3>1. CASE r = s
      BY <2>1, <2>2, <2>3, <2>5, <2>6, <2>7, <3>1 DEF FlatIsZero
    <3>2. CASE r # s
      BY <2>1, <2>3, <2>5, <2>7, <3>2 DEF FlatIsZero
    <3> QED  BY <3>1, <3>2
  <2> QED  BY <1>3, <2>4, <2>7 DEF FlatIsZero
<1> QED  BY <1>12, <1>13

LEMMA NextEngineInv == EngineInv /\ [Next]_vars => EngineInv'
<1> SUFFICES ASSUME EngineInv, [Next]_vars PROVE EngineInv'
  OBVIOUS
<1>1. [BookNext]_bookVars
  BY EngineStepsAreBookSteps
<1>2. IInv' /\ BooksCovered'
  BY <1>1, NextIInv, NextCovered DEF EngineInv
<1>3. /\ Idle' => batch' = {}
      /\ \/ StartsAfresh
         \/ TradesMove /\ (StandsStill \/ \E x : BooksOne(x))
  BY <1>2, StepMoves
<1>4. CASE StartsAfresh
  <2>1. /\ lots' = [s \in Symbols |-> <<>>]
        /\ realized_since_open' = [s \in Symbols |-> 0]
        /\ realized' = 0 /\ trades' \cup batch' = {}
    BY <1>4 DEF StartsAfresh
  <2>2. FlatIsZero'
    BY <2>1 DEF FlatIsZero
  <2> DEFINE c == Book'
  <2>3. c.orders = <<>> /\ c.cash = capital' /\ capital' \in Int
    BY <1>4, CapitalIsInt DEF StartsAfresh, Book
  <2> HIDE DEF c
  <2>4. /\ LotsFit(c, lots')
        /\ TradesFit(c, {})
        /\ CashFits(c, lots', capital', 0)
        /\ NetFits(c, lots')
        /\ HistoryFits(c, lots', {}, 0)
    BY <2>1, <2>3, EmptyFits
  <2>5. LedgerFits(trades \cup batch)'
    <3>1. realized' \in Int /\ 0 \in Int
      BY <2>1
    <3> QED  BY <2>1, <2>4, <3>1 DEF LedgerFits, c
  <2> QED  BY <1>2, <1>3, <2>2, <2>5 DEF EngineInv
<1>5. CASE TradesMove /\ (StandsStill \/ \E x : BooksOne(x))
  <2>1. FlatIsZero' /\ LedgerFits(trades \cup batch)'
    BY <1>2, <1>5, StillFits, FillFits
  <2> QED  BY <1>2, <1>3, <2>1 DEF EngineInv
<1> QED  BY <1>3, <1>4, <1>5

THEOREM EngineStaysSound == Spec => []EngineInv
BY InitEngineInv, NextEngineInv, PTL DEF Spec

-----------------------------------------------------------------------------
(***************************************************************************)
(* The theorems.                                                           *)
(***************************************************************************)
\* The amounts a property sums are those the invariant sums.
LEMMA CostOfOpen ==
  ASSUME EngineInv, NEW s \in Symbols
  PROVE  CostBasis(s) = SumOf(Paid, lots[s])
<1> DEFINE q == lots[s]
           f == [i \in 1..Len(q) |-> Sign(q[i].side) * q[i].price]
<1>1. q \in Seq(Unit)
  BY DEF EngineInv, LedgerFits, LotsFit
<1>2. CostBasis(s) = SumFunction(f)
  BY DEF CostBasis
<1> HIDE DEF q
<1>3. \A i \in 1..Len(q) : q[i] \in Unit
  BY <1>1
<1>4. f = Mapped(Paid, q)
  BY <1>3 DEF Mapped, Paid
<1> QED  BY <1>2, <1>4 DEF SumOf, q

\* Cash and the cost of what is open add up to the capital and the realized
\* P&L, through every partial close, flip, rejection, OCO cancellation and
\* release that raises.
THEOREM CashIsConserved == Spec => []CashConservation
<1>1. EngineInv => CashConservation
  <2> SUFFICES ASSUME EngineInv PROVE CashConservation
    OBVIOUS
  <2>1. CashFits(Book, lots, capital, realized) /\ Book.cash = cash
    BY DEF EngineInv, LedgerFits, Book
  <2>2. [s \in Symbols |-> CostBasis(s)] = [s \in Symbols |-> SumOf(Paid, lots[s])]
    BY CostOfOpen
  <2> QED  BY <2>1, <2>2 DEF CashFits, Open, CashConservation
<1> QED  BY <1>1, EngineStaysSound, PTL

LEMMA HistoryOfInv ==
  ASSUME EngineInv
  PROVE  HistoryExplainsPnl /\ EveryUnitAccountedFor /\ TradePnlMatchesFills
<1> DEFINE T == trades \cup batch
<1>1. /\ Book.orders = orders /\ Ids(Book) = 1..Len(orders)
      /\ TradesFit(Book, T)
      /\ ~holdLost => HistoryFits(Book, lots, T, realized)
  BY DEF EngineInv, LedgerFits, Book, Ids
<1> HIDE DEF Book
<1>2. TradePnlMatchesFills
  BY <1>1 DEF TradesFit, TradeFits, TradePnlMatchesFills
<1>3. HistoryExplainsPnl
  BY <1>1 DEF HistoryFits, HistoryExplainsPnl, PnlOf
<1>4. EveryUnitAccountedFor
  <2> SUFFICES ASSUME ~holdLost, NEW id \in 1..Len(orders)
               PROVE  OpenUnits(id) + TradedUnits(id)
                        = IF orders[id].status = "COMPLETE" THEN orders[id].quantity ELSE 0
    BY DEF EveryUnitAccountedFor
  <2>1. OpenUnits(id) + TradedUnits(id) = Accounted(Book, lots, T, id)
    BY <1>1 DEF OpenUnits, TradedUnits, Accounted, Of, QuantityOf, Mine
  <2>2. Accounted(Book, lots, T, id)
          = IF Filled(Book, id) THEN Book.orders[id].quantity ELSE 0
    BY <1>1 DEF HistoryFits
  <2> QED  BY <1>1, <2>1, <2>2 DEF Filled
<1> QED  BY <1>2, <1>3, <1>4

\* The trade history explains the realized P&L, and every trade is priced by
\* its two orders' fills: no trade is lost or counted twice between a fill and
\* the end of its price update.
THEOREM HistoryStaysExplained == Spec => []HistoryMatchesFills
<1>1. EngineInv => HistoryMatchesFills
  BY HistoryOfInv DEF HistoryMatchesFills
<1> QED  BY <1>1, EngineStaysSound, PTL

\* Every unit an order filled is open, or closed, or closed another, and a
\* position is the net of its fills, on one side.
THEOREM PositionsStayMatched == Spec => []PositionsMatchFills
<1>1. EngineInv => PositionsMatchFills
  <2> SUFFICES ASSUME EngineInv PROVE PositionsMatchFills
    OBVIOUS
  <2>1. /\ Book.orders = orders /\ Ids(Book) = 1..Len(orders)
        /\ LotsFit(Book, lots) /\ NetFits(Book, lots)
    BY DEF EngineInv, LedgerFits, Book, Ids
  <2> HIDE DEF Book
  <2>2. ASSUME NEW s \in Symbols
        PROVE  /\ \A i \in 1..Len(lots[s]) : lots[s][i].side = lots[s][1].side
               /\ NetQuantity(s) =
                    SumFunction([id \in FilledOrders(s) |-> Sign(orders[id].side) * orders[id].quantity])
    <3> DEFINE S == FilledOrders(s)
               f == Fill(Book)
               g == [id \in S |-> Sign(orders[id].side) * orders[id].quantity]
    <3>1. S = FilledOf(Book, s)
      BY <2>1 DEF FilledOrders, FilledOf
    <3>2. IsFiniteSet(S) /\ \A i \in S : g[i] = f[i]
      <4>1. Typed(Book)
        BY BookTypes DEF EngineInv
      <4>2. IsFiniteSet(FilledOf(Book, s)) /\ FilledOf(Book, s) \subseteq Ids(Book)
        BY <4>1, FillType
      <4> QED  BY <2>1, <3>1, <4>2 DEF Fill
    <3>3. NetQuantity(s) = SumFunctionOnSet(f, S)
      BY <2>1, <3>1 DEF NetFits, NetQuantity, Net
    <3>4. DOMAIN g = S
      OBVIOUS
    <3> HIDE DEF S, f, g
    <3>5. SumFunction(g) = SumFunctionOnSet(f, S)
      BY <3>2, <3>4, SumAgree DEF SumFunction
    <3>6. OneSided(lots[s])
      BY <2>1 DEF LotsFit
    <3> QED  BY <3>3, <3>5, <3>6 DEF OneSided, g, S
  <2>3. PositionIsNetOfFills
    BY <2>2 DEF PositionIsNetOfFills
  <2> QED  BY <2>3, HistoryOfInv DEF PositionsMatchFills
<1> QED  BY <1>1, EngineStaysSound, PTL

\* The step of one position's own realized P&L.
Follows(symbol) ==
    LET old == lots[symbol]
        new == lots'[symbol]
    IN  realized_since_open'[symbol] =
          IF \E i \in 1..Len(old), j \in 1..Len(new) : old[i] = new[j]
          THEN realized_since_open[symbol]
                 + (IF old = new THEN 0 ELSE realized' - realized)
          ELSE 0

LEMMA SameLotsFollow ==
  ASSUME EngineInv, NEW s \in Symbols, lots'[s] = lots[s],
         realized_since_open'[s] = realized_since_open[s]
  PROVE  Follows(s)
<1>1. lots[s] \in Seq(Unit) /\ FlatIsZero
  BY DEF EngineInv, LedgerFits, LotsFit
<1>2. realized_since_open[s] \in Int
  BY <1>1 DEF FlatIsZero
<1>3. CASE lots[s] = <<>>
  <2>1. realized_since_open[s] = 0
    BY <1>1, <1>3 DEF FlatIsZero
  <2> QED  BY <1>3, <2>1 DEF Follows
<1>4. CASE lots[s] # <<>>
  <2>1. 1 \in 1..Len(lots[s])
    BY <1>1, <1>4
  <2>2. \E i \in 1..Len(lots[s]), j \in 1..Len(lots'[s]) : lots[s][i] = lots'[s][j]
    BY <2>1
  <2> QED  BY <1>2, <2>2 DEF Follows
<1> QED  BY <1>3, <1>4

LEMMA FilledLotsFollow ==
  ASSUME EngineInv, IInv', NEW x, BooksOne(x)
  PROVE  \A s \in Symbols : Follows(s)
<1> DEFINE b == Book
           c == Book'
           o == c.orders[x]
           r == o.symbol
           n == o.quantity
           px == o.average_fill_price
           side == o.side
           q == Was(c, lots, x)
           kept == Rest(c, lots, x)
           opened == New(c, lots, x)
           now == kept \o opened
           gain == Gain(c, lots, x)
           k == CloseCount(q, side, n)
           closed == Closed(q, side, n)
<1>1. Typed(b) /\ Typed(c) /\ FlatIsZero /\ LotsFit(b, lots) /\ realized \in Int
      /\ capital \in Int /\ CashFits(b, lots, capital, realized)
  BY CapitalIsInt DEF EngineInv, LedgerFits, IInv, TypeOK, Sound, SoundBut
<1>2. /\ FillsOne(b, c, x)
      /\ lots' = After(c, lots, x)
      /\ realized' = realized + gain
      /\ realized_since_open' =
           [realized_since_open EXCEPT ![r] =
              IF kept = <<>> THEN 0 ELSE @ + gain]
  <2>1. c.orders = orders'
    BY DEF Book
  <2> QED  BY <2>1 DEF BooksOne
<1> HIDE DEF b, c
<1>3. FillMeets(b, c, lots, x)
  BY <1>1, <1>2, FillMeetsQueue
<1>4. gain \in Int
  BY <1>1, <1>2, CashFitsAfterFill, PaperEngineAssumption
<1>5. /\ x \in Nat /\ r \in Symbols /\ side \in Sides /\ n \in Nat \ {0} /\ px \in Nat
      /\ q \in Seq(Unit) /\ OneSided(q) /\ q = lots[r]
      /\ \A i \in 1..Len(q) : q[i].entry # x
      /\ \A s \in Symbols : lots'[s] = IF s = r THEN now ELSE lots[s]
      /\ now \in Seq(Unit)
  BY <1>2, <1>3 DEF FillMeets, Was
<1>6. Parts(q, side, n, px, x, k, closed, kept, opened)
  <2>1. kept = Kept(q, side, n) /\ opened = Opened(q, side, n, px, x)
    BY DEF Rest, New
  <2>2. n \in Nat
    BY <1>5
  <2> HIDE DEF q, side, n, px, kept, opened
  <2> QED  BY <1>5, <2>1, <2>2, QueueParts
<1>7. Net(now) = Net(q) + Sign(side) * n
  <2>1. now = Kept(q, side, n) \o Opened(q, side, n, px, x)
    BY DEF Rest, New
  <2>2. /\ q \in Seq(Unit) /\ OneSided(q) /\ side \in Sides /\ n \in Nat \ {0}
        /\ px \in Nat /\ x \in Nat
    BY <1>5
  <2> HIDE DEF q, side, n, px, now
  <2>3. Net(Kept(q, side, n) \o Opened(q, side, n, px, x)) = Net(q) + Sign(side) * n
    BY ONLY <2>2, FillOneSided
  <2> QED  BY <2>1, <2>3
<1> HIDE DEF o, r, n, px, side, q, kept, opened, gain, k, closed
<1>8. now # q
  <2>1. Net(q) \in Int
    <3>1. Len(q) \in Nat
      BY <1>5
    <3> QED  BY <3>1, SignType DEF Net
  <2> HIDE DEF now
  <2> QED  BY <1>5, <1>7, <2>1, SignType
<1>9. /\ kept \in Seq(Unit) /\ opened \in Seq(Unit) /\ k \in Nat /\ k <= Len(q)
      /\ Len(kept) = Len(q) - k
      /\ \A i \in 1..(Len(q) - k) : kept[i] = q[i + k]
      /\ \A i \in 1..Len(opened) : opened[i].entry = x
  <2>1. /\ kept \in Seq(Unit) /\ opened \in Seq(Unit) /\ k \in Nat /\ k <= Len(q)
        /\ Len(kept) = Len(q) - k
        /\ \A i \in 1..(Len(q) - k) : kept[i] = q[i + k]
        /\ Len(opened) = n - k
        /\ \A i \in 1..(n - k) : opened[i] = [entry |-> x, side |-> side, price |-> px]
    BY <1>6 DEF Parts
  <2> QED  BY <2>1
<1>10. Follows(r)
  <2>1. lots[r] = q /\ lots'[r] = now
    BY <1>5
  <2>2. realized_since_open[r] \in Int
    BY <1>1, <1>5 DEF FlatIsZero
  <2>3. realized_since_open'[r] = IF kept = <<>> THEN 0 ELSE realized_since_open[r] + gain
    BY <1>1, <1>2, <1>5 DEF FlatIsZero
  <2>4. CASE kept = <<>>
    <3>1. now = opened
      BY <1>9, <2>4
    <3>2. \A i \in 1..Len(q), j \in 1..Len(now) : q[i] # now[j]
      <4>1. \A j \in 1..Len(now) : now[j].entry = x
        BY <1>9, <3>1
      <4>2. \A i \in 1..Len(q) : q[i].entry # x
        BY <1>5
      <4> HIDE DEF now
      <4> QED  BY ONLY <4>1, <4>2
    <3> QED  BY <2>1, <2>3, <2>4, <3>2 DEF Follows
  <2>5. CASE kept # <<>>
    <3>1. Len(kept) \in Nat \ {0} /\ Len(q) \in Nat
      BY <1>5, <1>9, <2>5
    <3>2. /\ 1 \in 1..Len(now) /\ now[1] = kept[1]
      <4>1. /\ Len(kept \o opened) = Len(kept) + Len(opened)
            /\ \A i \in 1..Len(kept) : (kept \o opened)[i] = kept[i]
        BY <1>9, ConcatParts
      <4>2. Len(opened) \in Nat
        BY <1>9
      <4> QED  BY <3>1, <4>1, <4>2
    <3>3. 1 + k \in 1..Len(q) /\ kept[1] = q[1 + k]
      BY <1>9, <3>1
    <3>4. \E i \in 1..Len(q), j \in 1..Len(now) : q[i] = now[j]
      BY <3>2, <3>3
    <3>5. realized' - realized = gain
      BY <1>1, <1>2, <1>4
    <3> QED  BY <1>8, <2>1, <2>3, <2>5, <3>4, <3>5 DEF Follows
  <2> QED  BY <2>4, <2>5
<1>11. ASSUME NEW s \in Symbols, s # r
       PROVE  Follows(s)
  <2>1. lots'[s] = lots[s] /\ realized_since_open'[s] = realized_since_open[s]
    BY <1>1, <1>2, <1>5, <1>11 DEF FlatIsZero
  <2> QED  BY <2>1, SameLotsFollow
<1> QED  BY <1>10, <1>11

\* A position's own realized P&L follows the ledger while some unit of it
\* survives, and starts again at 0 once all of it has been closed.
THEOREM PositionPnlFollows == Spec => PositionPnlFollowsLedger
<1>1. EngineInv /\ [Next]_vars => [\A symbol \in Symbols : Follows(symbol)]_vars
  <2> SUFFICES ASSUME EngineInv, [Next]_vars, NEW s \in Symbols
               PROVE  Follows(s)
    OBVIOUS
  <2>1. IInv'
    BY EngineStepsAreBookSteps, NextIInv DEF EngineInv
  <2>2. \/ StartsAfresh
        \/ TradesMove /\ (StandsStill \/ \E x : BooksOne(x))
    BY <2>1, StepMoves
  <2>3. CASE StartsAfresh
    <3>1. lots'[s] = <<>> /\ realized_since_open'[s] = 0
      BY <2>3 DEF StartsAfresh
    <3> QED  BY <3>1 DEF Follows
  <2>4. CASE StandsStill
    BY <2>4, SameLotsFollow DEF StandsStill
  <2>5. CASE \E x : BooksOne(x)
    BY <2>1, <2>5, FilledLotsFollow
  <2> QED  BY <2>2, <2>3, <2>4, <2>5
<1>2. [\A symbol \in Symbols : Follows(symbol)]_vars =>
        [\A symbol \in Symbols :
           LET old == lots[symbol]
               new == lots'[symbol]
           IN  realized_since_open'[symbol] =
                 IF \E i \in 1..Len(old), j \in 1..Len(new) : old[i] = new[j]
                 THEN realized_since_open[symbol]
                        + (IF old = new THEN 0 ELSE realized' - realized)
                 ELSE 0]_vars
  BY DEF Follows
<1> QED  BY <1>1, <1>2, EngineStaysSound, PTL DEF Spec, PositionPnlFollowsLedger

==============================================================================
