------------------------------ MODULE OrderBook ------------------------------
(***************************************************************************)
(* The order side of the paper trading engine: app/paper/order_manager.py  *)
(* (placement, cancel, modify, price-driven matching, settlement, OCO      *)
(* cancellation and bracket legs) together with the cash ledger it drives, *)
(* app/paper/portfolio.py.                                                 *)
(*                                                                         *)
(* The engine's coroutines never suspend (every await is on in-memory      *)
(* code), so an API call is one atomic step of the event loop and is one   *)
(* action here.  The only exception is the loop of process_price_update:   *)
(* its body is the action EvaluateNext and `pending` holds the ids still   *)
(* to visit.  No other action is enabled until that loop has ended.        *)
(*                                                                         *)
(* Money is integral.  Every optional field of a request or an order that  *)
(* the code constrains to be positive uses 0 for None.                     *)
(***************************************************************************)
EXTENDS Integers, Sequences, FiniteSets, FiniteSetsExt, Functions

CONSTANTS
    Symbols,        \* instruments, (exchange, symbol) pairs in the code
    Requests,       \* the PaperOrderRequests clients send
    Modifications,  \* the OrderModificationRequests clients send
    Prices,         \* prices the feed reports
    Capitals,       \* amounts an account is opened or reset with
    MaxOrders       \* bound: no client order is accepted past this many

None == 0

Sides == {"BUY", "SELL"}
OrderTypes == {"MARKET", "LIMIT", "STOP", "STOP_LIMIT", "TRAILING_STOP"}
RestingStatuses == {"OPEN", "TRIGGER_PENDING"}
TerminalStatuses == {"COMPLETE", "CANCELLED", "REJECTED"}
TriggerOrderTypes == {"STOP", "STOP_LIMIT", "TRAILING_STOP"}

Opposite(side) == IF side = "BUY" THEN "SELL" ELSE "BUY"

(***************************************************************************)
(* What the fields of a request may hold, and the validators that refuse   *)
(* the rest: the price fields an order type needs, and bracket prices on   *)
(* the right side of an entry price that is known up front.                *)
(***************************************************************************)
RequestType ==
    [symbol : Symbols, side : Sides, order_type : OrderTypes,
     quantity : Nat \ {0}, price : Nat, trigger_price : Nat,
     trailing_amount : Nat, trailing_percent : 0..100,
     stop_loss_price : Nat, target_price : Nat]

\* Mutant of LegIsValid: legs are spawned unchecked.
LegIsValidUnchecked(entry_side, is_stop_loss, leg_price, fill_price) == TRUE

LegIsValid(entry_side, is_stop_loss, leg_price, fill_price) ==
    IF (entry_side = "BUY") = is_stop_loss
    THEN leg_price < fill_price
    ELSE leg_price > fill_price

ValidRequest(req) ==
    /\ req.order_type \in {"LIMIT", "STOP_LIMIT"} => req.price # None
    /\ req.order_type \in {"STOP", "STOP_LIMIT"} => req.trigger_price # None
    /\ req.order_type = "TRAILING_STOP" =>
         (req.trailing_amount = None) # (req.trailing_percent = None)
    /\ req.price # None /\ req.stop_loss_price # None =>
         LegIsValid(req.side, TRUE, req.stop_loss_price, req.price)
    /\ req.price # None /\ req.target_price # None =>
         LegIsValid(req.side, FALSE, req.target_price, req.price)

ModificationType ==
    [quantity : Nat, price : Nat, trigger_price : Nat]

ASSUME OrderBookAssumption ==
    /\ \A req \in Requests : req \in RequestType /\ ValidRequest(req)
    /\ Modifications \subseteq ModificationType
    /\ Prices \subseteq Nat \ {0}
    /\ Capitals \subseteq Nat \ {0}
    /\ MaxOrders \in Nat

-----------------------------------------------------------------------------

VARIABLES
    orders,        \* OrderManager._orders; an id is the insertion index
    reservations,  \* OrderManager._reservations; 0 for an absent key
    cash,          \* PortfolioManager._cash
    reserved,      \* PortfolioManager._reserved_cash
    capital,       \* PortfolioManager._initial_capital
    tick,          \* the price update being processed, or NoTick
    pending,       \* ids process_price_update has still to visit
    holdLost       \* history: a failed modify has lost a reservation

bookVars == <<orders, reservations, cash, reserved, capital, tick, pending, holdLost>>

NoTick == [symbol |-> "", price |-> None]
Idle == tick = NoTick

(***************************************************************************)
(* The books, as the value the operators below transform.                  *)
(***************************************************************************)
Book == [orders |-> orders, reservations |-> reservations,
         cash |-> cash, reserved |-> reserved]

BookBecomes(b) ==
    /\ orders' = b.orders
    /\ reservations' = b.reservations
    /\ cash' = b.cash
    /\ reserved' = b.reserved

Ids(b) == 1..Len(b.orders)

Available(b) == b.cash - b.reserved

Resting(o) == o.status \in RestingStatuses

-----------------------------------------------------------------------------
(***************************************************************************)
(* Reservations.  Only a resting BUY holds cash: quantity times its limit, *)
(* or its trigger when it has no limit.                                    *)
(***************************************************************************)
Hold(o) ==
    IF o.side = "BUY" /\ o.order_type # "MARKET"
    THEN o.quantity * (IF o.price # None THEN o.price ELSE o.trigger_price)
    ELSE 0

\* reserve_cash succeeds; an order that holds nothing never asks.
Fundable(b, o) == Hold(o) = 0 \/ Hold(o) <= Available(b)

\* release_cash does not raise its ValueError.
CanRelease(b, id) == b.reservations[id] <= b.reserved

\* _reservations.pop(id, 0.0), whether or not the release then succeeds.
PopReservation(b, id) == [b EXCEPT !.reservations[id] = 0]

\* Mutant of ReleaseReservation: the ledger is not told.
ReleaseForgetsLedger(b, id) == PopReservation(b, id)

ReleaseReservation(b, id) ==
    [b EXCEPT !.reservations[id] = 0, !.reserved = @ - b.reservations[id]]

\* Store a new order, funding it first: REJECTED, and holding nothing, when
\* the cash is not available.
AddOrder(b, o) ==
    IF Fundable(b, o)
    THEN [b EXCEPT !.orders = Append(@, o),
                   !.reservations = Append(@, Hold(o)),
                   !.reserved = @ + Hold(o)]
    ELSE [b EXCEPT !.orders = Append(@, [o EXCEPT !.status = "REJECTED"]),
                   !.reservations = Append(@, 0)]

-----------------------------------------------------------------------------
(***************************************************************************)
(* Matching.                                                               *)
(***************************************************************************)
TrailingOffset(o, px) ==
    IF o.trailing_amount # None
    THEN o.trailing_amount
    ELSE (px * o.trailing_percent) \div 100

InitialTrailingTrigger(req, px) ==
    IF req.side = "SELL"
    THEN px - TrailingOffset(req, px)
    ELSE px + TrailingOffset(req, px)

\* Mutant of RatchetTrailingTrigger: the trigger follows the price both ways.
TrailBothWays(o, px) ==
    IF o.side = "SELL" THEN px - TrailingOffset(o, px) ELSE px + TrailingOffset(o, px)

\* The trigger follows the price only where that tightens the stop.
RatchetTrailingTrigger(o, px) ==
    LET followed == IF o.side = "SELL"
                    THEN px - TrailingOffset(o, px)
                    ELSE px + TrailingOffset(o, px)
        tighter  == IF o.side = "SELL"
                    THEN followed > o.trigger_price
                    ELSE followed < o.trigger_price
    IN  IF tighter THEN followed ELSE o.trigger_price

IsMarketable(o, px) == IF o.side = "BUY" THEN px <= o.price ELSE px >= o.price

IsTriggered(o, px) ==
    IF o.side = "BUY" THEN px >= o.trigger_price ELSE px <= o.trigger_price

\* The order as _evaluate_and_settle leaves it before deciding on a fill: a
\* stop-limit is released by its trigger, a trailing stop moves its trigger.
Working(o, px) ==
    CASE o.order_type = "STOP_LIMIT" /\ o.status = "TRIGGER_PENDING" /\ IsTriggered(o, px)
           -> [o EXCEPT !.status = "OPEN"]
      [] o.order_type = "TRAILING_STOP"
           -> [o EXCEPT !.trigger_price = RatchetTrailingTrigger(o, px)]
      [] OTHER -> o

\* Whether a working order fills at px.
Fills(o, px) ==
    \/ o.order_type = "MARKET"
    \/ o.order_type = "LIMIT" /\ IsMarketable(o, px)
    \/ o.order_type \in {"STOP", "TRAILING_STOP"} /\ IsTriggered(o, px)
    \/ o.order_type = "STOP_LIMIT" /\ o.status = "OPEN" /\ IsMarketable(o, px)

-----------------------------------------------------------------------------
(***************************************************************************)
(* Settlement.                                                             *)
(***************************************************************************)
\* The other resting leg of a bracket.  A group is created once per entry,
\* by the entry's fill, so the parent identifies it.
Siblings(b, id) ==
    {other \in Ids(b) : /\ other # id
                        /\ b.orders[id].parent_order_id # None
                        /\ b.orders[other].parent_order_id = b.orders[id].parent_order_id
                        /\ Resting(b.orders[other])}

SiblingReleaseFails(b, id) ==
    \E other \in Siblings(b, id) : ~CanRelease(b, other)

\* Mutants of CancelSibling: the hold is kept; nothing is cancelled.
CancelSiblingKeepsHold(b, id) ==
    [b EXCEPT !.orders = [i \in Ids(b) |->
        IF i \in Siblings(b, id) THEN [@[i] EXCEPT !.status = "CANCELLED"] ELSE @[i]]]

CancelNoSibling(b, id) == b

CancelSibling(b, id) ==
    IF Siblings(b, id) = {} THEN b
    ELSE LET other == CHOOSE s \in Siblings(b, id) : TRUE
         IN  [ReleaseReservation(b, other) EXCEPT !.orders[other].status = "CANCELLED"]

PopSibling(b, id) ==
    LET other == CHOOSE s \in Siblings(b, id) : TRUE IN PopReservation(b, other)

\* A bracket leg of the filled entry id.
Leg(b, id, order_type, price, trigger_price, status) ==
    LET entry == b.orders[id]
    IN  [symbol |-> entry.symbol, side |-> Opposite(entry.side),
         order_type |-> order_type, quantity |-> entry.quantity,
         price |-> price, trigger_price |-> trigger_price,
         trailing_amount |-> None, trailing_percent |-> None,
         stop_loss_price |-> None, target_price |-> None,
         average_fill_price |-> None, parent_order_id |-> id, status |-> status]

\* One leg, skipped when absent or on the wrong side of the fill price.
SpawnLeg(b, id, is_stop_loss, leg_price, leg) ==
    IF /\ leg_price # None
       /\ LegIsValid(b.orders[id].side, is_stop_loss, leg_price,
                     b.orders[id].average_fill_price)
    THEN AddOrder(b, leg)
    ELSE b

SpawnStopLoss(b, id) ==
    LET px == b.orders[id].stop_loss_price
    IN  SpawnLeg(b, id, TRUE, px, Leg(b, id, "STOP", None, px, "TRIGGER_PENDING"))

SpawnTarget(b, id) ==
    LET px == b.orders[id].target_price
    IN  SpawnLeg(b, id, FALSE, px, Leg(b, id, "LIMIT", px, None, "OPEN"))

\* Legs are spawned by entries only: a leg has a parent and spawns nothing.
SpawnBracket(b, id) ==
    IF b.orders[id].parent_order_id # None THEN b
    ELSE SpawnTarget(SpawnStopLoss(b, id), id)

\* The fill itself: a BUY is debited, a SELL credited, whatever it closes.
Complete(b, id, o, px) ==
    [b EXCEPT !.cash = IF o.side = "BUY" THEN @ - o.quantity * px ELSE @ + o.quantity * px,
              !.orders[id] = [o EXCEPT !.status = "COMPLETE", !.average_fill_price = px]]

\* Mutant of Affordable: the debit is unchecked.
AffordableUnchecked(b, o, px) == TRUE

\* debit compares the cost with cash, not with what is available.
Affordable(b, o, px) == o.side = "BUY" => o.quantity * px <= b.cash

Reject(b, id, o) == [b EXCEPT !.orders[id] = [o EXCEPT !.status = "REJECTED"]]

\* The order matches but its own release, or its sibling's, raises.
SettleRaises(b, id, px) ==
    LET o == Working(b.orders[id], px)
        r == ReleaseReservation(b, id)
    IN  /\ Fills(o, px)
        /\ \/ ~CanRelease(b, id)
           \/ Affordable(r, o, px) /\ SiblingReleaseFails(Complete(r, id, o, px), id)

\* _evaluate_and_settle when nothing raises.
Settled(b, id, px) ==
    LET o == Working(b.orders[id], px)
        r == ReleaseReservation(b, id)
    IN  IF ~Fills(o, px) THEN [b EXCEPT !.orders[id] = o]
        ELSE IF ~Affordable(r, o, px) THEN Reject(r, id, o)
        ELSE SpawnBracket(CancelSibling(Complete(r, id, o, px), id), id)

\* _evaluate_and_settle when a release raises: what was done stays done.
HalfSettled(b, id, px) ==
    LET o == Working(b.orders[id], px)
        r == ReleaseReservation(b, id)
    IN  IF ~CanRelease(b, id) THEN PopReservation(b, id)
        ELSE PopSibling(Complete(r, id, o, px), id)

-----------------------------------------------------------------------------
(***************************************************************************)
(* The operations.                                                         *)
(***************************************************************************)
\* The PaperOrder built from a request at the current price.
NewOrder(req, px) ==
    [symbol |-> req.symbol, side |-> req.side, order_type |-> req.order_type,
     quantity |-> req.quantity, price |-> req.price,
     trigger_price |-> IF req.order_type = "TRAILING_STOP"
                       THEN InitialTrailingTrigger(req, px)
                       ELSE req.trigger_price,
     trailing_amount |-> req.trailing_amount,
     trailing_percent |-> req.trailing_percent,
     stop_loss_price |-> req.stop_loss_price, target_price |-> req.target_price,
     average_fill_price |-> None, parent_order_id |-> None,
     status |-> IF req.order_type \in TriggerOrderTypes
                THEN "TRIGGER_PENDING" ELSE "OPEN"]

\* place_order.  The model's order fails validation, and nothing happens,
\* when a trailing offset puts the first trigger at or below zero.  The
\* order's own release cannot raise: it was reserved a moment before.
PlaceOrder(req, px) ==
    LET o  == NewOrder(req, px)
        b  == AddOrder(Book, o)
        id == Len(orders) + 1
    IN  /\ Idle
        /\ Len(orders) < MaxOrders
        /\ o.order_type = "TRAILING_STOP" => o.trigger_price > 0
        /\ BookBecomes(IF Fundable(Book, o) THEN Settled(b, id, px) ELSE b)
        /\ UNCHANGED <<capital, tick, pending, holdLost>>

\* cancel_order.  The reservation is popped before release_cash can raise.
CancelOrder(id) ==
    /\ Idle
    /\ Resting(orders[id])
    /\ BookBecomes(IF CanRelease(Book, id)
                   THEN [ReleaseReservation(Book, id)
                           EXCEPT !.orders[id].status = "CANCELLED"]
                   ELSE PopReservation(Book, id))
    /\ UNCHANGED <<capital, tick, pending, holdLost>>

Modified(o, mod) ==
    [o EXCEPT !.quantity = IF mod.quantity # None THEN mod.quantity ELSE @,
              !.price = IF mod.price # None THEN mod.price ELSE @,
              !.trigger_price = IF mod.trigger_price # None THEN mod.trigger_price ELSE @]

\* modify_order that succeeds: the old hold is given back before the new one
\* is asked for.
ModifyOrder(id, mod) ==
    LET o   == Modified(orders[id], mod)
        r   == ReleaseReservation(Book, id)
    IN  /\ Idle
        /\ Resting(orders[id])
        /\ CanRelease(Book, id)
        /\ Fundable(r, o)
        /\ BookBecomes([r EXCEPT !.orders[id] = o,
                                 !.reservations[id] = Hold(o),
                                 !.reserved = @ + Hold(o)])
        /\ UNCHANGED <<capital, tick, pending, holdLost>>

\* modify_order that cannot be funded, and whose attempt to reserve the old
\* amount again fails too: _reservations still names an amount the ledger no
\* longer holds.  (When the old amount can be reserved again nothing changes.)
ModifyLosesHold(id, mod) ==
    LET r == ReleaseReservation(Book, id)
    IN  /\ Idle
        /\ Resting(orders[id])
        /\ CanRelease(Book, id)
        /\ ~Fundable(r, Modified(orders[id], mod))
        /\ reservations[id] > Available(r)
        /\ reserved' = r.reserved
        /\ holdLost' = TRUE
        /\ UNCHANGED <<orders, reservations, cash, capital, tick, pending>>

\* process_price_update: the candidates are the orders resting on entry.
BeginPriceUpdate(symbol, px) ==
    /\ Idle
    /\ tick' = [symbol |-> symbol, price |-> px]
    /\ pending' = {id \in Ids(Book) : orders[id].symbol = symbol /\ Resting(orders[id])}
    /\ UNCHANGED <<orders, reservations, cash, reserved, capital, holdLost>>

\* The next candidate, in insertion order.
IsNext(id) == \A other \in pending : id <= other

\* Mutant of EvaluateNext: the candidate is not looked at again.
EvaluateStale(id) ==
    /\ ~Idle
    /\ id \in pending /\ IsNext(id)
    /\ ~SettleRaises(Book, id, tick.price)
    /\ BookBecomes(Settled(Book, id, tick.price))
    /\ pending' = pending \ {id}
    /\ UNCHANGED <<capital, tick, holdLost>>

\* One pass of the loop; a candidate settled meanwhile is skipped.
EvaluateNext(id) ==
    /\ ~Idle
    /\ id \in pending /\ IsNext(id)
    /\ ~(Resting(orders[id]) /\ SettleRaises(Book, id, tick.price))
    /\ BookBecomes(IF Resting(orders[id]) THEN Settled(Book, id, tick.price) ELSE Book)
    /\ pending' = pending \ {id}
    /\ UNCHANGED <<capital, tick, holdLost>>

\* The pass in which release_cash raises: the exception ends the update and
\* the candidates left are not visited.
EvaluateRaises(id) ==
    /\ ~Idle
    /\ id \in pending /\ IsNext(id)
    /\ Resting(orders[id])
    /\ SettleRaises(Book, id, tick.price)
    /\ BookBecomes(HalfSettled(Book, id, tick.price))
    /\ tick' = NoTick
    /\ pending' = {}
    /\ UNCHANGED <<capital, holdLost>>

EndPriceUpdate ==
    /\ ~Idle
    /\ pending = {}
    /\ tick' = NoTick
    /\ UNCHANGED <<orders, reservations, cash, reserved, capital, pending, holdLost>>

\* PortfolioManager.reset and OrderManager.reset.
Reset(amount) ==
    /\ Idle
    /\ orders' = <<>>
    /\ reservations' = <<>>
    /\ cash' = amount
    /\ reserved' = 0
    /\ capital' = amount
    /\ holdLost' = FALSE
    /\ UNCHANGED <<tick, pending>>

BookInit ==
    /\ orders = <<>>
    /\ reservations = <<>>
    /\ capital \in Capitals
    /\ cash = capital
    /\ reserved = 0
    /\ tick = NoTick
    /\ pending = {}
    /\ holdLost = FALSE

BookNext ==
    \/ \E req \in Requests, px \in Prices : PlaceOrder(req, px)
    \/ \E id \in 1..Len(orders) : CancelOrder(id)
    \/ \E id \in 1..Len(orders), mod \in Modifications : ModifyOrder(id, mod)
    \/ \E id \in 1..Len(orders), mod \in Modifications : ModifyLosesHold(id, mod)
    \/ \E symbol \in Symbols, px \in Prices : BeginPriceUpdate(symbol, px)
    \/ \E id \in pending : EvaluateNext(id)
    \/ \E id \in pending : EvaluateRaises(id)
    \/ EndPriceUpdate
    \/ \E amount \in Capitals : Reset(amount)

BookSpec == BookInit /\ [][BookNext]_bookVars

-----------------------------------------------------------------------------
(***************************************************************************)
(* Properties.                                                             *)
(***************************************************************************)
OrderType ==
    [symbol : Symbols, side : Sides, order_type : OrderTypes,
     quantity : Nat \ {0}, price : Nat, trigger_price : Nat,
     trailing_amount : Nat, trailing_percent : 0..100,
     stop_loss_price : Nat, target_price : Nat,
     average_fill_price : Nat, parent_order_id : Nat,
     status : RestingStatuses \cup TerminalStatuses]

\* The type invariant.  Cash and the total held are never negative: no order
\* of events lets debit or release_cash drive either below zero.
TypeOK ==
    /\ orders \in Seq(OrderType)
    /\ reservations \in Seq(Nat)
    /\ Len(reservations) = Len(orders)
    /\ cash \in Nat
    /\ reserved \in Nat
    /\ capital \in Capitals
    /\ tick = NoTick \/ tick \in [symbol : Symbols, price : Prices]
    /\ pending \subseteq 1..Len(orders)
    /\ Idle => pending = {}
    /\ holdLost \in BOOLEAN

\* No hold outlives its order: an amount is set aside only for a BUY that is
\* still resting.  Cancel, fill, rejection, OCO cancellation and a raised
\* release must each give the hold up.
HoldsBackRestingBuys ==
    \A id \in 1..Len(orders) :
        reservations[id] # 0 => Resting(orders[id]) /\ orders[id].side = "BUY"

\* Every resting BUY is backed by at least its worst-case cost, as long as no
\* failed modify has lost a hold (a trailing stop's trigger falls after its
\* hold was taken, hence "at least").
RestingBuysAreBacked ==
    ~holdLost =>
      \A id \in 1..Len(orders) :
        Resting(orders[id]) => reservations[id] >= Hold(orders[id])

\* The ledger's total is the sum of the holds, as long as no failed modify
\* has lost one: this is what keeps release_cash from ever raising.
HoldsAddUp ==
    ~holdLost => reserved = SumFunction(reservations)

\* The books agree on what is set aside: in total, and for each resting BUY.
\* release_cash, reserve_cash and _reservations are called in pairs by every
\* operation, and a pair torn apart shows only several operations later.
HoldsMatchTheBook == HoldsAddUp /\ RestingBuysAreBacked

\* Two different legs of one bracket.
AreSiblings(i, j) ==
    /\ i # j
    /\ orders[i].parent_order_id # None
    /\ orders[i].parent_order_id = orders[j].parent_order_id

\* The legs of a bracket are one-cancels-other: after one has filled the
\* other neither rests nor fills, in whatever order prices, cancels and
\* modifications arrive, as long as no failed modify has lost a hold.
OneLegFills ==
    ~holdLost =>
      \A i, j \in 1..Len(orders) :
        AreSiblings(i, j) /\ orders[i].status = "COMPLETE" =>
          orders[j].status \in {"CANCELLED", "REJECTED"}

\* The same without the proviso for the legs of a long entry: they are SELLs,
\* which hold no cash, so no release can get in the way of the cancellation.
OneLongLegFills ==
    \A i, j \in 1..Len(orders) :
        /\ AreSiblings(i, j)
        /\ orders[i].side = "SELL"
        /\ orders[i].status = "COMPLETE"
        => orders[j].status \in {"CANCELLED", "REJECTED"}

\* A limit is never crossed: neither a stop-limit released by its trigger nor
\* an order whose price was modified fills on the wrong side of its limit.
FillsHonourLimits ==
    \A id \in 1..Len(orders) :
        LET o == orders[id]
        IN  o.status = "COMPLETE" /\ o.order_type \in {"LIMIT", "STOP_LIMIT"} =>
              IsMarketable(o, o.average_fill_price)

\* When a price update ends normally, no order of the symbol still rests that
\* the price would fill: the loop misses none, and the bracket legs it spawned
\* are out of reach of the price that spawned them.
NothingLeftToFill ==
    ~Idle /\ pending = {} =>
      \A id \in 1..Len(orders) :
        LET o == orders[id]
        IN  o.symbol = tick.symbol /\ Resting(o) =>
              ~Fills(Working(o, tick.price), tick.price)

\* The book fills what it should and nothing else: within the limits, one leg
\* of a bracket, and every order the price reaches.
FillsAreExact == FillsHonourLimits /\ OneLegFills /\ NothingLeftToFill

\* A price update moves a trailing stop's trigger only in the order's favour:
\* up for a SELL, down for a BUY, whether or not the order fills.
TrailingNeverRetreats ==
    [][~Idle =>
         \A id \in 1..Len(orders) :
           LET o == orders[id]
           IN  o.order_type = "TRAILING_STOP" =>
                 IF o.side = "SELL"
                 THEN orders'[id].trigger_price >= o.trigger_price
                 ELSE orders'[id].trigger_price <= o.trigger_price]_bookVars

\* What a holder of an order id sees of the orders.
OrderLedger ==
    [id \in 1..Len(orders) |->
       [terms  |-> [symbol |-> orders[id].symbol,
                    side |-> orders[id].side,
                    order_type |-> orders[id].order_type,
                    parent |-> orders[id].parent_order_id],
        status |-> orders[id].status,
        fill   |-> orders[id].average_fill_price]]

\* What such a holder may rely on, see OrderLifecycle.
Lifecycle == INSTANCE OrderLifecycle WITH ledger <- OrderLedger

\* Whatever the clients and the feed do, every order keeps its terms and moves
\* from resting to one final status, and a final order never changes again.
ImplementsLifecycle == Lifecycle!LifecycleSpec

(***************************************************************************)
(* Properties the documentation states and the code does not have.         *)
(***************************************************************************)
\* models.py, Portfolio: "available_cash must be between 0 and cash".
AvailableCashWithinCash == 0 <= Available(Book) /\ Available(Book) <= cash

\* order_manager.py, modify_order: "on failure, the original reservation is
\* restored and the order is left exactly as it was".
FailedModifyRestoresHold == ~holdLost
=============================================================================
