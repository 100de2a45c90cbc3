------------------------------ MODULE Positions ------------------------------
(***************************************************************************)
(* Positions and their FIFO lots: app/paper/position_manager.py.           *)
(*                                                                         *)
(* A lot of quantity n is n consecutive units, each carrying the id of the *)
(* order that opened it.  An order fills once and in full, so the units of *)
(* one order are one lot and consuming lots oldest first is consuming      *)
(* units from the front of the queue.  PaperPosition is rebuilt from the   *)
(* queue and the mark whenever either changes, so it is not a variable.    *)
(***************************************************************************)
EXTENDS Integers, Sequences, FiniteSets, FiniteSetsExt, Functions

CONSTANT Symbols

VARIABLES
    lots,                \* _lots: the open units of each symbol, oldest first
    last_price,          \* PaperPosition.last_price; 0 while flat
    realized_since_open  \* _realized_pnl_since_open; 0 while flat

positionVars == <<lots, last_price, realized_since_open>>

PositionsInit ==
    /\ lots = [symbol \in Symbols |-> <<>>]
    /\ last_price = [symbol \in Symbols |-> 0]
    /\ realized_since_open = [symbol \in Symbols |-> 0]

Sign(side) == IF side = "BUY" THEN 1 ELSE -1

\* How many open units a fill closes.
CloseCount(queue, side, quantity) ==
    IF queue # <<>> /\ queue[1].side # side
    THEN Min({Len(queue), quantity})
    ELSE 0

\* The units a fill takes from the front of the queue, and what it leaves.
Closed(queue, side, quantity) ==
    SubSeq(queue, 1, CloseCount(queue, side, quantity))

\* Mutant of Kept: the unit after the last one closed is dropped.
KeptLessOne(queue, side, quantity) ==
    SubSeq(queue, CloseCount(queue, side, quantity) + 2, Len(queue))

Kept(queue, side, quantity) ==
    SubSeq(queue, CloseCount(queue, side, quantity) + 1, Len(queue))

\* Mutant of Opened: the whole fill opens a lot, whatever it closed.
OpenedInFull(queue, side, quantity, px, id) ==
    [i \in 1..quantity |-> [entry |-> id, side |-> side, price |-> px]]

\* The units opened with what a fill did not need for closing.
Opened(queue, side, quantity, px, id) ==
    [i \in 1..(quantity - CloseCount(queue, side, quantity)) |->
        [entry |-> id, side |-> side, price |-> px]]

UnitPnl(unit, px) == Sign(unit.side) * (px - unit.price)

RealizedPnl(units, px) ==
    SumFunction([i \in 1..Len(units) |-> UnitPnl(units[i], px)])

\* One ClosedTrade per lot a fill touched.
ClosedTrades(units, px, id) ==
    {LET mine == {i \in 1..Len(units) : units[i].entry = entry}
     IN  [entry |-> entry, exit |-> id, quantity |-> Cardinality(mine),
          pnl |-> SumFunctionOnSet(
                    [i \in 1..Len(units) |-> UnitPnl(units[i], px)], mine)] :
       entry \in {units[i].entry : i \in 1..Len(units)}}

\* Mutant of ApplyFill: the position a flip opens inherits the old one's P&L.
ApplyFillInherits(symbol, side, quantity, px, id) ==
    LET queue == lots[symbol]
        now   == Kept(queue, side, quantity) \o Opened(queue, side, quantity, px, id)
    IN  /\ lots' = [lots EXCEPT ![symbol] = now]
        /\ last_price' = [last_price EXCEPT ![symbol] = IF now = <<>> THEN 0 ELSE px]
        /\ realized_since_open' =
             [realized_since_open EXCEPT ![symbol] =
                IF now = <<>> THEN 0
                ELSE @ + RealizedPnl(Closed(queue, side, quantity), px)]

\* apply_fill and _rebuild_position.  A position that starts afresh, because
\* nothing was open or because the fill closed all of it, starts at 0.
ApplyFill(symbol, side, quantity, px, id) ==
    LET queue == lots[symbol]
        kept  == Kept(queue, side, quantity)
        now   == kept \o Opened(queue, side, quantity, px, id)
    IN  /\ lots' = [lots EXCEPT ![symbol] = now]
        /\ last_price' = [last_price EXCEPT ![symbol] = IF now = <<>> THEN 0 ELSE px]
        /\ realized_since_open' =
             [realized_since_open EXCEPT ![symbol] =
                IF kept = <<>> THEN 0
                ELSE @ + RealizedPnl(Closed(queue, side, quantity), px)]

\* update_last_price: marks an open position, nothing while flat.
UpdateLastPrice(symbol, px) ==
    /\ last_price' = [last_price EXCEPT ![symbol] = IF lots[symbol] = <<>> THEN 0 ELSE px]
    /\ UNCHANGED <<lots, realized_since_open>>

ResetPositions ==
    /\ lots' = [symbol \in Symbols |-> <<>>]
    /\ last_price' = [symbol \in Symbols |-> 0]
    /\ realized_since_open' = [symbol \in Symbols |-> 0]

\* PaperPosition.quantity: positive long, negative short, 0 when flat.
NetQuantity(symbol) ==
    IF lots[symbol] = <<>> THEN 0 ELSE Sign(lots[symbol][1].side) * Len(lots[symbol])
=============================================================================
