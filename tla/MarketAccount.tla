--------------------------- MODULE MarketAccount ---------------------------
(***************************************************************************)
(* The paper engine (PaperEngine) restricted to market orders, which is    *)
(* all its automatic clients place: cash and the FIFO lots of Positions.   *)
(* A market order either completes at the price it is placed with or is    *)
(* REJECTED; neither waits for anything.  Prices and cash are integral.    *)
(***************************************************************************)
EXTENDS Integers, Sequences, FiniteSets, FiniteSetsExt, Functions

CONSTANT Symbols

VARIABLES
    cash,
    lots   \* the open units of each symbol, oldest first

INSTANCE Positions WITH
    last_price <- [symbol \in Symbols |-> 0],
    realized_since_open <- [symbol \in Symbols |-> 0]

AccountInit(capital) ==
    /\ cash = capital
    /\ lots = [symbol \in Symbols |-> <<>>]

Opposite(side) == IF side = "BUY" THEN "SELL" ELSE "BUY"

\* The order completes; otherwise it is REJECTED.
Filled(side, quantity, px) == side = "BUY" => quantity * px <= cash

FillOrder(symbol, side, quantity, px) ==
    /\ cash' = cash - Sign(side) * quantity * px
    /\ lots' = [lots EXCEPT ![symbol] =
                  Kept(@, side, quantity) \o Opened(@, side, quantity, px, 0)]

\* place_order as its clients see it.
MarketOrder(symbol, side, quantity, px) ==
    IF Filled(side, quantity, px) THEN FillOrder(symbol, side, quantity, px)
    ELSE UNCHANGED <<cash, lots>>

\* The realized P&L the order would add.
PnlOf(symbol, side, quantity, px) ==
    RealizedPnl(Closed(lots[symbol], side, quantity), px)

IsOpen(symbol) == lots[symbol] # <<>>

\* abs(quantity) * average_price of the position of each symbol, summed.
Deployed(symbols) ==
    SumFunction([symbol \in symbols |->
                   SumFunction([i \in DOMAIN lots[symbol] |-> lots[symbol][i].price])])
=============================================================================
