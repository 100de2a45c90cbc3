----------------------------- MODULE PaperEngine -----------------------------
(***************************************************************************)
(* The paper trading engine, app/paper/engine.py: the order book and its   *)
(* cash ledger (OrderBook) composed with the positions (Positions), the    *)
(* realized P&L of the portfolio and the trade history.                    *)
(*                                                                         *)
(* At most one order fills in a step of OrderBook; the fill is applied to  *)
(* the positions in the same step, as _settle_fill does between the debit  *)
(* and the OCO cancellation.                                               *)
(***************************************************************************)
EXTENDS OrderBook

VARIABLES
    lots, last_price, realized_since_open,  \* see Positions
    realized,  \* PortfolioManager._realized_pnl
    trades,    \* PaperTradingEngine._trade_history, as a set
    batch      \* closed_trades of the price update being processed

INSTANCE Positions

\* The portfolio is summed over the instruments.
ASSUME PaperEngineAssumption == IsFiniteSet(Symbols)

lotVars == <<lots, last_price, realized_since_open>>
ledgerVars == <<realized, trades, batch>>
vars == <<bookVars, lotVars, ledgerVars>>

\* The order this step fills, if any.
FilledNow ==
    {id \in 1..Len(orders') :
        /\ orders'[id].status = "COMPLETE"
        /\ id > Len(orders) \/ orders[id].status # "COMPLETE"}

\* apply_fill and record_realized_pnl for the order this step fills.
BookFill ==
    IF FilledNow = {}
    THEN UNCHANGED <<lotVars, realized>>
    ELSE LET id == CHOOSE f \in FilledNow : TRUE
             o  == orders'[id]
             px == o.average_fill_price
         IN  /\ ApplyFill(o.symbol, o.side, o.quantity, px, id)
             /\ realized' = realized
                  + RealizedPnl(Closed(lots[o.symbol], o.side, o.quantity), px)

\* The ClosedTrades of this step's fill.
TradesNow ==
    UNION {LET o == orders'[id]
           IN  ClosedTrades(Closed(lots[o.symbol], o.side, o.quantity),
                            o.average_fill_price, id) :
             id \in FilledNow}

\* engine.place_order.
EnginePlaceOrder(req, px) ==
    /\ PlaceOrder(req, px)
    /\ BookFill
    /\ trades' = trades \cup TradesNow
    /\ UNCHANGED batch

\* engine.cancel_order and engine.modify_order.
EngineCancelOrder(id) ==
    CancelOrder(id) /\ UNCHANGED <<lotVars, ledgerVars>>

EngineModifyOrder(id, mod) ==
    /\ ModifyOrder(id, mod) \/ ModifyLosesHold(id, mod)
    /\ UNCHANGED <<lotVars, ledgerVars>>

\* engine.update_price: the loop over the resting orders, then the history,
\* then the mark.  An exception in the loop skips the last two.
EngineBeginPriceUpdate(symbol, px) ==
    BeginPriceUpdate(symbol, px) /\ UNCHANGED <<lotVars, ledgerVars>>

EngineEvaluateNext(id) ==
    /\ EvaluateNext(id)
    /\ BookFill
    /\ batch' = batch \cup TradesNow
    /\ UNCHANGED trades

EngineEvaluateRaises(id) ==
    /\ EvaluateRaises(id)
    /\ BookFill
    /\ batch' = {}
    /\ UNCHANGED trades

\* Mutant of EngineEndPriceUpdate: the trades of the update are dropped.
EngineEndForgets ==
    /\ EndPriceUpdate
    /\ UpdateLastPrice(tick.symbol, tick.price)
    /\ batch' = {}
    /\ UNCHANGED <<realized, trades>>

EngineEndPriceUpdate ==
    /\ EndPriceUpdate
    /\ UpdateLastPrice(tick.symbol, tick.price)
    /\ trades' = trades \cup batch
    /\ batch' = {}
    /\ UNCHANGED realized

\* engine.reset.
EngineReset(amount) ==
    /\ Reset(amount)
    /\ ResetPositions
    /\ realized' = 0
    /\ trades' = {}
    /\ UNCHANGED batch

Init ==
    /\ BookInit
    /\ PositionsInit
    /\ realized = 0
    /\ trades = {}
    /\ batch = {}

Next ==
    \/ \E req \in Requests, px \in Prices : EnginePlaceOrder(req, px)
    \/ \E id \in 1..Len(orders) : EngineCancelOrder(id)
    \/ \E id \in 1..Len(orders), mod \in Modifications : EngineModifyOrder(id, mod)
    \/ \E symbol \in Symbols, px \in Prices : EngineBeginPriceUpdate(symbol, px)
    \/ \E id \in pending : EngineEvaluateNext(id)
    \/ \E id \in pending : EngineEvaluateRaises(id)
    \/ EngineEndPriceUpdate
    \/ \E amount \in Capitals : EngineReset(amount)

Spec == Init /\ [][Next]_vars

-----------------------------------------------------------------------------
(***************************************************************************)
(* Properties.                                                             *)
(***************************************************************************)
CostBasis(symbol) ==
    SumFunction([i \in 1..Len(lots[symbol]) |->
                    Sign(lots[symbol][i].side) * lots[symbol][i].price])

\* No money appears or vanishes: cash and the signed cost of what is open
\* always add up to the starting capital and the realized P&L, through every
\* partial close, flip, rejection, OCO cancellation and raised release.
CashConservation ==
    cash + SumFunction([symbol \in Symbols |-> CostBasis(symbol)]) = capital + realized

\* The trade history explains the realized P&L: no closed trade is lost or
\* counted twice between a fill and the end of its price update, unless a
\* failed modify has lost a hold.
HistoryExplainsPnl ==
    ~holdLost => realized = SumFunction([t \in trades \cup batch |-> t.pnl])

OpenUnits(id) ==
    Cardinality({i \in 1..Len(lots[orders[id].symbol]) :
                    lots[orders[id].symbol][i].entry = id})

TradedUnits(id) ==
    LET mine == {t \in trades \cup batch : t.entry = id \/ t.exit = id}
    IN  SumFunction([t \in mine |-> t.quantity])

\* Every unit an order filled either is open, or was closed by a later order,
\* or closed an earlier one, and exactly one of these.
EveryUnitAccountedFor ==
    ~holdLost =>
      \A id \in 1..Len(orders) :
        OpenUnits(id) + TradedUnits(id) =
          (IF orders[id].status = "COMPLETE" THEN orders[id].quantity ELSE 0)

\* The orders of a symbol that have filled.
FilledOrders(symbol) ==
    {id \in 1..Len(orders) : orders[id].symbol = symbol /\ orders[id].status = "COMPLETE"}

\* A position is the net of the fills of its symbol, and its units are all on
\* one side whatever sequence of partial closes and flips led there.
PositionIsNetOfFills ==
    \A symbol \in Symbols :
      /\ \A i \in 1..Len(lots[symbol]) : lots[symbol][i].side = lots[symbol][1].side
      /\ NetQuantity(symbol) =
           SumFunction([id \in FilledOrders(symbol) |->
                          Sign(orders[id].side) * orders[id].quantity])

\* A closed trade's P&L is that of its two orders' fill prices: the lots carry
\* the price of the order they came from through partial closes and flips.
TradePnlMatchesFills ==
    \A t \in trades \cup batch :
        /\ t.entry # t.exit
        /\ t.pnl = Sign(orders[t.entry].side) * t.quantity
                     * (orders[t.exit].average_fill_price
                          - orders[t.entry].average_fill_price)

\* The books of the positions agree with the fills: no unit appears, vanishes
\* or changes side between apply_fill, the lots and the history.
PositionsMatchFills == EveryUnitAccountedFor /\ PositionIsNetOfFills

\* The trade history agrees with the ledger and with the fills.
HistoryMatchesFills == HistoryExplainsPnl /\ TradePnlMatchesFills

\* A position's own realized P&L follows the ledger while some unit of it
\* survives, and starts again at 0 once all of it has been closed, even when
\* the closing fill opens the opposite position.
PositionPnlFollowsLedger ==
    [][\A symbol \in Symbols :
         LET old == lots[symbol]
             new == lots'[symbol]
         IN  realized_since_open'[symbol] =
               IF \E i \in 1..Len(old), j \in 1..Len(new) : old[i] = new[j]
               THEN realized_since_open[symbol]
                      + (IF old = new THEN 0 ELSE realized' - realized)
               ELSE 0]_vars
=============================================================================
