---------------------------- MODULE MCPaperEngine ----------------------------
(***************************************************************************)
(* Request sets for model checking PaperEngine.                            *)
(***************************************************************************)
EXTENDS PaperEngine

Order(symbol, side, order_type, quantity, price, trigger_price) ==
    [symbol |-> symbol, side |-> side, order_type |-> order_type,
     quantity |-> quantity, price |-> price, trigger_price |-> trigger_price,
     trailing_amount |-> None, trailing_percent |-> None,
     stop_loss_price |-> None, target_price |-> None]

\* Partial closes and flips of both signs, a short bracket and its cover, and
\* a second symbol that shares the cash.
EngineRequests ==
    {Order("A", "BUY", "MARKET", 1, None, None),
     Order("A", "BUY", "MARKET", 3, None, None),
     Order("A", "SELL", "MARKET", 2, None, None),
     Order("A", "SELL", "LIMIT", 1, 2, None),
     Order("A", "BUY", "STOP", 1, None, 2),
     Order("B", "BUY", "LIMIT", 2, 1, None),
     Order("B", "SELL", "MARKET", 1, None, None),
     [Order("A", "SELL", "MARKET", 1, None, None)
        EXCEPT !.stop_loss_price = 2, !.target_price = 1]}

EngineModifications == {[quantity |-> 3, price |-> None, trigger_price |-> None]}
=============================================================================
