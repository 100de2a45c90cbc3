----------------------------- MODULE MCOrderBook -----------------------------
(***************************************************************************)
(* Request sets for model checking OrderBook.  Each run takes the requests *)
(* and modifications that make one question interesting.                   *)
(***************************************************************************)
EXTENDS OrderBook

Plain(symbol, side, order_type, quantity, price, trigger_price) ==
    [symbol |-> symbol, side |-> side, order_type |-> order_type,
     quantity |-> quantity, price |-> price, trigger_price |-> trigger_price,
     trailing_amount |-> None, trailing_percent |-> None,
     stop_loss_price |-> None, target_price |-> None]

Bracket(req, stop_loss_price, target_price) ==
    [req EXCEPT !.stop_loss_price = stop_loss_price, !.target_price = target_price]

Trailing(req, amount, percent) ==
    [req EXCEPT !.trailing_amount = amount, !.trailing_percent = percent]

Change(quantity, price, trigger_price) ==
    [quantity |-> quantity, price |-> price, trigger_price |-> trigger_price]

\* Every order type on both sides, and brackets on both sides.
BookRequests ==
    {Plain("A", "BUY", "MARKET", 1, None, None),
     Plain("A", "BUY", "LIMIT", 2, 1, None),
     Plain("A", "BUY", "STOP", 1, None, 3),
     Plain("A", "BUY", "STOP_LIMIT", 1, 3, 2),
     Plain("A", "SELL", "STOP_LIMIT", 1, 2, 2),
     Trailing(Plain("A", "SELL", "TRAILING_STOP", 1, None, None), 1, None),
     Trailing(Plain("A", "BUY", "TRAILING_STOP", 1, None, None), None, 100),
     Bracket(Plain("A", "BUY", "LIMIT", 1, 2, None), 1, 3),
     Bracket(Plain("A", "SELL", "MARKET", 1, None, None), 3, 1)}

BookModifications == {Change(2, None, None), Change(None, 2, 3)}
=============================================================================
