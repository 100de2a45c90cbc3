------------------------------- MODULE Upstox -------------------------------
(***************************************************************************)
(* UpstoxAdapter of app/brokers/upstox.py: what it says to Upstox v2 and   *)
(* what it makes of the answers.                                           *)
(***************************************************************************)
EXTENDS Trading

ProductFrom ==
    {<<"D", "DELIVERY">>, <<"I", "INTRADAY">>, <<"MTF", "MARGIN">>, <<"CO", "COVER_ORDER">>}

ProductTo == InverseOf(ProductFrom)

OrderTypeTo ==
    {<<"MARKET", "MARKET">>, <<"LIMIT", "LIMIT">>,
     <<"STOP_LOSS", "SL">>, <<"STOP_LOSS_MARKET", "SL-M">>}

ValidityTo == {<<"DAY", "DAY">>, <<"IOC", "IOC">>}

\* Looked up in lower case.
StatusFrom ==
    {<<"complete", "COMPLETE">>, <<"open", "OPEN">>, <<"cancelled", "CANCELLED">>,
     <<"rejected", "REJECTED">>, <<"trigger pending", "TRIGGER_PENDING">>}

\* Any 401.
IsTokenExpired(response) == response.status = 401

\* External: how Upstox says that the token is at fault, or refuses a call.
ExpiredResponses == {[status |-> 401, body |-> "auth_refusal"]}
RefusedResponses == {[status |-> 400, body |-> "refusal"]}

\* refresh_token always raises.
CanRefresh == FALSE

-----------------------------------------------------------------------------
\* _product_to_upstox and _validity_to_upstox raise.
PlaceError(order) ==
    IF Lookup(ProductTo, order.product) = {} \/ Lookup(ValidityTo, order.validity) = {}
    THEN {"BrokerAPIError"} ELSE {}
ModifyError(order) == IF Lookup(ValidityTo, order.validity) = {} THEN {"BrokerAPIError"} ELSE {}

\* Of the variety only after-market orders are told apart; prices that are not
\* given are sent as 0.
PlacePayload(order) ==
    [variety |-> IF order.variety = "AFTER_MARKET" THEN {"amo"} ELSE {},
     type |-> Lookup(OrderTypeTo, order.type),
     product |-> Lookup(ProductTo, order.product),
     validity |-> Lookup(ValidityTo, order.validity),
     price |-> OrZero(order.price), trigger |-> OrZero(order.trigger)]

ModifyPayload(order) == [PlacePayload(order) EXCEPT !.variety = {}, !.product = {}]

\* What a method returns or raises when its request ends with an answer; only
\* the order methods speak of a rejection.
PlaceOutcome(answer) ==
    IF answer \in {"rejected", "garbled"} THEN "OrderRejectionError" ELSE answer
ModifyOutcome(answer) == PlaceOutcome(answer)
CancelOutcome(answer) == PlaceOutcome(answer)
HistoricalOutcome(answer) ==
    IF answer \in {"rejected", "garbled"} THEN "BrokerAPIError" ELSE answer
ListOutcome(answer) == HistoricalOutcome(answer)
QuoteOutcome(answer) == HistoricalOutcome(answer)

\* get_orders: a row yields an order, or nothing if its product is unknown.
ReadOrder(row) ==
    {[product |-> product, price |-> row.price,
      type |-> Get(InverseOf(OrderTypeTo), row.type, "MARKET"),
      status |-> Get(StatusFrom, row.status, "UNKNOWN")] :
       product \in Lookup(ProductFrom, row.product)}

ReadPosition(row) ==
    {[product |-> product, quantity |-> row.quantity] :
       product \in Lookup(ProductFrom, row.product)}

-----------------------------------------------------------------------------
\* on_message and _parse_feed_quotes: text only; what is not JSON is dropped,
\* and so is every feed that is not of the expected shape.
ReadFrame(frame) ==
    [raises |-> FALSE, quotes |-> IF frame.kind = "text tick" THEN frame.tokens ELSE {}]
=============================================================================
