------------------------------ MODULE Zerodha ------------------------------
(***************************************************************************)
(* ZerodhaAdapter of app/brokers/zerodha.py: what it says to Kite Connect  *)
(* and what it makes of the answers.                                       *)
(***************************************************************************)
EXTENDS Trading

ProductFrom == {<<"CNC", "DELIVERY">>, <<"MIS", "INTRADAY">>, <<"NRML", "MARGIN">>}

ProductTo == InverseOf(ProductFrom)

VarietyTo ==
    {<<"REGULAR", "regular">>, <<"AFTER_MARKET", "amo">>,
     <<"STOP_LOSS", "co">>, <<"ICEBERG", "iceberg">>}

OrderTypeTo ==
    {<<"MARKET", "MARKET">>, <<"LIMIT", "LIMIT">>,
     <<"STOP_LOSS", "SL">>, <<"STOP_LOSS_MARKET", "SL-M">>}

StatusFrom ==
    {<<"COMPLETE", "COMPLETE">>, <<"OPEN", "OPEN">>, <<"CANCELLED", "CANCELLED">>,
     <<"REJECTED", "REJECTED">>, <<"TRIGGER PENDING", "TRIGGER_PENDING">>}

\* A 403 that says TokenException.
IsTokenExpired(response) == response.status = 403 /\ response.body = "auth_refusal"

\* External: how Kite says that the token is at fault, or refuses a call.
ExpiredResponses == {[status |-> 403, body |-> "auth_refusal"]}
RefusedResponses == {[status |-> 400, body |-> "refusal"], [status |-> 403, body |-> "refusal"]}

\* refresh_token always raises.
CanRefresh == FALSE

-----------------------------------------------------------------------------
\* The product is looked up without a default, and the variety, for all of
\* which Kite has a name, too.
PlaceError(order) == IF Lookup(ProductTo, order.product) = {} THEN {"KeyError"} ELSE {}
ModifyError(order) == {}

\* The validity is sent as it is, prices only when they are given.
PlacePayload(order) ==
    [variety |-> Lookup(VarietyTo, order.variety),
     type |-> Lookup(OrderTypeTo, order.type),
     product |-> Lookup(ProductTo, order.product),
     validity |-> {order.validity},
     price |-> Given(order.price), trigger |-> Given(order.trigger)]

ModifyPayload(order) == [PlacePayload(order) EXCEPT !.product = {}]

\* What a method returns or raises when its request ends with an answer.
PlaceOutcome(answer) ==
    IF answer \in {"rejected", "garbled"} THEN "OrderRejectionError" ELSE answer
ModifyOutcome(answer) == PlaceOutcome(answer)
CancelOutcome(answer) == PlaceOutcome(answer)
HistoricalOutcome(answer) ==
    IF answer \in {"rejected", "garbled"} THEN "BrokerAPIError" ELSE answer
ListOutcome(answer) == HistoricalOutcome(answer)
QuoteOutcome(answer) == HistoricalOutcome(answer)

\* get_orders: a row yields an order, or nothing if its product is unknown.
ReadOrder(row) ==
    {[product |-> product, price |-> row.price,
      type |-> Get(InverseOf(OrderTypeTo), row.type, "MARKET"),
      status |-> Get(StatusFrom, row.status, "UNKNOWN")] :
       product \in Lookup(ProductFrom, row.product)}

ReadPosition(row) ==
    {[product |-> product, quantity |-> row.quantity] :
       product \in Lookup(ProductFrom, row.product)}

-----------------------------------------------------------------------------
\* on_message and _parse_ticks: text is dropped; packets of another length are
\* skipped; a last packet that promises a price and is cut short raises
\* struct.error.
ReadFrame(frame) ==
    [raises |-> frame.kind = "cut short",
     quotes |-> IF frame.kind \in {"tick", "tick without a time"} THEN frame.tokens ELSE {}]
=============================================================================
