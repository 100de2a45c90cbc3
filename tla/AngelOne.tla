------------------------------ MODULE AngelOne ------------------------------
(***************************************************************************)
(* AngelOneAdapter of app/brokers/angel_one.py: what it says to SmartAPI   *)
(* and what it makes of the answers.                                       *)
(***************************************************************************)
EXTENDS Trading

\* Mutant of ProductFrom: the codes of getProfile only.
ProductFromProfile ==
    {<<"CNC", "DELIVERY">>, <<"MIS", "INTRADAY">>, <<"NRML", "MARGIN">>,
     <<"BO", "BRACKET_ORDER">>, <<"CO", "COVER_ORDER">>}

ProductFrom ==
    {<<"DELIVERY", "DELIVERY">>, <<"CNC", "DELIVERY">>,
     <<"INTRADAY", "INTRADAY">>, <<"MIS", "INTRADAY">>,
     <<"CARRYFORWARD", "MARGIN">>, <<"NRML", "MARGIN">>, <<"MARGIN", "MARGIN">>,
     <<"BO", "BRACKET_ORDER">>, <<"CO", "COVER_ORDER">>}

\* One of the names of each product.
ProductTo ==
    {<<"DELIVERY", "DELIVERY">>, <<"INTRADAY", "INTRADAY">>, <<"MARGIN", "CARRYFORWARD">>,
     <<"BRACKET_ORDER", "BO">>, <<"COVER_ORDER", "CO">>}

VarietyTo ==
    {<<"REGULAR", "NORMAL">>, <<"AFTER_MARKET", "AMO">>,
     <<"STOP_LOSS", "STOPLOSS">>, <<"ICEBERG", "ROBO">>}

OrderTypeTo ==
    {<<"MARKET", "MARKET">>, <<"LIMIT", "LIMIT">>,
     <<"STOP_LOSS", "STOPLOSS_LIMIT">>, <<"STOP_LOSS_MARKET", "STOPLOSS_MARKET">>}

ValidityTo == {<<"DAY", "DAY">>, <<"IOC", "IOC">>}

\* Looked up in lower case.
StatusFrom ==
    {<<"complete", "COMPLETE">>, <<"open", "OPEN">>, <<"open pending", "OPEN">>,
     <<"cancelled", "CANCELLED">>, <<"rejected", "REJECTED">>,
     <<"trigger pending", "TRIGGER_PENDING">>}

\* A 401 or 403 whatever it says, or a 200 with status false and an AG8 code.
IsTokenExpired(response) ==
    \/ response.status \in {401, 403}
    \/ response.status = 200 /\ response.body = "auth_refusal"

\* External: how SmartAPI says that the token is at fault, or refuses a call.
ExpiredResponses ==
    {[status |-> 401, body |-> "unreadable"], [status |-> 200, body |-> "auth_refusal"]}
RefusedResponses == {[status |-> 400, body |-> "refusal"], [status |-> 200, body |-> "refusal"]}

\* refresh_token sends a request of its own; what it makes of the answer that
\* ends it: _store_tokens raises BrokerAuthenticationError for a refusal.
CanRefresh == TRUE
RefreshFailure(answer) == IF answer = "refusal" THEN "not_authenticated" ELSE answer

-----------------------------------------------------------------------------
\* _validity_to_angel_one raises; every product has a name.
PlaceError(order) == IF Lookup(ValidityTo, order.validity) = {} THEN {"BrokerAPIError"} ELSE {}
ModifyError(order) == PlaceError(order)

\* No field carries the trigger; a price that is not given is sent as 0.
PlacePayload(order) ==
    [variety |-> Lookup(VarietyTo, order.variety),
     type |-> Lookup(OrderTypeTo, order.type),
     product |-> Lookup(ProductTo, order.product),
     validity |-> Lookup(ValidityTo, order.validity),
     price |-> OrZero(order.price), trigger |-> {}]

ModifyPayload(order) == PlacePayload(order)

\* What a method returns or raises when its request ends with an answer: an
\* order method turns every BrokerAPIError and every refusal into a rejection,
\* historical_data raises for a refusal, get_orders, get_positions and
\* get_holdings take it for an empty list, and the others fail on its data.
PlaceOutcome(answer) ==
    IF answer \in {"refusal", "rejected", "garbled"} THEN "OrderRejectionError" ELSE answer
ModifyOutcome(answer) == PlaceOutcome(answer)
CancelOutcome(answer) == PlaceOutcome(answer)
HistoricalOutcome(answer) ==
    IF answer \in {"refusal", "rejected", "garbled"} THEN "BrokerAPIError" ELSE answer
ListOutcome(answer) ==
    CASE answer = "refusal" -> "ok" [] answer \in {"rejected", "garbled"} -> "BrokerAPIError"
      [] OTHER -> answer
QuoteOutcome(answer) ==
    CASE answer = "refusal" -> "KeyError" [] answer \in {"rejected", "garbled"} -> "BrokerAPIError"
      [] OTHER -> answer

\* get_orders: a row yields an order, or nothing if its product is unknown.
ReadOrder(row) ==
    {[product |-> product, price |-> row.price,
      type |-> Get(InverseOf(OrderTypeTo), row.type, "MARKET"),
      status |-> Get(StatusFrom, row.status, "UNKNOWN")] :
       product \in Lookup(ProductFrom, row.product)}

\* _pnl: the broker's figure, or worked out.
PnlOf(row) ==
    IF row.pnl = {} THEN (row.last - row.average) * row.quantity
    ELSE CHOOSE pnl \in row.pnl : TRUE

ReadPosition(row) ==
    {[product |-> product, quantity |-> row.quantity, pnl |-> PnlOf(row)] :
       product \in Lookup(ProductFrom, row.product)}

-----------------------------------------------------------------------------
\* on_message and _parse_tick: short and text frames are dropped, a timestamp
\* out of range is None; nothing raises.  A frame is a record of its kind and
\* the tokens it is about; the quotes are reported by the caller's symbols.
ReadFrame(frame) ==
    [raises |-> FALSE,
     quotes |-> IF frame.kind \in {"tick", "tick without a time"} THEN frame.tokens ELSE {}]
=============================================================================
