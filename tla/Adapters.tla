------------------------------ MODULE Adapters ------------------------------
(***************************************************************************)
(* The adapter that get_broker_adapter of app/brokers/factory.py constructs *)
(* for a vendor, as one set of operators.                                  *)
(***************************************************************************)
EXTENDS Trading

A == INSTANCE AngelOne
U == INSTANCE Upstox
Z == INSTANCE Zerodha

Vendors == {"angel_one", "upstox", "zerodha"}

Adapter(vendor, angel_one, upstox, zerodha) ==
    CASE vendor = "angel_one" -> angel_one
      [] vendor = "upstox" -> upstox
      [] OTHER -> zerodha

IsTokenExpired(vendor, response) ==
    Adapter(vendor, A!IsTokenExpired(response), U!IsTokenExpired(response),
                    Z!IsTokenExpired(response))

\* _send_once: what a response, a status and a kind of body, means.  "refusal"
\* is a readable body that says no, which SmartAPI sends with a 200.
Classify(vendor, response) ==
    CASE response.status >= 500 -> "lost"
      [] IsTokenExpired(vendor, response) -> "expired"
      [] response.status >= 400 -> "rejected"
      [] response.body = "unreadable" -> "garbled"
      [] response.body # "ok" -> "refusal"
      [] OTHER -> "ok"

ExpiredResponses(vendor) ==
    Adapter(vendor, A!ExpiredResponses, U!ExpiredResponses, Z!ExpiredResponses)
RefusedResponses(vendor) ==
    Adapter(vendor, A!RefusedResponses, U!RefusedResponses, Z!RefusedResponses)

CanRefresh(vendor) == Adapter(vendor, A!CanRefresh, U!CanRefresh, Z!CanRefresh)

\* What a method raises before its request: a set of at most one error.
BuildError(vendor, op, order) ==
    CASE op = "place" ->
           Adapter(vendor, A!PlaceError(order), U!PlaceError(order), Z!PlaceError(order))
      [] op = "modify" ->
           Adapter(vendor, A!ModifyError(order), U!ModifyError(order), Z!ModifyError(order))
      [] OTHER -> {}

PlacePayload(vendor, order) ==
    Adapter(vendor, A!PlacePayload(order), U!PlacePayload(order), Z!PlacePayload(order))
ModifyPayload(vendor, order) ==
    Adapter(vendor, A!ModifyPayload(order), U!ModifyPayload(order), Z!ModifyPayload(order))

Outcome(vendor, op, answer) ==
    CASE op = "place" ->
           Adapter(vendor, A!PlaceOutcome(answer), U!PlaceOutcome(answer), Z!PlaceOutcome(answer))
      [] op = "modify" ->
           Adapter(vendor, A!ModifyOutcome(answer), U!ModifyOutcome(answer), Z!ModifyOutcome(answer))
      [] op = "cancel" ->
           Adapter(vendor, A!CancelOutcome(answer), U!CancelOutcome(answer), Z!CancelOutcome(answer))
      [] op = "historical_data" ->
           Adapter(vendor, A!HistoricalOutcome(answer), U!HistoricalOutcome(answer),
                           Z!HistoricalOutcome(answer))
      [] op = "get_orders" ->
           Adapter(vendor, A!ListOutcome(answer), U!ListOutcome(answer), Z!ListOutcome(answer))
      [] OTHER ->
           Adapter(vendor, A!QuoteOutcome(answer), U!QuoteOutcome(answer), Z!QuoteOutcome(answer))

ReadOrder(vendor, row) ==
    Adapter(vendor, A!ReadOrder(row), U!ReadOrder(row), Z!ReadOrder(row))
ReadPosition(vendor, row) ==
    Adapter(vendor, A!ReadPosition(row), U!ReadPosition(row), Z!ReadPosition(row))
ReadFrame(vendor, frame) ==
    Adapter(vendor, A!ReadFrame(frame), U!ReadFrame(frame), Z!ReadFrame(frame))
=============================================================================
