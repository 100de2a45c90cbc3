---------------------------- MODULE BrokerOrders ----------------------------
(***************************************************************************)
(* The order methods of the broker adapters (Adapters) on top of the       *)
(* request pipeline (BrokerHttp), against a vendor that may carry out a    *)
(* call whose answer is lost.  The vendor's order book is what the calls   *)
(* it has carried out were sent with.                                      *)
(***************************************************************************)
EXTENDS BrokerHttp

CONSTANT Asks  \* what the callers ask for: functions from Requests to [op, order]

\* The adapters' methods; "quote" is any of those for prices.
Operations == {"place", "modify", "cancel", "get_orders", "historical_data", "quote"}

ASSUME BrokerOrdersAssumption ==
    Asks \subseteq [Requests -> [op : Operations, order : OrderRequest]]

VARIABLE ask

ordersVars == <<httpVars, ask>>

\* What the method raises before its request: its payload cannot be built, or
\* Angel One's instrument master does not know the symbol.
EarlyErrors(r) ==
    BuildError(vendor, ask[r].op, ask[r].order) \cup
    IF vendor = "angel_one" /\ ask[r].op \notin {"cancel", "get_orders"}
    THEN {"BrokerAPIError"} ELSE {}

\* A method up to its request.
Submit(r) ==
    /\ BuildError(vendor, ask[r].op, ask[r].order) = {}
    /\ Call(r)
    /\ UNCHANGED ask

SubmitRaises(r) ==
    /\ calls[r].pc = "new"
    /\ \E error \in EarlyErrors(r) : calls' = [calls EXCEPT ![r] = Done(@, error)]
    /\ UNCHANGED <<adapterVars, lock, brokerVars, mishaps, ask>>

\* An order that is modified is one this vendor has taken.
Init ==
    /\ HttpInit
    /\ ask \in Asks
    /\ \A r \in Requests :
         ask[r].op = "modify" => BuildError(vendor, "place", ask[r].order) = {}

Next ==
    \/ \E r \in Requests :
         \/ Submit(r) \/ SubmitRaises(r)
         \/ (Proceeds(r) \/ BrokerAnswers(r)) /\ UNCHANGED ask
    \/ Expire /\ UNCHANGED ask

\* The event loop runs what is ready, and httpx gives up on an answer after
\* request_timeout_seconds.
Fairness ==
    \A r \in Requests :
      /\ WF_ordersVars(Proceeds(r) /\ UNCHANGED ask)
      /\ WF_ordersVars(BrokerAnswers(r) /\ UNCHANGED ask)

Spec == Init /\ [][Next]_ordersVars /\ Fairness

-----------------------------------------------------------------------------
(***************************************************************************)
(* What the callers and the vendor are left with.                          *)
(***************************************************************************)
\* What the method returned or raised.
Result(r) == IF calls[r].pc = "done" THEN Outcome(vendor, ask[r].op, calls[r].outcome) ELSE "none"

\* External: the row a vendor's order book has for an order, and the position
\* the order makes once it is filled.
Sent(field) == IF field = {} THEN "nothing" ELSE CHOOSE value \in field : TRUE
RowOf(payload) ==
    [product |-> Sent(payload.product), type |-> Sent(payload.type), status |-> "open",
     price |-> IF payload.price = {} THEN None ELSE Sent(payload.price)]
PositionOf(payload) ==
    [product |-> Sent(payload.product), quantity |-> 1, average |-> 1, last |-> 2, pnl |-> {}]

-----------------------------------------------------------------------------
(***************************************************************************)
(* Properties.                                                             *)
(***************************************************************************)
\* Retries do not repeat what was done, what is reported as done was done, and
\* what is reported as failed was not, except by attempts whose answer was
\* lost.  An answer that cannot be read is apart, and so is a refused
\* get_orders of Angel One, which reads as an empty order book.
ReportsAreTrue ==
    \A r \in Requests :
      /\ executed[r] <=
           unanswered[r] + (IF calls[r].outcome \in {"none", "ok", "garbled"} THEN 1 ELSE 0)
      /\ Result(r) = "ok" => executed[r] > 0 \/ calls[r].outcome = "refusal"

\* External: the row after what was asked for has been carried out.
RowAfter(r) ==
    LET placed == RowOf(PlacePayload(vendor, ask[r].order))
        modified == RowOf(ModifyPayload(vendor, ask[r].order))
    IN  IF ask[r].op = "place" THEN placed ELSE [modified EXCEPT !.product = placed.product]

\* An order the vendor has taken or modified is in get_orders, with the product,
\* type and price that were asked for, and once it is filled there is a position
\* of that product in get_positions.
ReadsBackAsAsked ==
    \A r \in Requests : executed[r] > 0 /\ ask[r].op \in {"place", "modify"} =>
      LET order == ask[r].order
      IN  /\ \E detail \in ReadOrder(vendor, RowAfter(r)) :
               /\ detail.product = order.product
               /\ detail.type = order.type
               /\ detail.price = order.price
          /\ \E position \in ReadPosition(vendor, PositionOf(PlacePayload(vendor, order))) :
               position.product = order.product

\* OrderRejectionError means that the broker has refused the order: it is not
\* in the order book, unless an earlier answer was lost.
RejectedMeansRefused ==
    \A r \in Requests :
      Result(r) = "OrderRejectionError" => executed[r] <= unanswered[r]
=============================================================================
