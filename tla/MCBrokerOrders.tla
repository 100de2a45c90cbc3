--------------------------- MODULE MCBrokerOrders ---------------------------
(***************************************************************************)
(* What two callers ask of an adapter in the runs of BrokerOrders.         *)
(***************************************************************************)
EXTENDS BrokerOrders

Order(product, type, validity, price, trigger) ==
    [product |-> product, type |-> type, variety |-> "REGULAR",
     validity |-> validity, price |-> price, trigger |-> trigger]

Delivery == Order("DELIVERY", "LIMIT", "DAY", 1, None)
MarginStop == Order("MARGIN", "STOP_LOSS", "IOC", 1, 2)
Cover == Order("COVER_ORDER", "STOP_LOSS_MARKET", "GTC", None, 2)

Ask(op, order) == [op |-> op, order |-> order]

\* The requests are interchangeable: which one asks for what does not matter.
Both(first, second) ==
    LET one == CHOOSE r \in Requests : TRUE
    IN  [r \in Requests |-> IF r = one THEN first ELSE second]

TwoCallers ==
    {Both(Ask("place", Delivery), Ask("place", MarginStop)),
     Both(Ask("place", Cover), Ask("modify", MarginStop)),
     Both(Ask("get_orders", Delivery), Ask("historical_data", Delivery))}

OnePlaces == {[r \in Requests |-> Ask("place", Delivery)]}
=============================================================================
