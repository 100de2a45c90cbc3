------------------------------ MODULE Trading ------------------------------
(***************************************************************************)
(* The canonical vocabulary of app/domain that the broker adapters         *)
(* translate from and to.  A dict of the code is a set of pairs, a wire    *)
(* field the set of the values it is sent with: empty when it is omitted.  *)
(***************************************************************************)
EXTENDS Naturals, Sequences

Products == {"INTRADAY", "DELIVERY", "MARGIN", "COVER_ORDER", "BRACKET_ORDER"}
OrderTypes == {"MARKET", "LIMIT", "STOP_LOSS", "STOP_LOSS_MARKET"}
Varieties == {"REGULAR", "AFTER_MARKET", "STOP_LOSS", "ICEBERG"}
Validities == {"DAY", "IOC", "GTC"}

None == 0  \* a price or a trigger that is not given; prices are positive

\* Symbols, sides and quantities pass through an adapter unchanged and are
\* left out.
OrderRequest ==
    [product : Products, type : OrderTypes, variety : Varieties,
     validity : Validities, price : Nat, trigger : Nat]

\* dict[key] as a set, empty for a key the dict does not have.
Lookup(dict, key) == {pair[2] : pair \in {p \in dict : p[1] = key}}

InverseOf(dict) == {<<pair[2], pair[1]>> : pair \in dict}

\* dict.get(key, default)
Get(dict, key, default) ==
    IF Lookup(dict, key) = {} THEN default ELSE CHOOSE value \in Lookup(dict, key) : TRUE

\* A price that is sent only if it is given, or 0 otherwise.
Given(price) == IF price = None THEN {} ELSE {price}
OrZero(price) == {price}
=============================================================================
