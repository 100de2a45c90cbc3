--------------------------- MODULE MCAutoTrading ---------------------------
(***************************************************************************)
(* Recommendations for model checking AutoTrading.                         *)
(***************************************************************************)
EXTENDS AutoTrading

Advice(action, entry, stop_loss, target) ==
    [action |-> action, entry |-> entry, stop_loss |-> stop_loss, target |-> target,
     confident |-> TRUE, confirmed |-> TRUE]

\* A long with a trailing stop, a short that can become too dear to cover, and
\* a recommendation that only reverses.
MixedSignals ==
    {Advice("BUY", 2, 1, None),
     Advice("SELL", 1, 3, None),
     [Advice("SELL", 2, 3, 1) EXCEPT !.confirmed = FALSE]}

LongSignals == {Advice("BUY", 2, 1, 3)}
=============================================================================
