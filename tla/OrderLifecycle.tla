--------------------------- MODULE OrderLifecycle ---------------------------
(***************************************************************************)
(* What the paper engine promises to whoever holds an order id, without    *)
(* saying anything of prices or cash: app/paper/order_manager.py seen      *)
(* through get_order.                                                      *)
(*                                                                         *)
(* Each order has terms that never change, a status, and the price it was  *)
(* filled at (0 before).  One call may move several orders and add several *)
(* (a fill cancels a sibling and spawns two legs), so a step moves them    *)
(* all.                                                                    *)
(***************************************************************************)
EXTENDS Integers, Sequences

VARIABLE ledger   \* the orders in insertion order: [terms, status, fill]

Waiting == {"OPEN", "TRIGGER_PENDING"}
Final == {"COMPLETE", "CANCELLED", "REJECTED"}

\* Only a stop-limit order is released from its trigger into the book.
Released(before, after) ==
    /\ before.terms.order_type = "STOP_LIMIT"
    /\ before.status = "TRIGGER_PENDING"
    /\ after.status = "OPEN"

MayBecome(before, after) ==
    \/ after = before
    \/ /\ before.status \in Waiting
       /\ after.terms = before.terms
       /\ \/ Released(before, after) /\ after.fill = 0
          \/ after.status = "COMPLETE" /\ after.fill > 0
          \/ after.status \in Final \ {"COMPLETE"} /\ after.fill = 0

MayBeAdded(order) ==
    /\ order.status \in Waiting \cup Final
    /\ order.fill > 0 <=> order.status = "COMPLETE"

Advance ==
    /\ Len(ledger') >= Len(ledger)
    /\ \A i \in 1..Len(ledger) : MayBecome(ledger[i], ledger'[i])
    /\ \A i \in Len(ledger) + 1 .. Len(ledger') : MayBeAdded(ledger'[i])

\* The account is reset: every id is forgotten.
Clear == ledger' = <<>>

LifecycleInit == ledger = <<>>

LifecycleNext == Advance \/ Clear

LifecycleSpec == LifecycleInit /\ [][LifecycleNext]_ledger
=============================================================================
