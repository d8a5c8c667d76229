---------------------------- MODULE BudgetEscrow ----------------------------
(***************************************************************************)
(* What the budget promises, with no counter in sight: money is set aside  *)
(* for a payment once, only if everything the budget holds or has spent    *)
(* still fits its limit, and is then either spent or given back, once.     *)
(***************************************************************************)
EXTENDS Money

CONSTANTS Payments, Budgets, BudgetOf, Amount, Limit

VARIABLE hold   \* what has become of each payment's share of its budget

Init == hold = [p \in Payments |-> "NONE"]

\* The payments that take up room in budget b.
Charged(b) ==
    {p \in Payments : BudgetOf[p] = b /\ hold[p] \in {"RESERVED", "CONSUMED"}}

SetAside(p) ==
    /\ hold[p] = "NONE"
    /\ Total(Charged(BudgetOf[p]) \cup {p}, Amount) <= Limit[BudgetOf[p]]
    /\ hold' = [hold EXCEPT ![p] = "RESERVED"]

Spend(p) ==
    /\ hold[p] = "RESERVED"
    /\ hold' = [hold EXCEPT ![p] = "CONSUMED"]

GiveBack(p) ==
    /\ hold[p] = "RESERVED"
    /\ hold' = [hold EXCEPT ![p] = "RELEASED"]

Next == \E p \in Payments : SetAside(p) \/ Spend(p) \/ GiveBack(p)

Spec == Init /\ [][Next]_hold
=============================================================================
