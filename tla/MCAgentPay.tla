----------------------------- MODULE MCAgentPay -----------------------------
(* Instances of AgentPay for TLC. *)
EXTENDS AgentPay, TLC

CONSTANTS p1, p2, p3, b1, w1, w2, w3, r1, r2, r3

\* One payment of 2 and refunds of 1 and of 2.
OneAmount == p1 :> 2
OneBudget == p1 :> b1
OneLimit == b1 :> 3
RefundAmounts == r1 :> 1 @@ r2 :> 2

\* A third spelling that means the same amount as the first (1 and 1.00).
SpelledRefunds == r1 :> 1 @@ r2 :> 2 @@ r3 :> 1

\* Two payments on a budget with room for both.
TwoAmounts == p1 :> 1 @@ p2 :> 2
TwoBudgets == p1 :> b1 @@ p2 :> b1

\* Three payments that do not all fit the budget.
ThreeAmounts == p1 :> 1 @@ p2 :> 2 @@ p3 :> 2
ThreeBudgets == p1 :> b1 @@ p2 :> b1 @@ p3 :> b1
NoRefunds == [r \in {} |-> 0]
=============================================================================
