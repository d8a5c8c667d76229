---------------------------- MODULE MCSettlement ----------------------------
(* Instances of Settlement, and with it of all of AgentPay, for TLC. *)
EXTENDS Settlement, TLC

CONSTANTS p1, b1, w1, w2, w3, r1, s1

\* One payment of 2 and its refund.
OneAmount == p1 :> 2
OneBudget == p1 :> b1
OneLimit == b1 :> 3
OneRefund == r1 :> 2

WorkerSymmetry == Permutations(Workers)
=============================================================================
