----------------------------- MODULE MCCreation -----------------------------
(* An instance of Creation for TLC. *)
EXTENDS Creation, TLC

CONSTANTS c1, c2, c3, c4, k1, k2, b1

Body(amount, written) ==
    [agent |-> "agent", account |-> "account", currency |-> "USD",
     amount |-> amount, written |-> written]

\* Two equal requests, one that writes the same amount differently under the
\* same key, and one with a key of its own that competes for the budget.
MCBodyOf == c1 :> Body(2, "2") @@ c2 :> Body(2, "2") @@ c3 :> Body(2, "2.00")
            @@ c4 :> Body(2, "2")
MCKeyOf == c1 :> k1 @@ c2 :> k1 @@ c3 :> k1 @@ c4 :> k2
MCBudgetOf == [c \in Calls |-> b1]
MCLimit == b1 :> 3

Agent == [resolved |-> TRUE, agent |-> "agent", account |-> "account",
          scopes |-> {"payments:create", "payments:read"}]
MCPrincipalOf == [c \in Calls |-> Agent]

\* The assertion of the third call may lack an evidence_id.
Claims == [decoded |-> TRUE, grants |-> TRUE, identified |-> TRUE, quoted |-> TRUE,
           agent |-> "agent", account |-> "account", scope |-> {"PAYMENT"},
           max |-> 2, currency |-> "USD"]
MCClaimsOf == [c \in Calls |->
                 IF c = c3 THEN {Claims, [Claims EXCEPT !.identified = FALSE]}
                 ELSE {Claims}]
=============================================================================
