------------------------------ MODULE Checkout ------------------------------
(***************************************************************************)
(* The HTTP API up to execution: create_payment, approve_payment and       *)
(* deny_payment.  Each is one transaction; a second create_payment with    *)
(* the same idempotency key finds the row and changes nothing.             *)
(*                                                                         *)
(* The decision of the spending policy and whether exactly one compatible  *)
(* budget exists are inputs: every combination is possible for a payment.  *)
(* An approval whose expires_at has passed is refused, and the EXPIRED     *)
(* status the handler had just written is rolled back with the refusal, so *)
(* the row stays PENDING; prepare's "budget insufficient" rolls back the   *)
(* same way.  Neither changes the tables, so neither is an action.  (The   *)
(* LookupError branch of create_payment cannot be taken: evaluate_policy   *)
(* answers DENY when no policy is active.)                                 *)
(***************************************************************************)
EXTENDS PaymentStore

ApprovalStatus == {"NONE", "PENDING", "APPROVED", "DENIED"}

VARIABLES
    approval,   \* approvals.status
    lapsed      \* whether approvals.expires_at has passed

checkoutVars == <<approval, lapsed>>

CheckoutTypeOK ==
    /\ approval \in [Payments -> ApprovalStatus]
    /\ lapsed \in [Payments -> BOOLEAN]

CheckoutInit ==
    /\ approval = [p \in Payments |-> "NONE"]
    /\ lapsed = [p \in Payments |-> FALSE]

SetApproval(p, s) ==
    /\ approval' = [approval EXCEPT ![p] = s]
    /\ UNCHANGED lapsed

\* PaymentOrchestrator.prepare: take the reservation and start the payment.
Prepare(p, announced) ==
    /\ Reserve(p)
    /\ SetStatus(p, "PROCESSING")
    /\ Emit(p, {"PaymentStarted"} \cup announced)
    /\ UNCHANGED <<operationVars, ledgerVars>>

\* create_payment: the policy denies, or no single compatible budget exists.
CreateRefused(p) ==
    /\ status[p] = "NONE"
    /\ SetStatus(p, "FAILED")
    /\ Emit(p, {"PaymentFailed"})
    /\ UNCHANGED <<budgetVars, operationVars, ledgerVars, checkoutVars>>

\* create_payment: the policy requires an approval; nothing is reserved yet.
CreateForApproval(p) ==
    /\ status[p] = "NONE"
    /\ SetApproval(p, "PENDING")
    /\ SetStatus(p, "APPROVAL_REQUIRED")
    /\ Emit(p, {"ApprovalRequested"})
    /\ UNCHANGED <<budgetVars, operationVars, ledgerVars>>

\* create_payment: ALLOW_AUTO, or ALLOW_NOTIFY with its notification event.
CreateAllowed(p) ==
    /\ status[p] = "NONE"
    /\ \E notice \in SUBSET {"NotificationRequested"} : Prepare(p, notice)
    /\ UNCHANGED checkoutVars

\* Time: the approval's fifteen minutes are over.
ApprovalLapses(p) ==
    /\ approval[p] = "PENDING" /\ ~lapsed[p]
    /\ lapsed' = [lapsed EXCEPT ![p] = TRUE]
    /\ UNCHANGED <<storeVars, approval>>

ApprovePayment(p) ==
    /\ approval[p] = "PENDING" /\ ~lapsed[p]
    /\ status[p] = "APPROVAL_REQUIRED"
    /\ SetApproval(p, "APPROVED")
    /\ Prepare(p, {"PaymentApproved"})

\* Seeded fault: an approval already decided can be denied.
FaultDenyPayment(p) ==
    /\ approval[p] # "NONE"
    /\ SetApproval(p, "DENIED")
    /\ SetStatus(p, "FAILED")
    /\ Emit(p, {"PaymentFailed"})
    /\ UNCHANGED <<budgetVars, operationVars, ledgerVars>>

\* deny_payment: looks at neither the expiry nor the payment's status.
DenyPayment(p) ==
    /\ approval[p] = "PENDING"
    /\ SetApproval(p, "DENIED")
    /\ SetStatus(p, "FAILED")
    /\ Emit(p, {"PaymentFailed"})
    /\ UNCHANGED <<budgetVars, operationVars, ledgerVars>>

CheckoutNext ==
    \E p \in Payments :
        \/ CreateRefused(p)
        \/ CreateForApproval(p)
        \/ CreateAllowed(p)
        \/ ApprovalLapses(p)
        \/ ApprovePayment(p)
        \/ DenyPayment(p)
=============================================================================
