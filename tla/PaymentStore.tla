---------------------------- MODULE PaymentStore ----------------------------
(***************************************************************************)
(* The PostgreSQL tables every handler of Agent-Pay reads and writes, and  *)
(* the repository calls the handlers are built from.  A payment stands for *)
(* its payment request, its payments row, its one CHARGE row of            *)
(* provider_operations, its one budget reservation and its rows of         *)
(* transactions and ledger_journals: each column is a function of the      *)
(* payment.                                                                *)
(*                                                                         *)
(* A handler runs between BEGIN and COMMIT and holds the row locks of what *)
(* it reads to decide, so a transaction is one atomic step: the operators  *)
(* below set the next value of the columns they write and an action        *)
(* conjoins them.  A handler that raises rolls back, which is a step that  *)
(* changes nothing here; statuses written and overwritten inside one       *)
(* transaction (POLICY_CHECK, REFUND_PROCESSING, VOID_REQUESTED) are never *)
(* visible.                                                                *)
(***************************************************************************)
EXTENDS Money

CONSTANTS
    Payments,       \* payments, each the only one of its payment request
    Preauthorized,  \* those whose row starts out AUTHORIZED
    Budgets,        \* rows of budgets
    BudgetOf,       \* the budget select_budget and bind_budget give a payment
    Amount,         \* payments.amount
    Limit,          \* budgets.limit_amount
    RefundKeys,     \* spellings of a refund amount a client may send
    RefundAmount    \* the amount each of them denotes

CaptureKeys == {"capture", "capture:transaction"}
LifecycleKeys == {"capture:failed", "void", "void:failed"}
TxnKeys == CaptureKeys \cup LifecycleKeys \cup RefundKeys
JournalKeys == {"capture"} \cup RefundKeys

ASSUME StoreAssumption ==
    /\ IsFiniteSet(Payments) /\ Preauthorized \subseteq Payments
    /\ BudgetOf \in [Payments -> Budgets]
    /\ Amount \in [Payments -> Nat \ {0}]
    /\ Limit \in [Budgets -> Nat]
    /\ IsFiniteSet(RefundKeys)
    /\ RefundKeys \cap (CaptureKeys \cup LifecycleKeys) = {}
    /\ RefundAmount \in [RefundKeys -> Nat \ {0}]

PaymentStatus ==
    {"NONE", "APPROVAL_REQUIRED", "PROCESSING", "UNKNOWN_EXTERNAL_OUTCOME",
     "SUCCEEDED", "FAILED", "AUTHORIZED", "VOIDED", "VOID_FAILED",
     "REFUND_FAILED", "REFUNDED"}
ReservationStatus == {"NONE", "RESERVED", "CONSUMED", "RELEASED"}
OperationStatus == {"NONE", "PENDING", "SUCCEEDED", "FAILED", "UNKNOWN"}
TxnStatus == {"NONE", "PENDING", "POSTED", "FAILED"}
EventType ==
    {"PaymentStarted", "PaymentSucceeded", "PaymentFailed",
     "PaymentOutcomeUnknown", "ApprovalRequested", "PaymentApproved",
     "NotificationRequested"}

VARIABLES
    status,     \* payments.status, "NONE" before the row exists
    resv,       \* budget_reservations.status
    reserved,   \* budgets.reserved_amount
    consumed,   \* budgets.consumed_amount
    op,         \* provider_operations.status of the CHARGE operation
    opRef,      \* whether its provider_reference has been stored
    txn,        \* transactions.status by idempotency key
    journal,    \* idempotency keys of the posted ledger_journals
    events      \* event types enqueued in outbox_events at least once

budgetVars == <<resv, reserved, consumed>>
operationVars == <<op, opRef>>
ledgerVars == <<txn, journal>>
storeVars == <<status, budgetVars, operationVars, ledgerVars, events>>

StoreTypeOK ==
    /\ status \in [Payments -> PaymentStatus]
    /\ resv \in [Payments -> ReservationStatus]
    /\ reserved \in [Budgets -> Nat]
    /\ consumed \in [Budgets -> Nat]
    /\ op \in [Payments -> OperationStatus]
    /\ opRef \in [Payments -> BOOLEAN]
    /\ txn \in [Payments -> [TxnKeys -> TxnStatus]]
    /\ journal \in [Payments -> SUBSET JournalKeys]
    /\ events \in [Payments -> SUBSET EventType]

StoreInit ==
    /\ status = [p \in Payments |->
                    IF p \in Preauthorized THEN "AUTHORIZED" ELSE "NONE"]
    /\ resv = [p \in Payments |-> "NONE"]
    /\ reserved = [b \in Budgets |-> 0]
    /\ consumed = [b \in Budgets |-> 0]
    /\ op = [p \in Payments |-> "NONE"]
    /\ opRef = [p \in Payments |-> FALSE]
    /\ txn = [p \in Payments |-> [k \in TxnKeys |-> "NONE"]]
    /\ journal = [p \in Payments |-> {}]
    /\ events = [p \in Payments |-> {}]

----------------------------------------------------------------------------
(* PaymentRepository, outbox.enqueue *)

SetStatus(p, s) == status' = [status EXCEPT ![p] = s]

Emit(p, types) == events' = [events EXCEPT ![p] = @ \cup types]

\* create_provider_operation for the CHARGE: the first call inserts the row,
\* a later one finds it by its idempotency key and leaves it as it is.
OpenCharge(p) ==
    /\ op' = IF op[p] = "NONE" THEN [op EXCEPT ![p] = "PENDING"] ELSE op
    /\ UNCHANGED opRef

\* The UPDATE that records the provider's final answer, and its reference if
\* the caller has one: COALESCE keeps what is stored otherwise.
SettleCharge(p, outcome) ==
    /\ op' = [op EXCEPT ![p] = outcome]
    /\ opRef' \in {opRef, [opRef EXCEPT ![p] = TRUE]}

\* The UPDATE of the unknown branch: the status only, not the reference.
MarkChargeUnknown(p) ==
    /\ op' = [op EXCEPT ![p] = "UNKNOWN"]
    /\ UNCHANGED opRef

----------------------------------------------------------------------------
(* BudgetRepository *)

\* Seeded fault: what others have reserved is not counted.
FaultAvailable(b) == Limit[b] - consumed[b]

Available(b) == Limit[b] - consumed[b] - reserved[b]

\* Seeded fault: a reservation is granted while anything at all is left.
FaultReserve(p) ==
    /\ resv[p] = "NONE"
    /\ Available(BudgetOf[p]) > 0
    /\ resv' = [resv EXCEPT ![p] = "RESERVED"]
    /\ reserved' = [reserved EXCEPT ![BudgetOf[p]] = @ + Amount[p]]
    /\ UNCHANGED consumed

\* reserve: under the budget's row lock; the reservation is unique per budget
\* and request, and a request is bound to one budget.
Reserve(p) ==
    /\ resv[p] = "NONE"
    /\ Available(BudgetOf[p]) >= Amount[p]
    /\ resv' = [resv EXCEPT ![p] = "RESERVED"]
    /\ reserved' = [reserved EXCEPT ![BudgetOf[p]] = @ + Amount[p]]
    /\ UNCHANGED consumed

\* Seeded fault: the reservation's status is not looked at.
FaultConsume(p) ==
    /\ resv' = [resv EXCEPT ![p] = "CONSUMED"]
    /\ reserved' = [reserved EXCEPT ![BudgetOf[p]] = @ - Amount[p]]
    /\ consumed' = [consumed EXCEPT ![BudgetOf[p]] = @ + Amount[p]]

\* consume: a reservation that is no longer RESERVED is left alone.
Consume(p) ==
    IF resv[p] = "RESERVED"
    THEN /\ resv' = [resv EXCEPT ![p] = "CONSUMED"]
         /\ reserved' = [reserved EXCEPT ![BudgetOf[p]] = @ - Amount[p]]
         /\ consumed' = [consumed EXCEPT ![BudgetOf[p]] = @ + Amount[p]]
    ELSE UNCHANGED budgetVars

\* Seeded fault: likewise.
FaultRelease(p) ==
    /\ resv' = [resv EXCEPT ![p] = "RELEASED"]
    /\ reserved' = [reserved EXCEPT ![BudgetOf[p]] = @ - Amount[p]]
    /\ UNCHANGED consumed

\* release: likewise.
Release(p) ==
    IF resv[p] = "RESERVED"
    THEN /\ resv' = [resv EXCEPT ![p] = "RELEASED"]
         /\ reserved' = [reserved EXCEPT ![BudgetOf[p]] = @ - Amount[p]]
         /\ UNCHANGED consumed
    ELSE UNCHANGED budgetVars

----------------------------------------------------------------------------
(* transactions and post_journal *)

WriteTxn(p, key, s) == txn' = [txn EXCEPT ![p] = [@ EXCEPT ![key] = s]]

\* post_journal: a journal whose idempotency key exists is not posted again.
PostJournal(p, key) == journal' = [journal EXCEPT ![p] = @ \cup {key}]

Posted(p, keys) == {k \in keys : txn[p][k] = "POSTED"}

\* SUM(amount) of the POSTED CAPTURE rows, each for the payment's full amount.
Captured(p) == Total(Posted(p, CaptureKeys), [k \in CaptureKeys |-> Amount[p]])

\* SUM(amount) of the POSTED REFUND rows.
Refunded(p) == Total(Posted(p, RefundKeys), RefundAmount)
=============================================================================
