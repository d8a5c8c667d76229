------------------------------ MODULE Lifecycle -----------------------------
(***************************************************************************)
(* PaymentLifecycle behind POST /v1/payments/{id}/capture, void and        *)
(* refund: one transaction each, with the provider call inside it.  So a   *)
(* handler is one step for the database, but the provider keeps its result *)
(* even when the transaction is rolled back after the call                 *)
(* (RefundRolledBack).                                                     *)
(*                                                                         *)
(* No code of the repository makes a payment AUTHORIZED: capture and void  *)
(* apply to rows that start out so (Preauthorized), as the tests insert    *)
(* them.  Their provider_operations rows are never read or updated and are *)
(* left out.                                                               *)
(***************************************************************************)
EXTENDS Provider

\* Capture and void: what the provider answers is not tied to anything else.
Deciding(p, s) ==
    /\ status[p] = "AUTHORIZED"
    /\ SetStatus(p, s)
    /\ UNCHANGED <<budgetVars, operationVars, events, providerVars>>

CaptureSucceeded(p) ==
    /\ Deciding(p, "SUCCEEDED")
    /\ WriteTxn(p, "capture", "POSTED")
    /\ PostJournal(p, "capture")

CaptureFailed(p) ==
    /\ Deciding(p, "FAILED")
    /\ WriteTxn(p, "capture:failed", "FAILED")
    /\ UNCHANGED journal

VoidSucceeded(p) ==
    /\ Deciding(p, "VOIDED")
    /\ WriteTxn(p, "void", "POSTED")
    /\ UNCHANGED journal

VoidFailed(p) ==
    /\ Deciding(p, "VOID_FAILED")
    /\ WriteTxn(p, "void:failed", "FAILED")
    /\ UNCHANGED journal

CaptureOrVoidUnknown(p) ==
    /\ Deciding(p, "UNKNOWN_EXTERNAL_OUTCOME")
    /\ UNCHANGED ledgerVars

----------------------------------------------------------------------------
Refundable(p) == Captured(p) - Refunded(p)

\* Seeded fault: earlier refunds are not subtracted.
FaultRefundAdmitted(p, key) ==
    /\ status[p] \in {"SUCCEEDED", "REFUND_FAILED", "REFUNDED"}
    /\ txn[p][key] \in {"NONE", "PENDING"}
    /\ RefundAmount[key] <= Captured(p)

\* Seeded fault: a refund that failed is tried again under the same key.
FaultRefundRetried(p, key) ==
    /\ status[p] \in {"SUCCEEDED", "REFUND_FAILED", "REFUNDED"}
    /\ txn[p][key] # "POSTED"
    /\ RefundAmount[key] <= Refundable(p)

\* A refund under a key already POSTED or FAILED is a replay: nothing changes.
RefundAdmitted(p, key) ==
    /\ status[p] \in {"SUCCEEDED", "REFUND_FAILED", "REFUNDED"}
    /\ txn[p][key] \in {"NONE", "PENDING"}
    /\ RefundAmount[key] <= Refundable(p)

\* provider.refund, called with the handler's transaction open.
CallRefund(p, key, answer_) ==
    \E r \in Replies(refundResult[p][key]) :
        /\ r.answer = answer_
        /\ refundResult' =
              [refundResult EXCEPT ![p] = [@ EXCEPT ![key] = r.result]]
        /\ UNCHANGED chargeResult

Refunding(p, key, answer_) ==
    /\ RefundAdmitted(p, key)
    /\ CallRefund(p, key, answer_)
    /\ UNCHANGED <<budgetVars, operationVars, events>>

\* Seeded fault: a refund without an answer is posted.
FaultRefundUnknown(p, key) ==
    /\ Refunding(p, key, "UNKNOWN")
    /\ WriteTxn(p, key, "POSTED")
    /\ SetStatus(p, "UNKNOWN_EXTERNAL_OUTCOME")
    /\ UNCHANGED journal

\* Seeded fault: a refund without an answer is recorded as failed.
FaultRefundTimedOut(p, key) ==
    /\ Refunding(p, key, "UNKNOWN")
    /\ WriteTxn(p, key, "FAILED")
    /\ SetStatus(p, "REFUND_FAILED")
    /\ UNCHANGED journal

RefundUnknown(p, key) ==
    /\ Refunding(p, key, "UNKNOWN")
    /\ WriteTxn(p, key, "PENDING")
    /\ SetStatus(p, "UNKNOWN_EXTERNAL_OUTCOME")
    /\ UNCHANGED journal

RefundFailed(p, key) ==
    /\ Refunding(p, key, "FAILED")
    /\ WriteTxn(p, key, "FAILED")
    /\ SetStatus(p, "REFUND_FAILED")
    /\ UNCHANGED journal

\* Seeded fault: any refund counts as the whole.
FaultRefundSucceeded(p, key) ==
    /\ Refunding(p, key, "SUCCEEDED")
    /\ WriteTxn(p, key, "POSTED")
    /\ PostJournal(p, key)
    /\ SetStatus(p, "REFUNDED")

RefundSucceeded(p, key) ==
    /\ Refunding(p, key, "SUCCEEDED")
    /\ WriteTxn(p, key, "POSTED")
    /\ PostJournal(p, key)
    /\ SetStatus(p, IF Refundable(p) = RefundAmount[key]
                    THEN "REFUNDED" ELSE "SUCCEEDED")

\* The process dies, or the transaction fails, after the provider was called.
RefundRolledBack(p, key) ==
    /\ RefundAdmitted(p, key)
    /\ \E answer_ \in Outcome : CallRefund(p, key, answer_)
    /\ UNCHANGED storeVars

LifecycleNext ==
    \E p \in Payments :
        \/ CaptureSucceeded(p)
        \/ CaptureFailed(p)
        \/ VoidSucceeded(p)
        \/ VoidFailed(p)
        \/ CaptureOrVoidUnknown(p)
        \/ \E key \in RefundKeys :
              \/ RefundUnknown(p, key)
              \/ RefundFailed(p, key)
              \/ RefundSucceeded(p, key)
              \/ RefundRolledBack(p, key)
=============================================================================
