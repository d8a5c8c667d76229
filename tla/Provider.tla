------------------------------ MODULE Provider ------------------------------
(***************************************************************************)
(* The payment provider, outside the database.  It keeps one result per    *)
(* idempotency key, so a repeated call has no second effect; the caller    *)
(* may not learn the result (a timeout), and a call that timed out may or  *)
(* may not have reached the provider.  Nothing a crash of Agent-Pay or a   *)
(* rolled-back transaction does undoes a result.                           *)
(***************************************************************************)
EXTENDS PaymentStore

Outcome == {"SUCCEEDED", "FAILED", "UNKNOWN"}
Result == {"NONE", "SUCCEEDED", "FAILED"}

VARIABLES
    chargeResult,   \* the provider's result for key payment:{id}:charge
    refundResult    \* its result for each key payment:{id}:refund:{amount}:..

providerVars == <<chargeResult, refundResult>>

ProviderTypeOK ==
    /\ chargeResult \in [Payments -> Result]
    /\ refundResult \in [Payments -> [RefundKeys -> Result]]

ProviderInit ==
    /\ chargeResult = [p \in Payments |-> "NONE"]
    /\ refundResult = [p \in Payments |-> [k \in RefundKeys |-> "NONE"]]

\* Seeded fault: every attempt is sent under a key of its own.
FaultReplies(result) ==
    {r \in [result : Result, answer : Outcome] :
        r.answer \in {r.result, "UNKNOWN"}}

\* What a call may leave behind and answer, given the result kept for its key.
Replies(result) ==
    {r \in [result : Result, answer : Outcome] :
        /\ r.answer \in {r.result, "UNKNOWN"}
        /\ result # "NONE" => r.result = result}
=============================================================================
