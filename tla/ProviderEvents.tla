--------------------------- MODULE ProviderEvents ---------------------------
(***************************************************************************)
(* The provider's webhook for a charge: webhooks.provider_webhook records  *)
(* the event under its unique id and ProviderEventResolver.resolve applies *)
(* it, in one transaction.  The provider sends the event at any time after *)
(* it has a result and again as often as it likes; a delivery that raises  *)
(* (no operation has the reference yet) rolls back the record of the event *)
(* too, and a later delivery starts afresh.  An event recorded once is     *)
(* answered DUPLICATE for ever, which changes nothing.                     *)
(*                                                                         *)
(* Only the CHARGE operation of a payment can be found: no code stores a   *)
(* reference on a CAPTURE, VOID or REFUND operation.                       *)
(***************************************************************************)
EXTENDS Provider

CONSTANT
    DirectResolution    \* the resolver is handed the operation's id, as in
                        \* tests/test_postgres_e2e.py, instead of finding the
                        \* operation by reference as the HTTP route does

ASSUME ProviderEventsAssumption == DirectResolution \in BOOLEAN

VARIABLE
    resolved    \* whether the charge's event is recorded and PROCESSED

ProviderEventsTypeOK == resolved \in [Payments -> BOOLEAN]

ProviderEventsInit == resolved = [p \in Payments |-> FALSE]

\* The event carries a final result and its operation can be found.
Deliverable(p, result) ==
    /\ chargeResult[p] = result /\ result # "NONE"
    /\ ~resolved[p]
    /\ op[p] # "NONE"
    /\ opRef[p] \/ DirectResolution

MarkProcessed(p) ==
    /\ resolved' = [resolved EXCEPT ![p] = TRUE]
    /\ UNCHANGED <<providerVars, events>>

\* The statuses the resolver acts in (PAYMENT_PENDING is never assigned).
Resolvable(p) == status[p] \in {"UNKNOWN_EXTERNAL_OUTCOME", "PROCESSING"}

WebhookIgnored(p) ==
    /\ \E result \in Result : Deliverable(p, result)
    /\ ~Resolvable(p)
    /\ MarkProcessed(p)
    /\ UNCHANGED <<status, budgetVars, operationVars, ledgerVars>>

\* Seeded fault: the webhook leaves the budget to the worker.
FaultWebhookSucceeded(p) ==
    /\ Deliverable(p, "SUCCEEDED")
    /\ Resolvable(p)
    /\ SettleCharge(p, "SUCCEEDED")
    /\ WriteTxn(p, "capture:transaction", "POSTED")
    /\ PostJournal(p, "capture")
    /\ SetStatus(p, "SUCCEEDED")
    /\ MarkProcessed(p)
    /\ UNCHANGED budgetVars

\* The capture is recorded under a transaction key of the resolver's own and
\* under the journal key that finalize uses too.  No event is enqueued.
WebhookSucceeded(p) ==
    /\ Deliverable(p, "SUCCEEDED")
    /\ Resolvable(p)
    /\ resv[p] # "NONE"
    /\ SettleCharge(p, "SUCCEEDED")
    /\ Consume(p)
    /\ WriteTxn(p, "capture:transaction", "POSTED")
    /\ PostJournal(p, "capture")
    /\ SetStatus(p, "SUCCEEDED")
    /\ MarkProcessed(p)

WebhookFailed(p) ==
    /\ Deliverable(p, "FAILED")
    /\ Resolvable(p)
    /\ SettleCharge(p, "FAILED")
    /\ IF resv[p] # "NONE" THEN Release(p) ELSE UNCHANGED budgetVars
    /\ SetStatus(p, "FAILED")
    /\ MarkProcessed(p)
    /\ UNCHANGED ledgerVars

Webhook(p) == WebhookIgnored(p) \/ WebhookSucceeded(p) \/ WebhookFailed(p)

ProviderEventsNext == \E p \in Payments : Webhook(p)
=============================================================================
