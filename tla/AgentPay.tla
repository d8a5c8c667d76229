------------------------------ MODULE AgentPay ------------------------------
(***************************************************************************)
(* The payment core as deployed: API processes, payment workers, the       *)
(* webhook route and the lifecycle route over one database and one         *)
(* provider.  The steps of the parts interleave freely.                    *)
(***************************************************************************)
EXTENDS Checkout, Execution, ProviderEvents, Lifecycle

vars == <<storeVars, checkoutVars, providerVars, workerVars, resolved>>

TypeOK ==
    /\ StoreTypeOK
    /\ CheckoutTypeOK
    /\ ProviderTypeOK
    /\ ExecutionTypeOK
    /\ ProviderEventsTypeOK

Init ==
    /\ StoreInit
    /\ CheckoutInit
    /\ ProviderInit
    /\ ExecutionInit
    /\ ProviderEventsInit

Next ==
    \/ CheckoutNext /\ UNCHANGED <<providerVars, workerVars, resolved>>
    \/ ExecutionNext /\ UNCHANGED <<checkoutVars, resolved>>
    \/ ProviderEventsNext /\ UNCHANGED <<checkoutVars, workerVars>>
    \/ LifecycleNext /\ UNCHANGED <<checkoutVars, workerVars, resolved>>

Spec == Init /\ [][Next]_vars

\* Workers are run again and again by their scheduler and none of their steps
\* waits for another process; the provider repeats its webhook until the route
\* takes it.  Clients, approvers, refunds, the clock and crashes owe nothing.
Fairness ==
    /\ \A w \in Workers :
          WF_vars(WorkerStep(w) /\ UNCHANGED <<checkoutVars, resolved>>)
    /\ \A p \in Payments :
          WF_vars(Webhook(p) /\ UNCHANGED <<checkoutVars, workerVars>>)

FairSpec == Spec /\ Fairness

----------------------------------------------------------------------------
(* Budget *)

Holding(b, s) == {p \in Payments : BudgetOf[p] = b /\ resv[p] = s}

\* The counters kept on the budget row are the sums over its reservations,
\* whichever of finalize, the webhook and their repetitions got there first
\* (BudgetRepository.consume and release).
BudgetCountersExact ==
    \A b \in Budgets :
        /\ reserved[b] = Total(Holding(b, "RESERVED"), Amount)
        /\ consumed[b] = Total(Holding(b, "CONSUMED"), Amount)

\* What is reserved and consumed never exceeds the limit, however many
\* requests compete for the budget (BudgetRepository.reserve).
BudgetNeverOvercommitted ==
    \A b \in Budgets : reserved[b] + consumed[b] <= Limit[b]

\* The reservations behave as the escrow of BudgetEscrow: set aside once
\* within the limit, then spent or given back once.
Escrow == INSTANCE BudgetEscrow WITH hold <- resv
EscrowKept == Escrow!Spec

\* Once the provider has the money, its share of the budget is not given
\* back: not by a webhook, a late worker or a crash in between.
AcceptedChargeKeepsHold ==
    \A p \in Payments :
        chargeResult[p] = "SUCCEEDED" => resv[p] \in {"RESERVED", "CONSUMED"}

----------------------------------------------------------------------------
(* Outcome *)

Chargeable == Payments \ Preauthorized

Settled == {"SUCCEEDED", "REFUND_FAILED", "REFUNDED"}

\* A payment reported paid is paid: the provider took the money, the budget
\* was consumed, a CAPTURE is posted and the ledger has its journal
\* (finalize and ProviderEventResolver must both have done all of it).
SettledIsBacked ==
    \A p \in Chargeable :
        status[p] \in Settled =>
            /\ chargeResult[p] = "SUCCEEDED"
            /\ resv[p] = "CONSUMED"
            /\ Posted(p, CaptureKeys) # {}
            /\ "capture" \in journal[p]

\* A payment reported failed moved no money and holds no budget.
FailedMovesNothing ==
    \A p \in Payments :
        status[p] = "FAILED" =>
            /\ chargeResult[p] # "SUCCEEDED"
            /\ resv[p] \in {"NONE", "RELEASED"}
            /\ Posted(p, TxnKeys) = {} /\ journal[p] = {}

\* Every effect on the ledger has its provider-side cause: a capture journal
\* only for a charge the provider accepted, a refund journal only for a
\* refund it accepted, whatever was retried, lost or answered twice.
LedgerHasCause ==
    \A p \in Payments :
        /\ "capture" \in journal[p] /\ p \in Chargeable
              => chargeResult[p] = "SUCCEEDED"
        /\ \A k \in journal[p] \cap RefundKeys : refundResult[p][k] = "SUCCEEDED"

\* The ledger and the transactions tell the same story, although the capture
\* may be recorded by finalize, by the webhook or by both.
LedgerMatchesTransactions ==
    \A p \in Payments :
        /\ "capture" \in journal[p] <=> Posted(p, CaptureKeys) # {}
        /\ journal[p] \cap RefundKeys = Posted(p, RefundKeys)

\* No payment is announced both as succeeded and as failed.
OneVerdictAnnounced ==
    \A p \in Payments :
        ~ ({"PaymentSucceeded", "PaymentFailed"} \subseteq events[p])

\* Nothing is sent to the provider for a payment that waits for a decision or
\* was denied one, and no payment is sent without its reservation.
ChargeIsAuthorized ==
    \A p \in Payments :
        approval[p] \in {"PENDING", "DENIED"} \/ resv[p] = "NONE" =>
            chargeResult[p] = "NONE" /\ op[p] = "NONE"

\* Refunds posted never exceed the captures posted.
RefundsCovered == \A p \in Payments : Refunded(p) <= Captured(p)

\* A refund recorded as failed was not made: one whose answer was lost stays
\* in doubt, also where a worker that holds the recorded success of the charge
\* has reopened the payment and the refund is tried again under its key.
FailedRefundsMoveNothing ==
    \A p \in Payments, k \in RefundKeys :
        txn[p][k] = "FAILED" => refundResult[p][k] # "SUCCEEDED"

\* A payment is reported REFUNDED exactly when nothing refundable is left,
\* whatever partial refunds, failures and replays led there
\* (PaymentLifecycle.refund's "remaining").
RefundedIsComplete ==
    \A p \in Preauthorized :
        status[p] \in Settled =>
            (status[p] = "REFUNDED" <=> Refundable(p) = 0)

----------------------------------------------------------------------------
(* What a step may never do *)

\* A posted transaction stays posted and a failed one failed: retries under
\* the same key replay the recorded outcome.
TransactionsFinal ==
    [][\A p \in Payments, k \in TxnKeys :
          txn[p][k] \in {"POSTED", "FAILED"} => txn'[p][k] = txn[p][k]]_vars

----------------------------------------------------------------------------
(* Progress *)

\* A started payment is worked off: it does not stay PROCESSING for ever,
\* crashes of the workers notwithstanding.
StartedIsDecided ==
    \A p \in Payments :
        status[p] = "PROCESSING" ~> status[p] # "PROCESSING"

\* If the provider took the money, the budget, the transactions and the ledger
\* come to say so for good, although workers crash, overtake each other and set
\* the payment's status back again and again; or the operation is UNKNOWN,
\* because no worker has learnt the provider's answer (UnknownIsResolved).
AcceptedEndsBooked ==
    \A p \in Chargeable :
        chargeResult[p] = "SUCCEEDED" ~>
            [](\/ op[p] = "UNKNOWN"
               \/ /\ resv[p] = "CONSUMED"
                  /\ Posted(p, CaptureKeys) # {}
                  /\ "capture" \in journal[p])

----------------------------------------------------------------------------
(***************************************************************************)
(* What the repository's documents say of the program and the code does    *)
(* not do.  Each is the subject of a run that finds it violated.           *)
(***************************************************************************)

\* "Terminal states are immutable except for explicitly modeled
\* reconciliation corrections."  process_one writes PROCESSING over whatever
\* the payment has become since it was claimed.
TerminalImmutable ==
    [][\A p \in Payments :
          status[p] \in {"SUCCEEDED", "FAILED", "REFUNDED"} =>
              status'[p] # "PROCESSING"]_vars

\* "The aggregate refunded amount must never exceed the refundable amount of
\* the original transaction."  finalize and the resolver record the capture
\* under different transaction keys, and refund adds both up.
RefundsWithinAmount == \A p \in Payments : Refunded(p) <= Amount[p]

\* "A verified success for an unknown charge resolves
\* UNKNOWN_EXTERNAL_OUTCOME using the original provider operation identity."
\* finalize does not store the reference of an unknown charge, so the webhook
\* route cannot find its operation.
UnknownIsResolved ==
    \A p \in Payments :
        status[p] = "UNKNOWN_EXTERNAL_OUTCOME" /\ chargeResult[p] = "SUCCEEDED"
            ~> status[p] # "UNKNOWN_EXTERNAL_OUTCOME"
=============================================================================
