# Agent-Pay in TLA+

Agent-Pay lets software agents request payments under a spending policy, a
budget and, where the policy says so, a person's approval.  A worker then
charges a payment provider, the provider reports back by webhook, and captured
payments can be refunded.  This directory models the part of the reference
implementation (`src/reference/implementation/src/agent_pay`, called `R/` below)
that moves money, checks it with TLC and proves its safety with TLAPS.

## 1. Inventory

### The parts and how they interact

```
 client ----> create_payment ----+                      +--> capture, void, refund <--- client
 approver --> approve / deny ----+                      |     (calls provider.refund)
                                 v                      v
                         +-------------------------------------+
                         |              PostgreSQL             |
                         +-------------------------------------+
                            ^   claim, finalize         ^
                            |                           | webhook
                          worker(s) --- charge ---> provider

 handlers --> outbox_events --> publisher(s) --> audit_events, notifications
 provider --> settlement report --> settlements, reconciliation_records
```

The parts share nothing but the database and the provider.  Each handler runs in
one transaction (`UnitOfWork`), except the worker and the publisher, which use
several.  The in-memory service is a second, self-contained checkout: it shares
the policy with the API and has a budget, a router and rails of its own.

| Part | Source | State | Operations |
|---|---|---|---|
| Payment store | `R/repositories.py`, `R/ledger.py`, `R/outbox.py` (enqueue), SQL schema | payments, provider_operations, transactions, ledger_journals, outbox_events | update_status, create_provider_operation, post_journal, enqueue |
| Budget | `R/repositories.py`, `R/control.py` | budgets, budget_reservations | select/bind, reserve, consume, release |
| Checkout | `R/api.py`, `R/control.py` | payment_requests, payments | create_payment |
| Approvals | `R/api.py`, `R/control.py` | approvals | approve, deny, expiry |
| Worker | `R/worker_runner.py`, `R/worker.py`, `R/orchestrator.py` | none but local variables | claim, open, consult, charge, finalize |
| Provider | `R/provider.py`, `R/simulator.py` | a result per idempotency key | charge, capture, void, refund |
| Webhook | `R/webhooks.py`, `R/webhook_resolution.py`, `R/provider_events.py` | provider_events | record, resolve |
| Lifecycle | `R/lifecycle.py`, `R/lifecycle_api.py` | none of its own | capture, void, refund |
| Policy | `R/policy.py`, `R/control.py` | policy versions (read only) | from_rules, evaluate |
| Outbox delivery | `R/outbox.py`, `R/outbox_worker.py`, `R/audit.py` | outbox_events, audit_events, notifications | claim, publish, mark failed, recover stale |
| Settlement | `R/settlement.py`, `R/reconciliation.py` | settlements, reconciliation_records | ingest |
| Access | `R/auth.py`, `R/authorization.py`, `R/atf_evidence.py` | authorization_evidence | resolve tokens, verify and validate evidence |
| In-memory service | `R/service.py`, `R/budget.py`, `R/router.py`, `R/rails.py` | dictionaries and counters in one process | create_payment; reserve, consume, release; route; charge |
| Instruments | `R/instruments.py` | none | select |

### What is hard here

* Claims are not leases.  `run_once` commits, and with the commit drops the row
  locks, before any of the claimed payments is worked on.  Two workers may hold
  the same payment, and a worker may start on one that was settled long ago.
* The provider is outside the transaction.  A worker can die, or the answer can
  be lost, after the money moved.
* Two writers settle the same charge, `finalize` and `ProviderEventResolver`,
  and each must leave the budget, the transactions and the ledger right whatever
  the other did first.
* `refund` calls the provider with its transaction open.
* The budget row is shared by all requests of an account.
* A publisher may die with events claimed, lose the confirmation of a commit, or
  be so slow that its claim is taken back while it works.
* A settlement report is judged at once, whatever else is still under way.
* Two requests may carry one idempotency key.  The second waits for the first in
  the middle of its transaction, and goes on after a savepoint with whatever the
  first left: a payment, nothing, or a different request.
* Evidence is checked twice, by code that looks at different things and at two
  times, and may expire in between; a replayed call's evidence is not checked.
* The in-memory service looks its key up, charges and records without a lock.
* A schedule may run over midnight or be open on one side; rules and requests
  spell names differently.

The hazards are listed with their lines in `PROJECT.json`; each names the
properties that watch it, or says why none does yet.

### What makes each part correct

* Budget: counters equal the sums over the reservations, never above the limit;
  a reservation is decided once; money taken keeps its reservation.
* Settlement of a charge: a payment reported paid is paid in all four places
  (provider, budget, transactions, ledger); one reported failed moved nothing;
  no payment is announced both ways.
* Approvals: nothing is charged that waits for a decision or was denied one.
* Refunds: never more than was captured; REFUNDED exactly when nothing is left;
  a decided refund stays decided; one recorded as failed was not made.
* Creation: one key, one payment, whatever interleaves; what the statements of a
  transaction do together is what the rest of the models take as one step; only
  authorised requests are paid; every call is answered.
* Policy: asking for more is never easier; hours mean the same on both sides of
  midnight; what is charged is on the lists and not denied, whatever letter
  case and blanks the intent has.
* In-memory service: the counters are the money of the calls that hold it; what
  the rails took is covered; an answer is what the rail decided.
* Progress: a started payment is decided; money taken ends up in the books.
* Outbox: what is published has been recorded, once, and is never handed out
  again; every committed event is published or set aside.
* Settlement: a report that matched is about money in the books.

## 2. Modules

| Module | Models | Correspondence |
|---|---|---|
| `Money` | sums of amounts | `Total(S, amount)` is SUM(amount) over a finite set of rows |
| `PaymentStore` | the tables and repository calls | one function of the payment per column; one operator per repository call |
| `Provider` | the provider | `chargeResult`, `refundResult` keep one result per idempotency key; `Replies` is what a call may do and answer |
| `Checkout` | create, approve, deny, expiry | one action per outcome of a handler |
| `Execution` | workers and `finalize` | one action per step between which another process can act; `pc`, `batch`, `job`, `answer` are the local variables of `run_once` and `process_one` |
| `ProviderEvents` | webhook route and resolver | one action per branch of `resolve`; `resolved` is the event's row |
| `Lifecycle` | capture, void, refund | one action per outcome; `RefundRolledBack` is a transaction that dies after the provider call |
| `AgentPay` | all of them together | `Next` interleaves the parts; the properties are here |
| `BudgetEscrow` | what the budget promises | abstract: no counters, only what became of each share |
| `CreateOnce` | what an idempotency key promises | abstract: who made the payment of a key, and what each call was told |
| `Authority` | bearer token and evidence checks | `Admitted`, `Verifies`, `Validates` are the conditions of `resolve_bearer` with `require_agent`, `verify_signed_assertion` and `AuthorizationContext.validate` |
| `Creation` | `create_payment` statement by statement | one action per statement that reads or waits; `draft`, `inserting`, `rowLock` are what a transaction has written or locked and not committed |
| `Policy` | `SpendingPolicy` | `FromRules` is `from_rules`, `Evaluate` is `evaluate_with_trace`; no state |
| `Service` | `PaymentService`, `Budget`, `PaymentRouter`, the rails | one action per stretch of code between which another thread can act; `recorded` is `_idempotency`, `charged` the rails' `_results` |
| `Settlement` | ingestion of settlement reports, beside all of `AgentPay` | `verdict` is a report's row and record; `Judge` is the look-up and the comparison |
| `Outbox` | `claim_batch`, `process_once`, `mark_failed`, `recover_stale`, audit and notification rows | `row`, `attempts`, `due`, `overdue` are columns of outbox_events; `effect` counts the rows the event's id has in audit_events or notifications; `batch`, `returning` are the local variables of `process_once` |
| `MCAgentPay`, `MCSettlement`, `MCOutbox`, `MCCreation`, `MCService` | values for TLC | |
| `MoneyProofs`, `AgentPayProofs`, `ChargeProofs`, `BooksProofs`, `LedgerProofs`, `CreationProofs`, `OutboxProofs`, `ServiceProofs` | theorems | section 5 |

Conventions of the models:

* **A transaction is one step**, except in `Creation`.  Handlers lock the rows
  they decide on (`FOR UPDATE`), so what they read is still true when they
  write.  For the one handler that first looks without a lock, `create_payment`,
  `Creation` interleaves the statements and shows that together they are a step
  of `Checkout` (`CreatesAtomically`).  A handler that raises rolls back and is
  not an action, because it changes nothing.  Statuses written and overwritten
  within one transaction (POLICY_CHECK, VOID_REQUESTED, REFUND_PROCESSING) are
  never seen by anybody.
* **One request, one payment.**  `payments.payment_request_id` is unique, a
  reservation is unique per budget and request, and `bind_budget` gives a request
  one budget, so request, payment, reservation and CHARGE operation are one model
  value.
* **Keys are model values.**  The two capture transaction keys of the code
  (`tx:{id}:capture` and `payment:{id}:capture:transaction`) are kept apart,
  since the code keeps them apart.  Refund keys contain the amount as the client
  wrote it, so two keys may denote one amount (`1` and `1.00`).
* **Amounts are whole units.**  The code compares and adds decimals exactly.
  `Service` counts in grains, `Grain` of which make a minor unit, because there
  `int(amount * 100)` drops what is left over.
* **The policy's decision is an input** of `Checkout` and `Creation`; what
  `evaluate` decides is `Policy`, which `Service` calls.
* **A name is a word and its spelling**: in another letter case, or with blanks
  around it.  `from_rules` unifies the case of every name and strips two of the
  five dimensions; `evaluate` does both to every name of the intent; the router
  does neither.
* **A rail's decision is open.**  `SimulatedPaymentRail` answers a new key with its
  `outcome` attribute, which a test sets; the model lets it answer anything, and
  repeat it for that key.
* **The provider deduplicates.**  `MockProvider` and `SandboxProvider` do, by
  idempotency key, within one process.  The worker builds a new `MockProvider`
  on each run; the model is of the deployment the code is written for, where the
  provider outlives the worker.
* **An unknown answer may mean anything.**  The call may not have arrived, may
  have been refused, or may have been accepted, as `ProviderSimulator` does.
* **`DirectResolution`.**  The HTTP route finds the operation by
  `provider_reference`; `tests/test_postgres_e2e.py` hands the resolver the
  operation's id.  With TRUE the model does the latter, which allows strictly
  more behaviour for the resolver, so safety is checked with TRUE.  With FALSE it
  is the route alone, as deployed; progress and the violations use FALSE.
* **A reference may be missing.**  A worker that found the recorded outcome passes
  on whatever reference is stored, and not every provider has `reference_for`, so
  `SettleCharge` stores a reference or leaves the column alone.
* **A report may say anything.**  `Settlement!Ingest` takes any charge, any
  amount of `Observed` and the right or a wrong currency at any time;
  `IngestStray` a reference no charge has.
* **Delivery is modelled apart from the handlers.**  `Outbox!Enqueue` stands for
  the commit of any handler.  `process_once` reads payments only for the account
  id, which never changes.
* **An event's `attempts`** are counted up to `MaxAttempts`, because nothing but
  `attempts >= max_attempts` is asked of them.  Whether `available_at` has come
  and whether a claim is older than the lease are Booleans that time sets.
* **A dead letter may have its effect.**  A publisher that comes back after its
  last attempt was written off still records the event; the code does the same.
* **`Preauthorized`.**  No code makes a payment AUTHORIZED; the tests insert such
  rows to exercise capture and void, and so does the model's initial state.

Operators called `Fault...` are seeded faults.  They are used by no action; each
is a plausible mistake in the operator below it and shows that a property can
tell the difference.

## 3. What TLC checks

The configuration has the run's name.  The module is `MCAgentPay`, for `Race`
`MCSettlement`, for `Outbox` and `PoisonLoops` `MCOutbox`, for `Creation`
`MCCreation`, for `Service` `MCService`.

| Run | Instance | Distinct states | Shows |
|---|---|---|---|
| `Race` | 1 payment, 3 workers, 1 crash, 1 refund key, 1 settlement report | 387,705 | with every interleaving of three workers, the resolver, approval, a refund and a report: `AcceptedChargeKeepsHold`, `SettledIsBacked`, `FailedMovesNothing`, `LedgerHasCause`, `LedgerMatchesTransactions`, `OneVerdictAnnounced`, `ChargeIsAuthorized`, `MatchedIsBacked`, `FailedRefundsMoveNothing`, `TransactionsFinal` |
| `Budget` | 3 payments of 1, 2 and 2 on a budget of 3, 1 worker, 1 crash | 2,040,552 | `BudgetCountersExact`, `BudgetNeverOvercommitted`, and that the system implements `BudgetEscrow` (`EscrowKept`) |
| `Refunds` | 1 preauthorized payment of 2, refunds of 1, 2 and 1 | 297 | `RefundsCovered`, `RefundedIsComplete` |
| `Progress` | 1 payment, 2 workers, 2 crashes, the webhook route, fair | 3,273 | `StartedIsDecided`, `AcceptedEndsBooked` |
| `Creation` | 4 calls, 3 of them on one key, a budget that fits one of them, fair | 179,240 | that concurrent calls implement `CreateOnce` (`CreatesOnce`) and the one-step handler of `Checkout` (`CreatesAtomically`); `CallsAnswered`, `LooseEvidenceIsRepeated`, `PaidAsAuthorized` |
| `Service` | 5 calls, 3 of them on one key, 10 policies, 2 rails, a budget of 7 grains | 22,170 | that the in-process Budget implements `BudgetEscrow` (`HoldsInService`); `ReservedIsExplained`, `ChargedIsCovered`, `AnswersAreTrue`; `StricterForMore`, `HoursAreKept`, `OnlyPaddedDenialsEscape` |
| `Outbox` | 2 events, one of them poison, 2 publishers, 2 failures, unlimited crashes, fair | 15,550 | `PublishedTookEffect`, `PublishedIsFinal`, `CommittedIsHandled` |

`Race`, `Creation`, `Service` and `Outbox` also check the type invariants.  Five
more runs are expected to find a violation; they are section 4.

**Bounds.**  The bounds are the sets given in each configuration and
`MaxCrashes`; nothing else is cut off.  Three workers are enough for one that
overtakes a second while a third still holds a stale claim; the refunds of 1 and
2 on a payment of 2 cover partial, complete and excessive refunds, and the third
key a second spelling.  A budget of 3 with payments of 1, 2 and 2 can be filled
exactly in two ways and exceeded in two.  One crash is enough for safety, because
a crash leaves only committed state behind, from which every worker starts
anyway; progress is checked with two.  What concerns one payment is checked with one:
handlers of different payments share only the budget row, which `Budget` is
about, and a worker's batch, of which `Budget` has three.  One report, right or
wrong, early, late or repeated, is enough, since reports do not touch one
another.  `Race` is symmetric in the workers.

Two publishers are enough for one that works on a claim the other has taken
over, and two events for a batch that is abandoned half-way by the failure of
one of them.  `MaxFailures` bounds the failures of events that can succeed.

In `Creation` three calls share a key, two of them equal and one that writes its
amount differently, so one can win, one replay and one conflict in every order,
and the second can become the maker of the payment after the first was rolled
back.  The fourth has its own key and competes for the budget's row, which two of
the payments overfill.  All four amounts are the whole of what the evidence
allows, and the evidence of the third may lack its id, which only the second of
the two checks notices.  Every call may be cut off.  In `Service` the three calls on one key
differ in time and in spelling, a fourth exceeds the budget together with one
of them, neither amount is a multiple of the minor unit, a fifth is for nothing; the
policies have each threshold above and below the other, and a window within the
day, over midnight, and open on either side.

**Fairness** (`AgentPay!Fairness`).  Each worker is weakly fair: a scheduler runs
`run_once` again and again, and none of its steps waits for another process.
Each webhook is weakly fair: providers repeat a delivery until it is accepted.
Nothing is assumed of clients, approvers, refunds, the clock or crashes.  (The
compose file runs the worker in a loop, a process for each `run_once`.)
`Progress` uses the route as deployed (`DirectResolution = FALSE`), so a webhook is
fair only once the operation's reference is stored.  A charge whose answer was lost
has none and may stay unknown for ever (`UnknownStuck`); `AcceptedEndsBooked` says
that this is the only way in which money taken does not get into the books.  It is
checked with one payment: a model worker may leave any claimable payment out of
its batch, so weak fairness of the worker would not keep two from being passed over.

`FairCreation` assumes that a call that has reached the server is worked on.  The
waits for a key or a row are not fair by assumption: whoever is waited for is
itself a call that is worked on, and nobody waits for a key while holding the
row; that this is enough is what `CallsAnswered` checks.  No client is assumed to call.

`FairOutbox` assumes that publishers are run again and again, that an event that
is due is not passed over for ever (`claim_batch` takes the oldest first and
skips only what is locked), that time passes (`BecomesDue`, `LeaseExpires`) and,
with `RecoveryRuns`, that `recover_stale` is called again and again.  Crashes need
no bound: each crash after a claim uses up an attempt, so in the end the event
is set aside.  Nothing in the repository schedules `process_once` or calls
`recover_stale`; the assumption is about a deployment that does both, and with
`RecoveryRuns = FALSE` `CommittedIsHandled` does not hold, because what a dead
publisher had claimed stays PROCESSING.

**Not that the status settles.**  With two workers each can claim while the other
has the payment at PROCESSING, and set it back after the other settled it, for
ever; the safety half of this is `TerminalReset`.  `AcceptedEndsBooked` is about
what stays all the same: the consumed reservation, the capture and the journal.

`CHECK_DEADLOCK FALSE` everywhere: when every payment is decided and nobody asks
for anything, the system rests.

## 4. Where the documents and the code differ

Each of these is a run that checks what a document says and finds it violated.

| Run | The document says | The code does |
|---|---|---|
| `TerminalReset` | "Terminal states are immutable except for explicitly modeled reconciliation corrections." (`docs/architecture/webhooks-and-provider-events-v1.md:23`) | `R/worker.py:37` writes PROCESSING over whatever the payment is now |
| `OverRefund` | "The aggregate refunded amount must never exceed the refundable amount of the original transaction." (`docs/architecture/ledger-model.md:161`) | `finalize` (`R/orchestrator.py:135`) and the resolver (`R/webhook_resolution.py:84`) record one capture under two keys; when a stale worker, or a refund without an answer followed by the webhook, makes both run, `refund` adds them up |
| `UnknownStuck` | "A verified success for an unknown charge resolves `UNKNOWN_EXTERNAL_OUTCOME` using the original provider operation identity." (`docs/architecture/stage-4-provider-webhook-resolution-2026-09.md:32`) | the unknown branch (`R/orchestrator.py:93`) does not store the reference by which `R/webhooks.py:117` looks the operation up |
| `PoisonLoops` | "Poison events must eventually move to a review/dead-letter mechanism rather than retry forever." (`docs/architecture/event-model.md:133`) | `mark_failed` (`R/outbox.py:85`) returns an event however often it has failed; only `recover_stale` looks at `attempts`, and it sees only events whose publisher died |
| `PaddedRule` | "Dimensions are normalized before comparison." and "Any deny or unmet allow constraint produces DENY before approval/notification thresholds are considered." (`docs/security/phase-16-multidimensional-policy.md:18`, `:22`) | `from_rules` (`R/policy.py:143`) does not strip currencies, regions and instrument classes, `evaluate` does, so a denial written with a blank matches nothing and the payment is charged |

Two more are plain in the text of the code, so that no run is needed to see
them. "Provider calls occur outside database transactions."
(`docs/release/v1-architecture-freeze-2026-09.md:44`), but `refund` calls the
provider inside one (`R/lifecycle.py:226`); a rollback erases the refund's row,
though not what the provider did, which is the action `RefundRolledBack`. "The
outbox transaction must commit with the corresponding financial state change so
an event cannot be silently lost after a successful database commit."
(`docs/architecture/master-project-schema.md:506`), but the resolver enqueues
nothing for the payment it settles (`R/webhook_resolution.py:113`).

`OverRefund` is why `RefundsCovered` speaks of the captures posted and not of
the payment's amount, and why `RefundedIsComplete` is limited to payments
captured through the lifecycle.  Refunds in doubt are a second way past the same
document: a refund whose answer was lost stays PENDING and puts the payment into
UNKNOWN_EXTERNAL_OUTCOME, a worker that still holds the recorded success of the
charge takes it back to SUCCEEDED (`R/orchestrator.py:92`), and the next refund is
admitted against the posted ones alone (`R/lifecycle.py:207`).  Posted and pending
refunds together may then exceed what was captured, and no property says otherwise.
What holds is that a refund in doubt is not recorded as failed
(`FailedRefundsMoveNothing`), and that the retry under its key replays the
provider's result.

## 5. What is proved

For every finite set of payments, every set of budgets, of workers and of
reports, every amount and limit, under the assumptions `StoreAssumption` and
`ExecutionAssumption` (constants have their types, amounts are positive, keys of
different kinds differ), `ProviderEventsAssumption` and `SettlementAssumption`;
for every set of events and of publishers and every bound, under
`OutboxAssumption`; for every finite set of concurrent calls of `create_payment`,
their keys, bodies and evidence and every set of budgets, under
`CreationAssumption`; and for every finite set of calls of the in-memory service,
every set of well-formed policies, every route table, limit and grain, under
`PolicyAssumption` and `ServiceAssumption`:

| Theorem | Module | States |
|---|---|---|
| `TypeCorrect` | `AgentPayProofs` | `Spec => []TypeOK` |
| `CountersExact` | `AgentPayProofs` | `Spec => []BudgetCountersExact` |
| `NeverOvercommitted` | `AgentPayProofs` | `Spec => []BudgetNeverOvercommitted` |
| `ImplementsEscrow` | `AgentPayProofs` | `Spec => EscrowKept` |
| `AcceptedKeepsHold` | `ChargeProofs` | `Spec => []AcceptedChargeKeepsHold` |
| `Authorized` | `ChargeProofs` | `Spec => []ChargeIsAuthorized` |
| `SettledBacked` | `BooksProofs` | `Spec => []SettledIsBacked` |
| `SettlementTypes` | `BooksProofs` | `SettlementSpec => []SettlementTypeOK` |
| `MatchedBacked` | `BooksProofs` | `SettlementSpec => []MatchedIsBacked` |
| `OneVerdict` | `LedgerProofs` | `Spec => []OneVerdictAnnounced` |
| `LedgerMatches` | `LedgerProofs` | `Spec => []LedgerMatchesTransactions` |
| `LedgerCaused` | `LedgerProofs` | `Spec => []LedgerHasCause` |
| `FailedIsInert` | `LedgerProofs` | `Spec => []FailedMovesNothing` |
| `TransactionsStay` | `LedgerProofs` | `Spec => TransactionsFinal` |
| `RefundsStayCovered` | `LedgerProofs` | `Spec => []RefundsCovered` |
| `RefundFailuresTrue` | `LedgerProofs` | `Spec => []FailedRefundsMoveNothing` |
| `RefundedComplete` | `LedgerProofs` | `Spec => []RefundedIsComplete` |
| `CreationTypes` | `CreationProofs` | `CreationSpec => []CreationTypeOK` |
| `LooseIsRepeated` | `CreationProofs` | `CreationSpec => []LooseEvidenceIsRepeated` |
| `PaymentsAuthorized` | `CreationProofs` | `CreationSpec => []PaidAsAuthorized` |
| `ImplementsCreateOnce` | `CreationProofs` | `CreationSpec => CreatesOnce` |
| `ImplementsCheckout` | `CreationProofs` | `CreationSpec => CreatesAtomically` |
| `OutboxTypes` | `OutboxProofs` | `OutboxSpec => []OutboxTypeOK` |
| `PublishedRecorded` | `OutboxProofs` | `OutboxSpec => []PublishedTookEffect` |
| `PublishedFinal` | `OutboxProofs` | `OutboxSpec => PublishedIsFinal` |
| `ReservedExplained` | `ServiceProofs` | `ServiceSpec => []ReservedIsExplained` |
| `ServiceKeepsEscrow` | `ServiceProofs` | `ServiceSpec => HoldsInService` |
| `MoreNeverEasier` | `ServiceProofs` | `ServiceSpec => []StricterForMore` |
| `HoursKept` | `ServiceProofs` | `ServiceSpec => []HoursAreKept` |
| `ServiceTypes` | `ServiceProofs` | `ServiceSpec => []ServiceTypeOK` |
| `AnswersStayTrue` | `ServiceProofs` | `ServiceSpec => []AnswersAreTrue` |
| `DenialsKept` | `ServiceProofs` | `ServiceSpec => []OnlyPaddedDenialsEscape` |
| `ChargedCovered` | `ServiceProofs` | `ServiceSpec => []ChargedIsCovered` |

**The argument about sums.**  A sum over a set of payments would need induction
over data, which these provers do not offer.  `Money` therefore defines the sum
of a finite set as the number of its units: the cardinality of the set of pairs
`<<item, i>>` with `i` in `1..amount[item]`.  Adding and removing an item are
then facts about cardinalities (`TotalAdd`, `TotalRemove`, `TotalDisjoint`,
`TotalInjection` in `MoneyProofs`), from the library's theorems on finite sets.

**The budget invariant.**  `BudgetCountersExact` and `BudgetNeverOvercommitted`
are inductive together with the type of the reservations: the counters' exactness
gives `reserved[b] >= Amount[p]` while `p` is RESERVED, which is why a counter
never becomes negative and `TypeOK` holds.  So neither the type invariant nor
the counters can be proved alone.  `AgentPayProofs` first proves it for
`BudgetStep`, the disjunction of reserve, consume, release and doing nothing; it
then shows that each action of the system is one of these steps for the budget, and
adds `JobOK` (a worker past `idle` has a payment, and an answer once it is
answered), without which a worker's step would not type-check.

**The refinement.**  `BudgetStepEscrow` shows that a budget step is a step of
`BudgetEscrow` or leaves `resv` alone; the exact counters turn the code's
guard on the row (`available >= requested`) into the escrow's guard on the sum.

**The charge invariant.** `ChargeInv` has four parts. `ReservationKnows`: a
charge that was tried has a reservation, and one given back was not accepted.
`OperationKnows`: a final status on the CHARGE row is the provider's result.
`WorkerKnows`: a final answer in a worker's hands is the provider's result, and
it holds a payment that was prepared. `ApprovalKnows`: a payment that waits for
approval or was denied it has no reservation. `AcceptedChargeKeepsHold` is not
inductive without the second and third: the release of `finalize` acts on an
answer that was read earlier, and it is harmless only because a result, once
final, does not change.

**The books.**  `BooksInv` says that an operation row at SUCCEEDED, or a settled
status of a charged payment, comes with a consumed reservation, a posted capture
and the journal, and that a charged payment is never AUTHORIZED (else the capture
route could report a success without a charge).  A step may make such a report
only together with the books (`KeepsBooks`), and the books are never undone:
`ConsumedStays` from the budget, `CaptureBooks` and `OtherBooks` from the
transaction keys.  That recording a success finds the reservation still there is
`ChargeInv`.  `CoreUndisturbed` (`SettlementSpec => Spec`) carries all theorems of
the core over to the system with settlement reports.

**Transactions and ledger.**  Every step does one of four things to the
transactions, the journals and the refunds of one payment (`Kind`): nothing;
posts a capture with its journal; ends an authorization in another way; records
a refund as posted, failed or in doubt.  It also takes one of a few courses through status,
approval, reservation and events (`Course`).  Once each action is classified
(`LedgerProofs`, first part), the eight theorems need no look at the actions any
more.  `VerdictInv`: a success announced is an accepted charge, a failure
announced one that was never made or refused, and a failed payment holds nothing;
that the two exclude each other is because a provider's final result stays.
`RowsInv`: a journal exists exactly with its transaction, and an AUTHORIZED
payment has neither (else the capture route could post a second capture).
`CauseInv`: what is posted was accepted, and a refund recorded as failed was not;
the latter rests on the provider's final result, which a retry under the same key
is answered with.  `SumsInv`: refunds posted are covered by captures posted.

**Creation.**  `CreationInv` says what the two locks give.  A call between its
INSERT and its commit is the one that is inserting its key, and no committed
request has that key (`CallOK`, `KeyOK`); a call that is to commit a reservation
holds the budget's row, and the money is still available.  A step that touches
no table and no lock of another call has only to show its own part
(`AloneKeeps`), which leaves `Commit` and the worker's settling.  Both refinements
read off the invariant: at its commit a call's key is unused, which is the guard
of `CreateOnce`, and the budget has room, which is the guard of `Checkout`.
`PaidAsAuthorized` has an invariant of its own, `AuthInv`: what has been found of a
call's authority at each statement, of its payment, and of the payment it was told
of.  Neither check of the evidence is enough alone (`ChecksAuthorize`): `validate`
does not look at the signed agent and account, `verify_signed_assertion` not at an
empty evidence_id.  A replayed call is safe without either because it is told only
of a payment with its own fingerprint.

**Delivery.**  Every step of a publisher, of time or of recovery is a `RowStep`:
it keeps effects and published rows, and publishes only what has its effect.
Publishers that hold the same event need no invariant between them, because the
status guards of the UPDATE statements decide.

**The in-process budget.** `HoldInv` is `ReservedIsExplained` with the types of
the counters and of the calls' places and answers, and with `AnswerKnows`: a
call has an answer only from the rail's on, and has one when it settles.
`ServiceMoves` shows that each step of a call sets its money aside, spends it,
gives it back, or leaves it; `RoomLeft` turns the code's comparison with
`available` into a comparison with the sum, by the same lemmas on sums as the
budget of the database. Nothing about the idempotency dictionary is needed: the
Budget's lock is enough for the money, however the keys race.

**The policy.**  The two theorems are about operators; the invariant is only that
the policy is one of those the service may be set up with.  `WindowIsArc` compares
the code's four cases with distances around the clock, after `AroundTheClock` has
removed the remainder operator.

**Rails, answers and names.**  `CallInv` adds to `HoldInv`: a call past the router
was let past policy and router (`PermitOK`); an answer, a result and an entry on
record agree with what the rail has on record (`AskedOK`, `ResultsOK`,
`RecordsOK`); behind each entry of a rail is a call that still has that answer
(`BackedOK`).  A rail's entry never changes (`Keeps`), so what was true stays
true; and equal fingerprints lead to the same rail and payment
(`FingerprintSettlesCharge`), so a replayed result is as true as the original.
`ChargedIsCovered` follows by laying each charge on the money of the call behind
it: the calls are different, the minor units are rounded down, and a call
whose charge did not fail still holds its money or has spent it.
`OnlyPaddedDenialsEscape` follows from `PermitOK` and `ParsedIsNormal`: what
`from_rules` makes of a rule's name and `evaluate` of an intent's are equal exactly
if the words are and the rule's blanks were stripped.  An allow list with a blank
permits less than it says, so lists need no exception; a denial with a blank
denies nothing, and the property says exactly where (`DeniedNeverCharged` is the
statement without the exception, which the code violates).

**Only model-checked.**  The progress properties (`StartedIsDecided`,
`AcceptedEndsBooked`, `CommittedIsHandled`, `CallsAnswered`): liveness under fairness is out of the prover's reach.  Every
other property of a passing run is a theorem.  The five violations of section 4
are counterexamples, which is what TLC is for.

## 6. What is not modelled, and why

* **Instruments.**  A selection over a tuple that no handler calls.
* **What has no caller.**  The router's own `charge`, `capture`, `void` and
  `refund`, which take the first route whatever the payment, and the rails'
  `capture`, `void` and `refund`.
* **Decoding of tokens, signatures of webhooks and reports.**  They are checked
  before anything is written; of the evidence token the verdict is one Boolean.
  The approver's token is a comparison with a configured string.
* **Reasons and evidence of a policy decision.**  Nothing but the decision is
  acted on.
* **Merchant rows** that `create_payment` inserts: only a look-up by domain reads
  them.
* **Logging, metrics, connection set-up** (`R/observability.py`, `R/db.py`) and the
  **conformance tools** (`tools/`), which compare documents.
* **Which ledger accounts a journal touches.**  Every caller passes a balanced
  pair; only whether a journal with a key exists is kept.
* **The provider_operations rows of CAPTURE, VOID and REFUND.**  Nothing reads
  or updates them after they are inserted.
* **Locks inside the other transactions.**  The webhook locks operation, then payment;
  `finalize` payment, then operation.  PostgreSQL aborts one of two transactions
  that wait for each other, which is a step that changes nothing, or a `Crash`.

Read while modelling, and left out because the model's subject is what the code
does once these work: `ControlRepository.payment_request` (`R/control.py:96`) asks
for `FOR UPDATE` over a `LEFT JOIN`, which PostgreSQL refuses for the nullable
side; `approve_payment` and `deny_payment` are modelled as intended.  The
`except LookupError` of `create_payment` (`R/api.py:270`) cannot be reached,
since `evaluate_policy` answers DENY when no policy is active.  "Budget
insufficient" in `prepare` (`R/orchestrator.py:47`) raises, so the FAILED status
and the event it has just written are rolled back.  The EXPIRED status that
`approve_payment` writes (`R/api.py:332`) is rolled back the same way, and
`deny_payment` does not look at `expires_at`, so an expired approval can still be
denied.  `record_audit` and `enqueue_notification` name a conflict target without
a predicate, while the unique indexes of migration 010 are partial, so PostgreSQL
finds none that fits and raises; they are modelled as intended (`RecordEffect`),
and until that is mended every event is what `PoisonLoops` calls a poison event.
`ingest` looks an operation up by its reference alone (`R/settlement.py:69`),
whichever provider sent the report; the model has one provider.
`evaluate_policy` (`R/control.py:35`) makes an intent without a time, a region or
an instrument class, so that a policy with a schedule, or with an allow list for
one of the other two, denies every payment of the API; the same policy works in
the in-memory service.  There, overlapping calls with one key are charged once by
the rail, but each consumes the budget, and the last to finish is the one on
record, so a denial for lack of budget can replace a success
(`R/service.py:53`); `docs/architecture/transaction-lifecycle.md:109` asks that
a repeated request has no duplicate financial effects.  `ChargedIsCovered` is
therefore an inequality.

## 7. Plan

1. **Core** (done): store, budget, checkout, worker, provider, webhook,
   lifecycle, their composition, the budget refinement and its proofs.
2. **Delivery and settlement** (done): `Outbox` and `Settlement` with their
   proofs, and `SettledIsBacked`.
3. **Idempotent creation** (done): `Creation` against `CreateOnce` and `Checkout`.
4. **Decisions as operators** (done): `Policy` and `Authority`.
5. **The in-memory service** (done): `Service` against `BudgetEscrow`, with proofs.
6. **Outbox, continued**: an abstract at-least-once delivery that `Outbox`
   implements, and its composition with the handlers that enqueue.
7. **Proofs** (done): every safety property, action property and refinement that a
   run checks.  What 6 adds is to be proved with it.
