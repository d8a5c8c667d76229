------------------------------ MODULE Creation ------------------------------
(***************************************************************************)
(* create_payment statement by statement.  Elsewhere a transaction is one  *)
(* step; here concurrent calls interleave between the statements of their  *)
(* transactions, as PostgreSQL's READ COMMITTED lets them: a statement     *)
(* sees what was committed before it began, an INSERT of a key waits for   *)
(* the transaction that has inserted it and not ended, and a budget row    *)
(* locked FOR UPDATE waits likewise.                                       *)
(*                                                                         *)
(* A payment is named after the call that makes it.  What a transaction    *)
(* has written and not committed is in inserting, rowLock and draft, the   *)
(* committed tables are the other variables.  A call can be cut off at any *)
(* point: its transaction is rolled back, or its answer is lost.           *)
(*                                                                         *)
(* The policy's decision and the choice of a budget are inputs.  Merchant  *)
(* rows are left out: nothing but a look-up by domain reads them.          *)
(***************************************************************************)
EXTENDS Authority, Money

CONSTANTS
    Calls,          \* requests to POST /v1/payments
    KeyOf,          \* account and idempotency key of each
    BodyOf,         \* its body, of which the fingerprint is taken
    PrincipalOf,    \* whom its bearer token names
    ClaimsOf,       \* the claims its signed assertion may make
    BudgetOf,       \* the budget select_budget finds for it
    Budgets,        \* rows of budgets
    Limit,          \* budgets.limit_amount
    NoCall

Amount == [c \in Calls |-> BodyOf[c].amount]
Keys == {KeyOf[c] : c \in Calls}

ASSUME CreationAssumption ==
    /\ IsFiniteSet(Calls) /\ NoCall \notin Calls
    /\ BudgetOf \in [Calls -> Budgets]
    /\ Amount \in [Calls -> Nat]
    /\ Limit \in [Budgets -> Nat]

VARIABLES
    claims,     \* the claims of each call's signed assertion
    pc,         \* the next statement of each call
    reply,      \* the answer it was given
    told,       \* the payment the answer names
    draft,      \* status and events its transaction has written
    inserting,  \* who has inserted a key and not committed
    rowLock,    \* who has locked a budget row
    request,    \* payment_requests: the call each key belongs to
    status,     \* payments.status
    resv,       \* budget_reservations.status
    reserved,   \* budgets.reserved_amount
    consumed,   \* budgets.consumed_amount
    events,     \* event types in outbox_events
    evidence    \* authorization_evidence: bound to a request, or loose

callVars == <<pc, reply, told, draft>>
lockVars == <<inserting, rowLock>>
budgetVars == <<resv, reserved, consumed>>
paymentVars == <<request, status, budgetVars, events>>
creationVars == <<claims, callVars, lockVars, paymentVars, evidence>>

Places == {"start", "verify", "validate", "insert", "reread", "decide",
           "reserve", "commit", "done"}
Replies == {"none", "created", "denied", "replayed", "conflict", "refused",
            "error", "lost", "incomplete", "unresolved"}
EventTypes == {"PaymentStarted", "PaymentSucceeded", "PaymentFailed",
               "ApprovalRequested", "NotificationRequested"}
Drafts == [status : {"NONE", "FAILED", "APPROVAL_REQUIRED", "PROCESSING"},
           events : SUBSET EventTypes]
Blank == [status |-> "NONE", events |-> {}]

TablesTypeOK ==
    /\ pc \in [Calls -> Places]
    /\ reply \in [Calls -> Replies]
    /\ told \in [Calls -> Calls \cup {NoCall}]
    /\ draft \in [Calls -> Drafts]
    /\ inserting \in [Keys -> Calls \cup {NoCall}]
    /\ rowLock \in [Budgets -> Calls \cup {NoCall}]
    /\ request \in [Keys -> Calls \cup {NoCall}]
    /\ status \in [Calls -> {"NONE", "APPROVAL_REQUIRED", "PROCESSING",
                             "SUCCEEDED", "FAILED"}]
    /\ events \in [Calls -> SUBSET EventTypes]
    /\ reserved \in [Budgets -> Nat] /\ consumed \in [Budgets -> Nat]
    /\ resv \in [Calls -> {"NONE", "RESERVED", "CONSUMED", "RELEASED"}]
    /\ evidence \in [Calls -> {"NONE", "LOOSE", "BOUND"}]

CreationTypeOK ==
    /\ TablesTypeOK
    /\ \A c \in Calls : claims[c] \in ClaimsOf[c]

CreationInit ==
    /\ claims \in {f \in [Calls -> UNION {ClaimsOf[c] : c \in Calls}] :
                    \A c \in Calls : f[c] \in ClaimsOf[c]}
    /\ pc = [c \in Calls |-> "start"]
    /\ reply = [c \in Calls |-> "none"]
    /\ told = [c \in Calls |-> NoCall]
    /\ draft = [c \in Calls |-> Blank]
    /\ inserting = [k \in Keys |-> NoCall]
    /\ rowLock = [b \in Budgets |-> NoCall]
    /\ request = [k \in Keys |-> NoCall]
    /\ status = [c \in Calls |-> "NONE"]
    /\ resv = [c \in Calls |-> "NONE"]
    /\ reserved = [b \in Budgets |-> 0]
    /\ consumed = [b \in Budgets |-> 0]
    /\ events = [c \in Calls |-> {}]
    /\ evidence = [c \in Calls |-> "NONE"]

----------------------------------------------------------------------------
(* Transactions *)

Goto(c, place) == pc' = [pc EXCEPT ![c] = place]

Draft(c, s, types) ==
    draft' = [draft EXCEPT ![c] = [status |-> s, events |-> types]]

End(c, word, payment) ==
    /\ Goto(c, "done")
    /\ reply' = [reply EXCEPT ![c] = word]
    /\ told' = [told EXCEPT ![c] = payment]
    /\ draft' = [draft EXCEPT ![c] = Blank]

Free(locks, c) ==
    [x \in DOMAIN locks |-> IF locks[x] = c THEN NoCall ELSE locks[x]]

\* Seeded fault: the key stays taken when its transaction does not commit.
FaultRollback(c, word) ==
    /\ End(c, word, NoCall)
    /\ rowLock' = Free(rowLock, c)
    /\ UNCHANGED <<inserting, paymentVars, evidence>>

\* An exception leaves UnitOfWork: nothing the transaction wrote remains.
Rollback(c, word) ==
    /\ End(c, word, NoCall)
    /\ inserting' = Free(inserting, c)
    /\ rowLock' = Free(rowLock, c)
    /\ UNCHANGED <<paymentVars, evidence>>

\* A step that writes nothing but the call's own progress.
Proceed(c, place) ==
    /\ Goto(c, place)
    /\ UNCHANGED <<reply, told, draft, lockVars, paymentVars, evidence>>

----------------------------------------------------------------------------
(* The statements of create_payment *)

\* Seeded fault: the answer to a request that is not the same is committed too.
FaultAnswerWith(c, o, leaving) ==
    /\ IF BodyOf[o] = BodyOf[c] THEN End(c, "replayed", o)
                                ELSE End(c, "conflict", NoCall)
    /\ evidence' = [evidence EXCEPT ![c] = leaving]
    /\ UNCHANGED <<lockVars, paymentVars>>

\* The key belongs to call o.  The answer commits what the transaction has
\* written, which is the evidence row it leaves; a refusal rolls it back.
AnswerWith(c, o, leaving) ==
    IF BodyOf[o] # BodyOf[c] THEN Rollback(c, "conflict")
    ELSE IF status[o] = "NONE" THEN Rollback(c, "incomplete")
    ELSE /\ End(c, "replayed", o)
         /\ evidence' = [evidence EXCEPT ![c] = leaving]
         /\ UNCHANGED <<lockVars, paymentVars>>

\* find_by_idempotency, of a call that _authenticate_agent lets through; what
\* it does not let through never gets to the database.
LookUp(c) ==
    /\ pc[c] = "start"
    /\ Admitted(PrincipalOf[c], BodyOf[c])
    /\ IF request[KeyOf[c]] = NoCall THEN Proceed(c, "verify")
       ELSE AnswerWith(c, request[KeyOf[c]], "NONE")

\* Whether the evidence has expired by now is open at each of the two checks.
Verify(c) ==
    /\ pc[c] = "verify"
    /\ \E expired \in BOOLEAN :
         IF Verifies(claims[c], BodyOf[c], expired)
         THEN Proceed(c, "validate") ELSE Rollback(c, "refused")

\* auth.validate and the comparisons after it, then the evidence's INSERT.
Validate(c) ==
    /\ pc[c] = "validate"
    /\ \E expired \in BOOLEAN :
         IF Validates(claims[c], BodyOf[c], expired) /\ claims[c].quoted
         THEN Proceed(c, "insert") ELSE Rollback(c, "refused")

\* Seeded fault: nothing keeps two requests from having one key.
FaultInsertRequest(c) ==
    /\ pc[c] = "insert"
    /\ inserting' = [inserting EXCEPT ![KeyOf[c]] = c]
    /\ Goto(c, "decide")
    /\ UNCHANGED <<reply, told, draft, rowLock, paymentVars, evidence>>

\* create_request in its savepoint: it waits for a transaction that holds the
\* key, and fails with UniqueViolation if the key has been committed.
InsertRequest(c) ==
    /\ pc[c] = "insert"
    /\ inserting[KeyOf[c]] = NoCall
    /\ IF request[KeyOf[c]] # NoCall THEN Proceed(c, "reread")
       ELSE /\ inserting' = [inserting EXCEPT ![KeyOf[c]] = c]
            /\ Goto(c, "decide")
            /\ UNCHANGED <<reply, told, draft, rowLock, paymentVars, evidence>>

\* The except branch: the transaction goes on after the savepoint.
Reread(c) ==
    /\ pc[c] = "reread"
    /\ IF request[KeyOf[c]] = NoCall THEN Rollback(c, "unresolved")
       ELSE AnswerWith(c, request[KeyOf[c]], "LOOSE")

\* The evidence is bound, the payment inserted, the policy evaluated and the
\* budget chosen; what is refused or waits for approval needs no money.
Decide(c) ==
    /\ pc[c] = "decide"
    /\ \/ /\ Draft(c, "FAILED", {"PaymentFailed"})
          /\ Goto(c, "commit")
       \/ /\ Draft(c, "APPROVAL_REQUIRED", {"ApprovalRequested"})
          /\ Goto(c, "commit")
       \/ \E notice \in SUBSET {"NotificationRequested"} :
             /\ Draft(c, "PROCESSING", {"PaymentStarted"} \cup notice)
             /\ Goto(c, "reserve")
    /\ UNCHANGED <<reply, told, lockVars, paymentVars, evidence>>

Available(b) == Limit[b] - consumed[b] - reserved[b]

\* Seeded fault: the budget is read without a lock.
FaultReserve(c) ==
    /\ pc[c] = "reserve"
    /\ IF Available(BudgetOf[c]) < Amount[c] THEN Rollback(c, "error")
       ELSE Proceed(c, "commit")

\* BudgetRepository.reserve: SELECT ... FOR UPDATE waits for the row.  If the
\* amount does not fit, prepare raises.
Reserve(c) ==
    /\ pc[c] = "reserve"
    /\ rowLock[BudgetOf[c]] = NoCall
    /\ IF Available(BudgetOf[c]) < Amount[c] THEN Rollback(c, "error")
       ELSE /\ rowLock' = [rowLock EXCEPT ![BudgetOf[c]] = c]
            /\ Goto(c, "commit")
            /\ UNCHANGED <<reply, told, draft, inserting, paymentVars, evidence>>

\* UnitOfWork commits; the answer reaches the client or does not.
Commit(c) ==
    /\ pc[c] = "commit"
    /\ \/ /\ draft[c].status = "FAILED"
          /\ End(c, "denied", c)
       \/ /\ draft[c].status # "FAILED"
          /\ End(c, "created", c)
       \/ End(c, "lost", NoCall)
    /\ request' = [request EXCEPT ![KeyOf[c]] = c]
    /\ status' = [status EXCEPT ![c] = draft[c].status]
    /\ events' = [events EXCEPT ![c] = draft[c].events]
    /\ IF draft[c].status = "PROCESSING"
       THEN /\ resv' = [resv EXCEPT ![c] = "RESERVED"]
            /\ reserved' = [reserved EXCEPT ![BudgetOf[c]] = @ + Amount[c]]
            /\ UNCHANGED consumed
       ELSE UNCHANGED budgetVars
    /\ evidence' = [evidence EXCEPT ![c] = "BOUND"]
    /\ inserting' = Free(inserting, c)
    /\ rowLock' = Free(rowLock, c)

----------------------------------------------------------------------------
(* What happens besides *)

\* The process or its connection dies: PostgreSQL rolls the transaction back.
CutOff(c) ==
    /\ pc[c] \notin {"start", "done"}
    /\ Rollback(c, "lost")

\* finalize, as far as it concerns what calls can see.
SettleAs(c, outcome, announced, hold) ==
    /\ status' = [status EXCEPT ![c] = outcome]
    /\ events' = [events EXCEPT ![c] = @ \cup {announced}]
    /\ resv' = [resv EXCEPT ![c] = hold]
    /\ reserved' = [reserved EXCEPT ![BudgetOf[c]] = @ - Amount[c]]
    /\ consumed' = [consumed EXCEPT ![BudgetOf[c]] =
                       IF hold = "CONSUMED" THEN @ + Amount[c] ELSE @]
    /\ UNCHANGED <<callVars, lockVars, request, evidence>>

\* Seeded fault: a payment may be settled twice.
FaultWorkerSettles(c) ==
    /\ resv[c] # "NONE"
    /\ rowLock[BudgetOf[c]] = NoCall
    /\ SettleAs(c, "FAILED", "PaymentFailed", "RELEASED")

\* A worker settles the payment; its UPDATE of the budget waits for the row.
WorkerSettles(c) ==
    /\ status[c] = "PROCESSING"
    /\ rowLock[BudgetOf[c]] = NoCall
    /\ \/ SettleAs(c, "SUCCEEDED", "PaymentSucceeded", "CONSUMED")
       \/ SettleAs(c, "FAILED", "PaymentFailed", "RELEASED")

Advance(c) ==
    \/ LookUp(c) \/ Verify(c) \/ Validate(c) \/ InsertRequest(c) \/ Reread(c)
    \/ Decide(c) \/ Reserve(c) \/ Commit(c)

CreationNext ==
    /\ \E c \in Calls :
          Advance(c) \/ CutOff(c) \/ WorkerSettles(c)
    /\ UNCHANGED claims

CreationSpec == CreationInit /\ [][CreationNext]_creationVars

\* A call that has reached the server is worked on until it is answered.
FairCreation ==
    /\ CreationSpec
    /\ \A c \in Calls :
          WF_creationVars(Advance(c) /\ pc[c] # "start" /\ UNCHANGED claims)

----------------------------------------------------------------------------
(* Properties *)

Once == INSTANCE CreateOnce WITH owner <- request

\* However calls with one idempotency key interleave, wait, fail and are cut
\* off, one of them makes the payment, the others are answered with it or, if
\* they ask for something else, with a conflict; no call is told of a request
\* that has no payment, and none that its conflict could not be resolved.
CreatesOnce == Once!Spec

\* The keys under which a payment without refunds may have transactions.
ChargeTxnKeys == {"capture", "capture:transaction", "capture:failed", "void",
                  "void:failed"}

Atomic == INSTANCE Checkout WITH
              Payments <- Calls,
              Preauthorized <- {},
              RefundKeys <- {},
              RefundAmount <- [r \in {} |-> 0],
              op <- [c \in Calls |-> "NONE"],
              opRef <- [c \in Calls |-> FALSE],
              txn <- [c \in Calls |-> [k \in ChargeTxnKeys |-> "NONE"]],
              journal <- [c \in Calls |-> {}],
              approval <- [c \in Calls |->
                             IF status[c] = "APPROVAL_REQUIRED"
                             THEN "PENDING" ELSE "NONE"],
              lapsed <- [c \in Calls |-> FALSE]

\* What the statements of one call do to the tables together is one of the
\* three steps by which Checkout models create_payment, the budget's guard
\* included, although other calls and workers act between the statements.
CreatesAtomically ==
    /\ Atomic!StoreInit /\ Atomic!CheckoutInit
    /\ [][\E c \in Calls :
            \/ Atomic!CreateRefused(c)
            \/ Atomic!CreateForApproval(c)
            \/ Atomic!CreateAllowed(c)
            \/ WorkerSettles(c)]_paymentVars

\* A call is answered, or cut off: calls that wait for each other's key or for
\* the budget's row do not wait for ever.
CallsAnswered == \A c \in Calls : pc[c] # "start" ~> pc[c] = "done"

\* An evidence row that no request names is the copy of one that has a
\* payment: it was left by a call that lost the race for its key and was
\* answered with the winner's payment.
LooseEvidenceIsRepeated ==
    \A c \in Calls : evidence[c] = "LOOSE" =>
        \E o \in Calls \ {c} :
            /\ request[KeyOf[c]] = o
            /\ BodyOf[o] = BodyOf[c]
            /\ evidence[o] = "BOUND"

\* What the evidence has to say for a request to be paid.
Authorizes(evident, body) ==
    /\ evident.decoded /\ evident.grants /\ evident.identified /\ evident.quoted
    /\ evident.agent = body.agent /\ evident.account = body.account
    /\ "PAYMENT" \in evident.scope
    /\ evident.currency = body.currency
    /\ body.amount > 0 /\ body.amount <= evident.max

\* However calls race for a key, a payment exists only for a request whose own
\* agent asked for it with evidence that authorises it, whole and identified;
\* and a call is told only of a payment that exists, that is what it asked for
\* itself and that its own bearer may ask for, although a replayed call's
\* evidence is not looked at.
PaidAsAuthorized ==
    \A c \in Calls :
        /\ status[c] # "NONE" =>
              /\ Admitted(PrincipalOf[c], BodyOf[c])
              /\ Authorizes(claims[c], BodyOf[c])
        /\ told[c] # NoCall =>
              /\ status[told[c]] # "NONE"
              /\ BodyOf[told[c]] = BodyOf[c]
              /\ Admitted(PrincipalOf[c], BodyOf[told[c]])
=============================================================================
