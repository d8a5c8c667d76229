----------------------------- MODULE Execution ------------------------------
(***************************************************************************)
(* The payment worker: worker_runner.run_once claims a batch of PROCESSING *)
(* payments and hands each to worker.process_one, which opens the CHARGE   *)
(* in a first transaction, consults the recorded outcome or calls the      *)
(* provider with no row locked, and finalizes in a second transaction.     *)
(* Several workers run at once and any of them may crash between steps.    *)
(*                                                                         *)
(* The row locks of the claim end with the claiming transaction, so a      *)
(* batch is a memory of what was PROCESSING, not a lease on it.            *)
(***************************************************************************)
EXTENDS Provider

CONSTANTS
    Workers,
    NoPayment,      \* what a worker between payments works on
    MaxCrashes      \* bound on worker crashes

ASSUME ExecutionAssumption ==
    /\ NoPayment \notin Payments
    /\ MaxCrashes \in Nat

VARIABLES
    pc,         \* where each worker stands in process_one
    batch,      \* payment_ids it has claimed and not started
    job,        \* the payment process_one is working on
    answer,     \* the outcome it will finalize
    crashes     \* crashes so far

workerVars == <<pc, batch, job, answer, crashes>>

PC == {"idle", "opened", "calling", "answered"}

ExecutionTypeOK ==
    /\ pc \in [Workers -> PC]
    /\ batch \in [Workers -> SUBSET Payments]
    /\ job \in [Workers -> Payments \cup {NoPayment}]
    /\ answer \in [Workers -> Outcome \cup {"NONE"}]
    /\ crashes \in 0 .. MaxCrashes

ExecutionInit ==
    /\ pc = [w \in Workers |-> "idle"]
    /\ batch = [w \in Workers |-> {}]
    /\ job = [w \in Workers |-> NoPayment]
    /\ answer = [w \in Workers |-> "NONE"]
    /\ crashes = 0

----------------------------------------------------------------------------
\* Seeded fault: a payment whose CHARGE was opened is left to its worker.
FaultClaimable ==
    {p \in Payments : status[p] = "PROCESSING" /\ op[p] = "NONE"}

\* pending_for_execution
Claimable == {p \in Payments : status[p] = "PROCESSING" /\ resv[p] # "NONE"}

\* run_once: a transaction that locks, reads and commits.  SKIP LOCKED leaves
\* out whatever another transaction has locked, so any part may be claimed.
Claim(w) ==
    /\ pc[w] = "idle" /\ batch[w] = {}
    /\ \E claimed \in SUBSET Claimable \ {{}} :
           batch' = [batch EXCEPT ![w] = claimed]
    /\ UNCHANGED <<storeVars, providerVars, pc, job, answer, crashes>>

\* process_one, first transaction.  The payment's status is not looked at.
Open(w, p) ==
    /\ pc[w] = "idle" /\ p \in batch[w]
    /\ resv[p] # "NONE"
    /\ OpenCharge(p)
    /\ SetStatus(p, "PROCESSING")
    /\ batch' = [batch EXCEPT ![w] = @ \ {p}]
    /\ job' = [job EXCEPT ![w] = p]
    /\ pc' = [pc EXCEPT ![w] = "opened"]
    /\ UNCHANGED <<budgetVars, ledgerVars, events, providerVars, answer, crashes>>

\* process_one: an outcome already on the CHARGE row is used as it is.
Consult(w) ==
    /\ pc[w] = "opened"
    /\ IF op[job[w]] \in Outcome
       THEN /\ answer' = [answer EXCEPT ![w] = op[job[w]]]
            /\ pc' = [pc EXCEPT ![w] = "answered"]
       ELSE /\ pc' = [pc EXCEPT ![w] = "calling"]
            /\ UNCHANGED answer
    /\ UNCHANGED <<storeVars, providerVars, batch, job, crashes>>

\* Seeded fault: no answer is taken for an acceptance.
FaultCharge(w) ==
    /\ pc[w] = "calling"
    /\ \E r \in Replies(chargeResult[job[w]]) :
           /\ chargeResult' = [chargeResult EXCEPT ![job[w]] = r.result]
           /\ answer' = [answer EXCEPT ![w] =
                IF r.answer = "UNKNOWN" THEN "SUCCEEDED" ELSE r.answer]
    /\ pc' = [pc EXCEPT ![w] = "answered"]
    /\ UNCHANGED <<storeVars, refundResult, batch, job, crashes>>

\* process_one: otherwise provider.charge.
Charge(w) ==
    /\ pc[w] = "calling"
    /\ \E r \in Replies(chargeResult[job[w]]) :
           /\ chargeResult' = [chargeResult EXCEPT ![job[w]] = r.result]
           /\ answer' = [answer EXCEPT ![w] = r.answer]
    /\ pc' = [pc EXCEPT ![w] = "answered"]
    /\ UNCHANGED <<storeVars, refundResult, batch, job, crashes>>

----------------------------------------------------------------------------
(* PaymentOrchestrator.finalize, the second transaction of process_one *)

StatusOf(outcome) ==
    IF outcome = "UNKNOWN" THEN "UNKNOWN_EXTERNAL_OUTCOME" ELSE outcome

\* The states finalize acts in; it returns at once if the outcome is known.
Finalizable(p, outcome) ==
    /\ status[p] \in {"PROCESSING", "UNKNOWN_EXTERNAL_OUTCOME"}
    /\ status[p] # StatusOf(outcome)

\* finalize has returned: process_one is done with this payment.
Done(w) ==
    /\ pc' = [pc EXCEPT ![w] = "idle"]
    /\ job' = [job EXCEPT ![w] = NoPayment]
    /\ answer' = [answer EXCEPT ![w] = "NONE"]
    /\ UNCHANGED <<providerVars, crashes>>

Finalizing(w, outcome) ==
    /\ pc[w] = "answered" /\ answer[w] = outcome
    /\ Finalizable(job[w], outcome)
    /\ Done(w)
    /\ UNCHANGED batch

FinalizeRepeated(w) ==
    /\ pc[w] = "answered"
    /\ status[job[w]] = StatusOf(answer[w])
    /\ Done(w)
    /\ UNCHANGED <<storeVars, batch>>

\* The ValueError leaves process_one and ends run_once: the rest of the batch
\* is forgotten with it.
FinalizeRejected(w) ==
    /\ pc[w] = "answered"
    /\ status[job[w]] # StatusOf(answer[w])
    /\ ~Finalizable(job[w], answer[w])
    /\ Done(w)
    /\ batch' = [batch EXCEPT ![w] = {}]
    /\ UNCHANGED storeVars

\* Seeded fault: a timeout gives the budget back.
FaultFinalizeUnknown(w) ==
    LET p == job[w] IN
    /\ Finalizing(w, "UNKNOWN")
    /\ MarkChargeUnknown(p)
    /\ Release(p)
    /\ SetStatus(p, "UNKNOWN_EXTERNAL_OUTCOME")
    /\ Emit(p, {"PaymentOutcomeUnknown"})
    /\ UNCHANGED ledgerVars

FinalizeUnknown(w) ==
    LET p == job[w] IN
    /\ Finalizing(w, "UNKNOWN")
    /\ MarkChargeUnknown(p)
    /\ SetStatus(p, "UNKNOWN_EXTERNAL_OUTCOME")
    /\ Emit(p, {"PaymentOutcomeUnknown"})
    /\ UNCHANGED <<budgetVars, ledgerVars>>

\* Seeded fault: a refused charge keeps its budget.
FaultFinalizeFailed(w) ==
    LET p == job[w] IN
    /\ Finalizing(w, "FAILED")
    /\ SettleCharge(p, "FAILED")
    /\ SetStatus(p, "FAILED")
    /\ Emit(p, {"PaymentFailed"})
    /\ UNCHANGED <<budgetVars, ledgerVars>>

FinalizeFailed(w) ==
    LET p == job[w] IN
    /\ Finalizing(w, "FAILED")
    /\ SettleCharge(p, "FAILED")
    /\ Release(p)
    /\ SetStatus(p, "FAILED")
    /\ Emit(p, {"PaymentFailed"})
    /\ UNCHANGED ledgerVars

FinalizeSucceeded(w) ==
    LET p == job[w] IN
    /\ Finalizing(w, "SUCCEEDED")
    /\ SettleCharge(p, "SUCCEEDED")
    /\ Consume(p)
    /\ WriteTxn(p, "capture", "POSTED")
    /\ PostJournal(p, "capture")
    /\ SetStatus(p, "SUCCEEDED")
    /\ Emit(p, {"PaymentSucceeded"})

\* The worker dies between two of its steps; only what was committed remains.
Crash(w) ==
    /\ crashes < MaxCrashes
    /\ pc[w] # "idle" \/ batch[w] # {}
    /\ crashes' = crashes + 1
    /\ pc' = [pc EXCEPT ![w] = "idle"]
    /\ batch' = [batch EXCEPT ![w] = {}]
    /\ job' = [job EXCEPT ![w] = NoPayment]
    /\ answer' = [answer EXCEPT ![w] = "NONE"]
    /\ UNCHANGED <<storeVars, providerVars>>

WorkerStep(w) ==
    \/ Claim(w)
    \/ \E p \in Payments : Open(w, p)
    \/ Consult(w)
    \/ Charge(w)
    \/ FinalizeRepeated(w)
    \/ FinalizeRejected(w)
    \/ FinalizeUnknown(w)
    \/ FinalizeFailed(w)
    \/ FinalizeSucceeded(w)

ExecutionNext == \E w \in Workers : WorkerStep(w) \/ Crash(w)
=============================================================================
