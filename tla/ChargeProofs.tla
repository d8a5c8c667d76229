---------------------------- MODULE ChargeProofs ----------------------------
(***************************************************************************)
(* What everyone knows of a charge agrees with what the provider did: the  *)
(* reservation, the operation row, the answer a worker carries from one    *)
(* transaction to the next, and the approval.  From this follow that an    *)
(* accepted charge keeps its budget and that no charge is made without     *)
(* authority.                                                              *)
(***************************************************************************)
EXTENDS AgentPayProofs

\* A budget is given back only for a refused charge and consumed only for an
\* accepted one; before the reservation there is no charge.
ReservationKnows ==
    \A p \in Payments :
        /\ resv[p] = "NONE" => op[p] = "NONE" /\ chargeResult[p] = "NONE"
        /\ resv[p] = "RELEASED" => chargeResult[p] = "FAILED"
        /\ resv[p] = "CONSUMED" => chargeResult[p] = "SUCCEEDED"

\* A final status of the operation row is the provider's result.
OperationKnows ==
    \A p \in Payments : op[p] \in {"SUCCEEDED", "FAILED"} => chargeResult[p] = op[p]

\* The answers a worker can have got for payment p.
Known(p) == {"UNKNOWN"} \cup ({chargeResult[p]} \ {"NONE"})

\* A worker works on a reserved payment, and an answer it carries, however
\* old, is the provider's result unless it is that there was none.
WorkerKnows ==
    \A w \in Workers :
        pc[w] # "idle" =>
            /\ resv[job[w]] # "NONE"
            /\ pc[w] = "answered" => answer[w] \in Known(job[w])

\* Nothing is reserved before the payment exists, nor for an approval that is
\* open or denied.
ApprovalKnows ==
    \A p \in Payments :
        /\ status[p] = "NONE" => approval[p] = "NONE" /\ resv[p] = "NONE"
        /\ approval[p] \in {"PENDING", "DENIED"} => resv[p] = "NONE"

ChargeInv == ReservationKnows /\ OperationKnows /\ WorkerKnows /\ ApprovalKnows

----------------------------------------------------------------------------
\* A step that touches none of this keeps it.
LEMMA ChargeFrame ==
    ASSUME ChargeInv,
           UNCHANGED <<resv, op, chargeResult, pc, job, answer, approval>>,
           \A p \in Payments : status'[p] = "NONE" => status[p] = "NONE"
    PROVE  ChargeInv'
<1>1. ReservationKnows'
  BY DEF ChargeInv, ReservationKnows
<1>2. OperationKnows'
  BY DEF ChargeInv, OperationKnows
<1>3. WorkerKnows'
  BY DEF ChargeInv, WorkerKnows, Known
<1>4. ApprovalKnows'
  BY DEF ChargeInv, ApprovalKnows
<1> QED  BY <1>1, <1>2, <1>3, <1>4 DEF ChargeInv

\* A new status is not "NONE".
LEMMA StatusFrame ==
    ASSUME CoreInv, NEW p \in Payments, NEW s, s # "NONE", SetStatus(p, s)
    PROVE  \A q \in Payments : status'[q] = "NONE" => status[q] = "NONE" /\ q # p
BY DEF SetStatus, CoreInv, TypeOK, StoreTypeOK

\* Taking the reservation of a payment that is not yet authorized any other way.
LEMMA ReserveKnows ==
    ASSUME CoreInv, ChargeInv, NEW p \in Payments, Reserve(p), SetStatus(p, "PROCESSING"),
           approval'[p] \notin {"PENDING", "DENIED"},
           \A q \in Payments : q # p => approval'[q] = approval[q],
           UNCHANGED <<op, chargeResult, pc, job, answer>>
    PROVE  ChargeInv'
<1>1. /\ resv \in [Payments -> ReservationStatus] /\ resv[p] = "NONE"
      /\ resv' = [resv EXCEPT ![p] = "RESERVED"]
  BY DEF Reserve, CoreInv, BudgetInv, BudgetTypeOK
<1>2. ReservationKnows'
  BY <1>1 DEF ChargeInv, ReservationKnows
<1>3. OperationKnows'
  BY DEF ChargeInv, OperationKnows
<1>4. WorkerKnows'
  BY <1>1 DEF ChargeInv, WorkerKnows, Known, CoreInv, JobOK
<1>5. ApprovalKnows'
  BY <1>1, StatusFrame DEF ChargeInv, ApprovalKnows
<1> QED  BY <1>2, <1>3, <1>4, <1>5 DEF ChargeInv

LEMMA CheckoutCharge ==
    ASSUME CoreInv, ChargeInv, CheckoutNext,
           UNCHANGED <<providerVars, workerVars, resolved>>
    PROVE  ChargeInv'
<1>0. /\ UNCHANGED <<chargeResult, pc, job, answer>>
      /\ approval \in [Payments -> ApprovalStatus]
      /\ status \in [Payments -> PaymentStatus]
  BY DEF providerVars, workerVars, CoreInv, TypeOK, CheckoutTypeOK, StoreTypeOK
<1>1. ASSUME NEW p \in Payments, CreateRefused(p)  PROVE ChargeInv'
  BY <1>0, <1>1, StatusFrame, ChargeFrame
     DEF CreateRefused, budgetVars, operationVars, checkoutVars
<1>2. ASSUME NEW p \in Payments, CreateForApproval(p)  PROVE ChargeInv'
  <2>1. /\ status[p] = "NONE" /\ approval' = [approval EXCEPT ![p] = "PENDING"]
        /\ status' = [status EXCEPT ![p] = "APPROVAL_REQUIRED"]
        /\ UNCHANGED <<resv, op>>
    BY <1>2 DEF CreateForApproval, SetApproval, SetStatus, budgetVars, operationVars
  <2>2. ReservationKnows' /\ OperationKnows'
    BY <1>0, <2>1 DEF ChargeInv, ReservationKnows, OperationKnows
  <2>3. WorkerKnows'
    BY <1>0, <2>1 DEF ChargeInv, WorkerKnows, Known
  <2>4. ApprovalKnows'
    BY <1>0, <2>1 DEF ChargeInv, ApprovalKnows
  <2> QED  BY <2>2, <2>3, <2>4 DEF ChargeInv
<1>3. ASSUME NEW p \in Payments, CreateAllowed(p)  PROVE ChargeInv'
  <2>1. /\ status[p] = "NONE" /\ Reserve(p) /\ SetStatus(p, "PROCESSING")
        /\ UNCHANGED <<approval, op>>
    BY <1>3 DEF CreateAllowed, Prepare, checkoutVars, operationVars
  <2>2. approval'[p] = "NONE"
    BY <2>1 DEF ChargeInv, ApprovalKnows
  <2> QED  BY <1>0, <2>1, <2>2, ReserveKnows
<1>4. ASSUME NEW p \in Payments, ApprovalLapses(p)  PROVE ChargeInv'
  BY <1>0, <1>4, ChargeFrame DEF ApprovalLapses, storeVars, budgetVars, operationVars
<1>5. ASSUME NEW p \in Payments, ApprovePayment(p)  PROVE ChargeInv'
  <2>1. /\ approval' = [approval EXCEPT ![p] = "APPROVED"]
        /\ Reserve(p) /\ SetStatus(p, "PROCESSING") /\ UNCHANGED op
    BY <1>5 DEF ApprovePayment, SetApproval, Prepare, operationVars
  <2>2. /\ approval'[p] = "APPROVED"
        /\ \A q \in Payments : q # p => approval'[q] = approval[q]
    BY <1>0, <2>1
  <2> QED  BY <1>0, <2>1, <2>2, ReserveKnows
<1>6. ASSUME NEW p \in Payments, DenyPayment(p)  PROVE ChargeInv'
  <2>1. /\ approval[p] = "PENDING" /\ approval' = [approval EXCEPT ![p] = "DENIED"]
        /\ status' = [status EXCEPT ![p] = "FAILED"] /\ UNCHANGED <<resv, op>>
    BY <1>6 DEF DenyPayment, SetApproval, SetStatus, budgetVars, operationVars
  <2>2. ReservationKnows' /\ OperationKnows'
    BY <1>0, <2>1 DEF ChargeInv, ReservationKnows, OperationKnows
  <2>3. WorkerKnows'
    BY <1>0, <2>1 DEF ChargeInv, WorkerKnows, Known
  <2>4. ApprovalKnows'
    BY <1>0, <2>1 DEF ChargeInv, ApprovalKnows
  <2> QED  BY <2>2, <2>3, <2>4 DEF ChargeInv
<1> QED  BY <1>1, <1>2, <1>3, <1>4, <1>5, <1>6 DEF CheckoutNext

\* Capture, void and refund have no say in the charge.
LEMMA LifecycleCharge ==
    ASSUME CoreInv, ChargeInv, LifecycleNext,
           UNCHANGED <<checkoutVars, workerVars, resolved>>
    PROVE  ChargeInv'
<1>1. /\ UNCHANGED <<pc, job, answer, approval>>
  BY DEF workerVars, checkoutVars
<1>2. ASSUME NEW p \in Payments, NEW s, s # "NONE", Deciding(p, s)  PROVE ChargeInv'
  BY <1>1, <1>2, StatusFrame, ChargeFrame DEF Deciding, budgetVars, operationVars, providerVars
<1>3. ASSUME NEW p \in Payments, NEW key, NEW a, NEW s, s # "NONE",
             Refunding(p, key, a), SetStatus(p, s)
      PROVE  ChargeInv'
  BY <1>1, <1>3, StatusFrame, ChargeFrame
     DEF Refunding, CallRefund, budgetVars, operationVars
<1>4. ASSUME NEW p \in Payments, NEW key, RefundRolledBack(p, key)  PROVE ChargeInv'
  BY <1>1, <1>4, ChargeFrame
     DEF RefundRolledBack, CallRefund, storeVars, budgetVars, operationVars
<1>5. ASSUME NEW p \in Payments,
             \/ CaptureSucceeded(p) \/ CaptureFailed(p) \/ VoidSucceeded(p)
             \/ VoidFailed(p) \/ CaptureOrVoidUnknown(p)
      PROVE  ChargeInv'
  BY <1>2, <1>5
     DEF CaptureSucceeded, CaptureFailed, VoidSucceeded, VoidFailed, CaptureOrVoidUnknown
<1>6. ASSUME NEW p \in Payments, NEW key,
             RefundUnknown(p, key) \/ RefundFailed(p, key) \/ RefundSucceeded(p, key)
      PROVE  ChargeInv'
  BY <1>3, <1>6 DEF RefundUnknown, RefundFailed, RefundSucceeded
<1> QED  BY <1>4, <1>5, <1>6 DEF LifecycleNext

----------------------------------------------------------------------------
\* Settling a charge with the result the provider has: the reservation follows.
LEMMA SettleKnows ==
    ASSUME CoreInv, ChargeInv, NEW p \in Payments, NEW s \in {"SUCCEEDED", "FAILED"},
           chargeResult[p] = s, resv[p] # "NONE", SettleCharge(p, s),
           IF s = "SUCCEEDED" THEN Consume(p) ELSE Release(p),
           UNCHANGED <<chargeResult, approval>>,
           \A q \in Payments : status'[q] = "NONE" => status[q] = "NONE"
    PROVE  /\ ReservationKnows' /\ OperationKnows' /\ ApprovalKnows'
           /\ \A q \in Payments : resv[q] # "NONE" => resv'[q] # "NONE"
<1>1. /\ resv \in [Payments -> ReservationStatus] /\ op \in [Payments -> OperationStatus]
      /\ op' = [op EXCEPT ![p] = s]
  BY DEF CoreInv, TypeOK, StoreTypeOK, SettleCharge
<1>2. \/ resv' = resv /\ resv[p] # "RESERVED"
      \/ s = "SUCCEEDED" /\ resv' = [resv EXCEPT ![p] = "CONSUMED"]
      \/ s = "FAILED" /\ resv' = [resv EXCEPT ![p] = "RELEASED"]
  BY DEF Consume, Release, budgetVars
<1>3. ReservationKnows'
  BY <1>1, <1>2 DEF ChargeInv, ReservationKnows
<1>4. OperationKnows'
  BY <1>1 DEF ChargeInv, OperationKnows
<1>5. \A q \in Payments : (resv[q] # "NONE") <=> (resv'[q] # "NONE")
  BY <1>1, <1>2
<1>6. ApprovalKnows'
  BY <1>5 DEF ChargeInv, ApprovalKnows
<1> QED  BY <1>3, <1>4, <1>5, <1>6

LEMMA ProviderEventsCharge ==
    ASSUME CoreInv, ChargeInv, ProviderEventsNext, UNCHANGED <<checkoutVars, workerVars>>
    PROVE  ChargeInv'
<1>1. UNCHANGED <<pc, job, answer, approval>>
  BY DEF workerVars, checkoutVars
<1>2. ASSUME NEW p \in Payments, WebhookIgnored(p)  PROVE ChargeInv'
  BY <1>1, <1>2, ChargeFrame
     DEF WebhookIgnored, MarkProcessed, budgetVars, operationVars, providerVars
<1>3. ASSUME NEW p \in Payments, NEW s \in {"SUCCEEDED", "FAILED"},
             chargeResult[p] = s, resv[p] # "NONE", SettleCharge(p, s),
             IF s = "SUCCEEDED" THEN Consume(p) ELSE Release(p),
             SetStatus(p, s), UNCHANGED chargeResult
      PROVE  ChargeInv'
  <2>1. /\ ReservationKnows' /\ OperationKnows' /\ ApprovalKnows'
        /\ \A q \in Payments : resv[q] # "NONE" => resv'[q] # "NONE"
    BY <1>1, <1>3, StatusFrame, SettleKnows
  <2>2. WorkerKnows'
    BY <1>1, <1>3, <2>1 DEF ChargeInv, WorkerKnows, Known, CoreInv, JobOK
  <2> QED  BY <2>1, <2>2 DEF ChargeInv
<1>4. ASSUME NEW p \in Payments, WebhookSucceeded(p)  PROVE ChargeInv'
  BY <1>3, <1>4 DEF WebhookSucceeded, Deliverable, MarkProcessed, providerVars
<1>5. ASSUME NEW p \in Payments, WebhookFailed(p)  PROVE ChargeInv'
  <2>1. resv[p] # "NONE"
    BY <1>5 DEF WebhookFailed, Deliverable, ChargeInv, ReservationKnows
  <2> QED  BY <1>3, <1>5, <2>1 DEF WebhookFailed, Deliverable, MarkProcessed, providerVars
<1> QED  BY <1>2, <1>4, <1>5 DEF ProviderEventsNext, Webhook

----------------------------------------------------------------------------
\* A worker that finalizes forgets its payment; the others lose nothing.
LEMMA DoneKnows ==
    ASSUME CoreInv, ChargeInv, NEW w \in Workers, Done(w),
           \A q \in Payments : resv[q] # "NONE" => resv'[q] # "NONE"
    PROVE  WorkerKnows'
<1>1. /\ pc \in [Workers -> PC] /\ job \in [Workers -> Payments \cup {NoPayment}]
      /\ answer \in [Workers -> Outcome \cup {"NONE"}]
  BY DEF CoreInv, TypeOK, ExecutionTypeOK
<1>2. /\ pc' = [pc EXCEPT ![w] = "idle"] /\ job' = [job EXCEPT ![w] = NoPayment]
      /\ answer' = [answer EXCEPT ![w] = "NONE"] /\ chargeResult' = chargeResult
  BY DEF Done, providerVars
<1>3. SUFFICES ASSUME NEW v \in Workers, pc'[v] # "idle"
               PROVE  /\ resv'[job'[v]] # "NONE"
                      /\ pc'[v] = "answered" => answer'[v] \in Known(job[v])'
  BY DEF WorkerKnows, Known
<1>4. v # w /\ pc'[v] = pc[v] /\ job'[v] = job[v] /\ answer'[v] = answer[v]
  BY <1>1, <1>2, <1>3
<1> QED  BY <1>2, <1>3, <1>4 DEF ChargeInv, WorkerKnows, Known, CoreInv, JobOK

LEMMA ExecutionCharge ==
    ASSUME CoreInv, ChargeInv, ExecutionNext, UNCHANGED <<checkoutVars, resolved>>
    PROVE  ChargeInv'
<1>0. /\ UNCHANGED approval
      /\ pc \in [Workers -> PC] /\ job \in [Workers -> Payments \cup {NoPayment}]
      /\ answer \in [Workers -> Outcome \cup {"NONE"}]
      /\ op \in [Payments -> OperationStatus] /\ resv \in [Payments -> ReservationStatus]
      /\ chargeResult \in [Payments -> Result] /\ JobOK
  BY DEF checkoutVars, CoreInv, TypeOK, ExecutionTypeOK, StoreTypeOK, ProviderTypeOK
<1>1. ASSUME NEW w \in Workers, Claim(w)  PROVE ChargeInv'
  BY <1>0, <1>1, ChargeFrame DEF Claim, storeVars, budgetVars, operationVars, providerVars
<1>2. ASSUME NEW w \in Workers, NEW p \in Payments, Open(w, p)  PROVE ChargeInv'
  <2>1. /\ pc[w] = "idle" /\ resv[p] # "NONE" /\ OpenCharge(p)
        /\ SetStatus(p, "PROCESSING")
        /\ job' = [job EXCEPT ![w] = p] /\ pc' = [pc EXCEPT ![w] = "opened"]
        /\ UNCHANGED <<resv, chargeResult, answer>>
    BY <1>2 DEF Open, budgetVars, providerVars
  <2>2. \A q \in Payments : op'[q] = op[q] \/ (q = p /\ op'[q] = "PENDING")
    BY <1>0, <2>1 DEF OpenCharge
  <2>3. ReservationKnows' /\ OperationKnows'
    BY <2>1, <2>2 DEF ChargeInv, ReservationKnows, OperationKnows
  <2>4. WorkerKnows'
    BY <1>0, <2>1 DEF ChargeInv, WorkerKnows, Known
  <2>5. ApprovalKnows'
    BY <1>0, <2>1, StatusFrame DEF ChargeInv, ApprovalKnows
  <2> QED  BY <2>3, <2>4, <2>5 DEF ChargeInv
<1>3. ASSUME NEW w \in Workers, Consult(w)  PROVE ChargeInv'
  <2>1. UNCHANGED <<status, resv, op, chargeResult, job>> /\ pc[w] = "opened"
    BY <1>3 DEF Consult, storeVars, budgetVars, operationVars, providerVars
  <2>2. ReservationKnows' /\ OperationKnows' /\ ApprovalKnows'
    BY <1>0, <2>1 DEF ChargeInv, ReservationKnows, OperationKnows, ApprovalKnows
  <2>3. \/ /\ op[job[w]] \in Outcome /\ answer' = [answer EXCEPT ![w] = op[job[w]]]
           /\ pc' = [pc EXCEPT ![w] = "answered"]
        \/ pc' = [pc EXCEPT ![w] = "calling"] /\ answer' = answer
    BY <1>3 DEF Consult
  <2>4. op[job[w]] \in Outcome => op[job[w]] \in Known(job[w])
    BY <1>0, <2>1 DEF ChargeInv, OperationKnows, JobOK, Outcome, Known
  <2>5. WorkerKnows'
    BY <1>0, <2>1, <2>3, <2>4 DEF ChargeInv, WorkerKnows, Known
  <2> QED  BY <2>2, <2>5 DEF ChargeInv
<1>4. ASSUME NEW w \in Workers, Charge(w)  PROVE ChargeInv'
  <2> DEFINE p == job[w]
  <2>1. /\ pc[w] = "calling" /\ pc' = [pc EXCEPT ![w] = "answered"]
        /\ UNCHANGED <<status, resv, op, job>>
    BY <1>4 DEF Charge, storeVars, budgetVars, operationVars
  <2>2. PICK r \in Replies(chargeResult[p]) :
          /\ chargeResult' = [chargeResult EXCEPT ![p] = r.result]
          /\ answer' = [answer EXCEPT ![w] = r.answer]
    BY <1>4 DEF Charge
  <2>3. /\ r.answer \in {"UNKNOWN"} \cup ({r.result} \ {"NONE"})
        /\ chargeResult[p] # "NONE" => r.result = chargeResult[p]
    BY DEF Replies, Outcome
  <2>4. p \in Payments /\ resv[p] # "NONE"
    BY <1>0, <2>1 DEF JobOK, ChargeInv, WorkerKnows, Known
  <2> HIDE DEF p
  <2>5. \A q \in Payments : chargeResult'[q] = chargeResult[q] \/
                            (q = p /\ chargeResult[q] = "NONE")
    BY <1>0, <2>2, <2>3, <2>4
  <2>6. ReservationKnows'
    BY <2>1, <2>4, <2>5 DEF ChargeInv, ReservationKnows
  <2>7. OperationKnows'
    BY <2>1, <2>5 DEF ChargeInv, OperationKnows
  <2>8. ApprovalKnows'
    BY <1>0, <2>1 DEF ChargeInv, ApprovalKnows
  <2>9. WorkerKnows'
    <3> SUFFICES ASSUME NEW v \in Workers, pc'[v] # "idle"
                 PROVE  /\ resv'[job'[v]] # "NONE"
                        /\ pc'[v] = "answered" => answer'[v] \in Known(job[v])'
      BY DEF WorkerKnows, Known
    <3>1. CASE v = w
      <4>1. chargeResult'[p] = r.result /\ answer'[v] = r.answer /\ job'[v] = p
        BY <1>0, <2>1, <2>2, <2>4, <3>1 DEF p
      <4> QED  BY <2>1, <2>3, <2>4, <4>1 DEF Known
    <3>2. CASE v # w
      <4>1. pc'[v] = pc[v] /\ job'[v] = job[v] /\ answer'[v] = answer[v]
        BY <1>0, <2>1, <2>2, <3>2
      <4>2. /\ job[v] \in Payments /\ resv[job[v]] # "NONE"
            /\ pc[v] = "answered" => answer[v] \in Known(job[v])
        BY <1>0, <4>1 DEF JobOK, ChargeInv, WorkerKnows, Known
      <4>3. pc[v] = "answered" => answer[v] \in Known(job[v])'
        BY <2>1, <2>5, <4>1, <4>2 DEF Known
      <4> QED  BY <2>1, <4>1, <4>2, <4>3
    <3> QED  BY <3>1, <3>2
  <2> QED  BY <2>6, <2>7, <2>8, <2>9 DEF ChargeInv
<1>5. ASSUME NEW w \in Workers, Done(w), UNCHANGED storeVars  PROVE ChargeInv'
  <2>1. WorkerKnows'
    BY <1>5, DoneKnows DEF storeVars, budgetVars
  <2>2. ReservationKnows' /\ OperationKnows' /\ ApprovalKnows'
    BY <1>0, <1>5 DEF Done, storeVars, budgetVars, operationVars, providerVars, ChargeInv,
        ReservationKnows, OperationKnows, ApprovalKnows
  <2> QED  BY <2>1, <2>2 DEF ChargeInv
<1>6. ASSUME NEW w \in Workers, FinalizeUnknown(w)  PROVE ChargeInv'
  <2> DEFINE p == job[w]
  <2>1. /\ Finalizing(w, "UNKNOWN") /\ Done(w) /\ MarkChargeUnknown(p)
        /\ SetStatus(p, "UNKNOWN_EXTERNAL_OUTCOME") /\ UNCHANGED <<resv, chargeResult>>
    BY <1>6 DEF FinalizeUnknown, Finalizing, Done, providerVars, budgetVars
  <2>2. p \in Payments /\ resv[p] # "NONE"
    BY <1>0, <2>1 DEF Finalizing, JobOK, ChargeInv, WorkerKnows, Known
  <2> HIDE DEF p
  <2>3. \A q \in Payments : op'[q] = op[q] \/ (q = p /\ op'[q] = "UNKNOWN")
    BY <1>0, <2>1 DEF MarkChargeUnknown
  <2>4. ReservationKnows' /\ OperationKnows'
    BY <2>1, <2>2, <2>3 DEF ChargeInv, ReservationKnows, OperationKnows
  <2>5. ApprovalKnows'
    BY <1>0, <2>1, <2>2, StatusFrame DEF ChargeInv, ApprovalKnows
  <2>6. WorkerKnows'
    BY <2>1, DoneKnows
  <2> QED  BY <2>4, <2>5, <2>6 DEF ChargeInv
<1>7. ASSUME NEW w \in Workers, NEW s \in {"SUCCEEDED", "FAILED"}, Finalizing(w, s),
             SettleCharge(job[w], s), SetStatus(job[w], s),
             IF s = "SUCCEEDED" THEN Consume(job[w]) ELSE Release(job[w])
      PROVE  ChargeInv'
  <2> DEFINE p == job[w]
  <2>1. /\ Done(w) /\ pc[w] = "answered" /\ answer[w] = s /\ UNCHANGED chargeResult
    BY <1>7 DEF Finalizing, Done, providerVars
  <2>2. p \in Payments /\ resv[p] # "NONE" /\ chargeResult[p] = s
    BY <1>0, <2>1 DEF JobOK, ChargeInv, WorkerKnows, Known
  <2>3. SettleCharge(p, s) /\ SetStatus(p, s)
        /\ IF s = "SUCCEEDED" THEN Consume(p) ELSE Release(p)
    BY <1>7
  <2> HIDE DEF p
  <2>4. \A q \in Payments : status'[q] = "NONE" => status[q] = "NONE"
    BY <2>2, <2>3, StatusFrame
  <2>5. /\ ReservationKnows' /\ OperationKnows' /\ ApprovalKnows'
        /\ \A q \in Payments : resv[q] # "NONE" => resv'[q] # "NONE"
    BY <1>0, <2>1, <2>2, <2>3, <2>4, SettleKnows
  <2>6. WorkerKnows'
    BY <2>1, <2>5, DoneKnows
  <2> QED  BY <2>5, <2>6 DEF ChargeInv
<1>8. ASSUME NEW w \in Workers, Crash(w)  PROVE ChargeInv'
  <2>1. /\ UNCHANGED <<status, resv, op, chargeResult>>
        /\ pc' = [pc EXCEPT ![w] = "idle"] /\ job' = [job EXCEPT ![w] = NoPayment]
        /\ answer' = [answer EXCEPT ![w] = "NONE"]
    BY <1>8 DEF Crash, storeVars, budgetVars, operationVars, providerVars
  <2>2. ReservationKnows' /\ OperationKnows' /\ ApprovalKnows'
    BY <1>0, <2>1 DEF ChargeInv, ReservationKnows, OperationKnows, ApprovalKnows
  <2>3. WorkerKnows'
    BY <1>0, <2>1 DEF ChargeInv, WorkerKnows, Known
  <2> QED  BY <2>2, <2>3 DEF ChargeInv
<1>9. ASSUME NEW w \in Workers, FinalizeRepeated(w) \/ FinalizeRejected(w)
      PROVE  ChargeInv'
  BY <1>5, <1>9 DEF FinalizeRepeated, FinalizeRejected
<1>10. ASSUME NEW w \in Workers, FinalizeFailed(w)  PROVE ChargeInv'
  BY <1>7, <1>10 DEF FinalizeFailed
<1>11. ASSUME NEW w \in Workers, FinalizeSucceeded(w)  PROVE ChargeInv'
  BY <1>7, <1>11 DEF FinalizeSucceeded
<1> QED  BY <1>1, <1>2, <1>3, <1>4, <1>6, <1>8, <1>9, <1>10, <1>11
         DEF ExecutionNext, WorkerStep

----------------------------------------------------------------------------
(* The theorems *)

LEMMA ChargeInit == Init => ChargeInv
BY DEF Init, StoreInit, CheckoutInit, ProviderInit, ExecutionInit, ChargeInv,
       ReservationKnows, OperationKnows, WorkerKnows, ApprovalKnows

LEMMA ChargeNext == CoreInv /\ ChargeInv /\ [Next]_vars => ChargeInv'
<1> SUFFICES ASSUME CoreInv, ChargeInv, [Next]_vars  PROVE ChargeInv'
  OBVIOUS
<1>1. CASE UNCHANGED vars
  BY <1>1, ChargeFrame
     DEF vars, storeVars, budgetVars, operationVars, checkoutVars, providerVars, workerVars
<1>2. CASE Next
  BY <1>2, CheckoutCharge, ExecutionCharge, ProviderEventsCharge, LifecycleCharge DEF Next
<1> QED  BY <1>1, <1>2

LEMMA ChargeInvariant == Spec => []ChargeInv
BY CoreInvariant, ChargeInit, ChargeNext, PTL DEF Spec

\* Once the provider has accepted a charge its share of the budget is not
\* given back (finalize and the resolver release only on a refusal, and no
\* worker can carry a refusal of an accepted charge).
THEOREM AcceptedKeepsHold == Spec => []AcceptedChargeKeepsHold
<1>1. CoreInv /\ ChargeInv => AcceptedChargeKeepsHold
  BY DEF CoreInv, BudgetInv, BudgetTypeOK, ReservationStatus, ChargeInv, ReservationKnows,
         AcceptedChargeKeepsHold
<1> QED  BY <1>1, CoreInvariant, ChargeInvariant, PTL

\* No charge is sent for a payment that waits for its approval or was denied
\* one, nor without a reservation (approve_payment and prepare come first).
THEOREM Authorized == Spec => []ChargeIsAuthorized
<1>1. ChargeInv => ChargeIsAuthorized
  BY DEF ChargeInv, ReservationKnows, ApprovalKnows, ChargeIsAuthorized
<1> QED  BY <1>1, ChargeInvariant, PTL
=============================================================================
