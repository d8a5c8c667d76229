---------------------------- MODULE LedgerProofs ----------------------------
(***************************************************************************)
(* What the transactions and the ledger say of a payment, at every moment: *)
(* that they agree, that each entry has its cause at the provider, that    *)
(* refunds stay within the captures, and that a failed payment has none.   *)
(*                                                                         *)
(* Every step of the system is, for one payment, one of four things:       *)
(* nothing to its rows, a capture, a decision on an authorization, or a    *)
(* refund (Kind).  The invariants are proved from that, and not from the   *)
(* actions.                                                                *)
(***************************************************************************)
EXTENDS BooksProofs

\* The rows stay; the status may only move as far as the rows allow.
Still(p) ==
    /\ txn'[p] = txn[p] /\ journal'[p] = journal[p]
    /\ \/ status'[p] = status[p]
       \/ p \in Chargeable /\ status'[p] # "AUTHORIZED"
       \/ status[p] = "AUTHORIZED" /\ status'[p] = "UNKNOWN_EXTERNAL_OUTCOME"

\* finalize, the resolver or the capture route records a capture.
Captures(p) ==
    /\ \E key \in CaptureKeys : txn'[p] = [txn[p] EXCEPT ![key] = "POSTED"]
    /\ journal'[p] = journal[p] \cup {"capture"}
    /\ status'[p] = "SUCCEEDED"
    /\ \/ p \in Chargeable /\ chargeResult[p] = "SUCCEEDED"
       \/ status[p] = "AUTHORIZED"

\* The capture or the void of an authorization is decided otherwise.
Decides(p) ==
    /\ status[p] = "AUTHORIZED"
    /\ journal'[p] = journal[p]
    /\ \/ /\ status'[p] = "FAILED"
          /\ txn'[p] = [txn[p] EXCEPT !["capture:failed"] = "FAILED"]
       \/ /\ status'[p] = "VOIDED"
          /\ txn'[p] = [txn[p] EXCEPT !["void"] = "POSTED"]
       \/ /\ status'[p] = "VOID_FAILED"
          /\ txn'[p] = [txn[p] EXCEPT !["void:failed"] = "FAILED"]

\* A refund is recorded with what the provider answered.
RefundsAs(p, key, s) ==
    /\ RefundAdmitted(p, key)
    /\ txn'[p] = [txn[p] EXCEPT ![key] = s]
    /\ journal'[p] = journal[p] \cup (IF s = "POSTED" THEN {key} ELSE {})

Refunds(p) ==
    \E key \in RefundKeys :
        \/ RefundsAs(p, key, "PENDING") /\ status'[p] = "UNKNOWN_EXTERNAL_OUTCOME"
        \/ /\ RefundsAs(p, key, "FAILED") /\ status'[p] = "REFUND_FAILED"
           /\ refundResult'[p][key] = "FAILED"
        \/ /\ RefundsAs(p, key, "POSTED")
           /\ status'[p] = IF Refundable(p) = RefundAmount[key]
                           THEN "REFUNDED" ELSE "SUCCEEDED"
           /\ refundResult'[p][key] = "SUCCEEDED"

Kind(p) == Still(p) \/ Captures(p) \/ Decides(p) \/ Refunds(p)

\* A preauthorized payment is never reserved for, and AUTHORIZED payments are
\* preauthorized ones.
Apart ==
    \A p \in Payments :
        /\ p \in Preauthorized =>
              resv[p] = "NONE" /\ approval[p] = "NONE" /\ status[p] # "NONE"
        /\ status[p] = "AUTHORIZED" => p \in Preauthorized

----------------------------------------------------------------------------
(* The kinds of steps *)

LEMMA RowTypes ==
    CoreInv => /\ status \in [Payments -> PaymentStatus]
               /\ txn \in [Payments -> [TxnKeys -> TxnStatus]]
               /\ journal \in [Payments -> SUBSET JournalKeys]
BY DEF CoreInv, TypeOK, StoreTypeOK

\* Writing the rows of one payment leaves every other one as it is.
LEMMA OthersStill ==
    ASSUME CoreInv, NEW p \in Payments, NEW q \in Payments, q # p,
           txn' = txn \/ \E k : \E s : WriteTxn(p, k, s),
           journal' = journal \/ \E k : PostJournal(p, k),
           status' = status \/ \E s : SetStatus(p, s)
    PROVE  Still(q)
BY RowTypes DEF Still, WriteTxn, PostJournal, SetStatus

\* A step that writes no rows and, of the status, only that of a charged payment.
LEMMA QuietKind ==
    ASSUME CoreInv, UNCHANGED ledgerVars,
           \/ status' = status
           \/ \E p \in Chargeable, s \in PaymentStatus \ {"AUTHORIZED"} : SetStatus(p, s)
    PROVE  \A q \in Payments : Kind(q)
BY RowTypes DEF Kind, Still, SetStatus, ledgerVars, Chargeable

LEMMA CaptureKind ==
    ASSUME CoreInv, NEW p \in Payments, NEW key \in CaptureKeys,
           WriteTxn(p, key, "POSTED"), PostJournal(p, "capture"),
           SetStatus(p, "SUCCEEDED"),
           \/ p \in Chargeable /\ chargeResult[p] = "SUCCEEDED"
           \/ status[p] = "AUTHORIZED"
    PROVE  \A q \in Payments : Kind(q)
<1>1. Captures(p)
  BY RowTypes DEF Captures, WriteTxn, PostJournal, SetStatus
<1>2. \A q \in Payments : q # p => Still(q)
  BY OthersStill
<1> QED  BY <1>1, <1>2 DEF Kind

\* A payment that has a reservation, or is not yet anything, is a charged one.
LEMMA ReservedIsChargeable ==
    ASSUME Apart, NEW p \in Payments,
           resv[p] # "NONE" \/ approval[p] # "NONE" \/ status[p] = "NONE"
    PROVE  p \in Chargeable
BY DEF Apart, Chargeable

LEMMA CheckoutKind ==
    ASSUME CoreInv, ChargeInv, Apart, CheckoutNext
    PROVE  \A q \in Payments : Kind(q)
<1>1. ASSUME NEW p \in Payments, NEW s \in PaymentStatus \ {"AUTHORIZED"},
             status[p] = "NONE" \/ approval[p] = "PENDING",
             SetStatus(p, s), UNCHANGED ledgerVars
      PROVE  \A q \in Payments : Kind(q)
  <2>1. p \in Chargeable
    BY <1>1, ReservedIsChargeable
  <2> QED  BY <1>1, <2>1, QuietKind
<1>2. {"FAILED", "APPROVAL_REQUIRED", "PROCESSING"} \subseteq PaymentStatus \ {"AUTHORIZED"}
  BY DEF PaymentStatus
<1>3. ASSUME NEW p \in Payments,
             \/ CreateRefused(p) \/ CreateForApproval(p) \/ CreateAllowed(p)
             \/ ApprovePayment(p) \/ DenyPayment(p)
      PROVE  \A q \in Payments : Kind(q)
  BY <1>1, <1>2, <1>3
     DEF CreateRefused, CreateForApproval, CreateAllowed, ApprovePayment, DenyPayment, Prepare
<1>4. ASSUME NEW p \in Payments, ApprovalLapses(p)  PROVE \A q \in Payments : Kind(q)
  BY <1>4, QuietKind DEF ApprovalLapses, storeVars
<1> QED  BY <1>3, <1>4 DEF CheckoutNext

LEMMA ExecutionKind ==
    ASSUME CoreInv, ChargeInv, Apart, ExecutionNext
    PROVE  \A q \in Payments : Kind(q)
<1>1. {"PROCESSING", "UNKNOWN_EXTERNAL_OUTCOME", "FAILED"}
        \subseteq PaymentStatus \ {"AUTHORIZED"}
  BY DEF PaymentStatus
<1>2. ASSUME NEW w \in Workers,
             \/ Claim(w) \/ Consult(w) \/ Charge(w) \/ FinalizeRepeated(w)
             \/ FinalizeRejected(w) \/ Crash(w)
      PROVE  \A q \in Payments : Kind(q)
  BY <1>2, QuietKind
     DEF Claim, Consult, Charge, FinalizeRepeated, FinalizeRejected, Crash, storeVars
<1>3. ASSUME NEW w \in Workers, NEW p \in Payments, Open(w, p)
      PROVE  \A q \in Payments : Kind(q)
  <2>1. p \in Chargeable
    BY <1>3, ReservedIsChargeable DEF Open
  <2> QED  BY <1>1, <1>3, <2>1, QuietKind DEF Open
<1>4. ASSUME NEW w \in Workers, pc[w] = "answered"
      PROVE  /\ job[w] \in Chargeable /\ job[w] \in Payments
             /\ answer[w] = "SUCCEEDED" => chargeResult[job[w]] = "SUCCEEDED"
  <2>1. job[w] \in Payments
    BY <1>4 DEF CoreInv, JobOK
  <2>2. resv[job[w]] # "NONE" /\ answer[w] \in Known(job[w])
    BY <1>4 DEF ChargeInv, WorkerKnows
  <2> QED  BY <2>1, <2>2, ReservedIsChargeable DEF Known
<1>5. ASSUME NEW w \in Workers, FinalizeUnknown(w) \/ FinalizeFailed(w)
      PROVE  \A q \in Payments : Kind(q)
  BY <1>1, <1>4, <1>5, QuietKind
     DEF FinalizeUnknown, FinalizeFailed, Finalizing
<1>6. ASSUME NEW w \in Workers, FinalizeSucceeded(w)
      PROVE  \A q \in Payments : Kind(q)
  BY <1>4, <1>6, CaptureKind DEF FinalizeSucceeded, Finalizing, CaptureKeys
<1> QED  BY <1>2, <1>3, <1>5, <1>6 DEF ExecutionNext, WorkerStep

LEMMA ProviderEventsKind ==
    ASSUME CoreInv, ChargeInv, Apart, ProviderEventsNext
    PROVE  \A q \in Payments : Kind(q)
<1>1. ASSUME NEW p \in Payments, op[p] # "NONE"  PROVE p \in Chargeable
  BY <1>1, ReservedIsChargeable DEF ChargeInv, ReservationKnows
<1>2. ASSUME NEW p \in Payments, WebhookIgnored(p)  PROVE \A q \in Payments : Kind(q)
  BY <1>2, QuietKind DEF WebhookIgnored
<1>3. ASSUME NEW p \in Payments, WebhookSucceeded(p)  PROVE \A q \in Payments : Kind(q)
  BY <1>1, <1>3, CaptureKind DEF WebhookSucceeded, Deliverable, CaptureKeys
<1>4. ASSUME NEW p \in Payments, WebhookFailed(p)  PROVE \A q \in Payments : Kind(q)
  BY <1>1, <1>4, QuietKind DEF WebhookFailed, Deliverable, PaymentStatus
<1> QED  BY <1>2, <1>3, <1>4 DEF ProviderEventsNext, Webhook

\* Writing a payment's row for one step of a refund.
LEMMA RefundRow ==
    ASSUME CoreInv, NEW p \in Payments, NEW key \in RefundKeys, NEW s, NEW a,
           Refunding(p, key, a), WriteTxn(p, key, s),
           IF s = "POSTED" THEN PostJournal(p, key) ELSE journal' = journal
    PROVE  RefundsAs(p, key, s)
<1>1. txn'[p] = [txn[p] EXCEPT ![key] = s]
  BY RowTypes DEF WriteTxn
<1>2. journal'[p] = journal[p] \cup (IF s = "POSTED" THEN {key} ELSE {})
  BY RowTypes DEF PostJournal
<1> QED  BY <1>1, <1>2 DEF RefundsAs, Refunding

\* A definite answer to a refund is the result the provider keeps.
LEMMA RefundAnswer ==
    ASSUME CoreInv, NEW p \in Payments, NEW key \in RefundKeys,
           NEW a \in {"SUCCEEDED", "FAILED"}, Refunding(p, key, a)
    PROVE  refundResult'[p][key] = a
<1>1. refundResult \in [Payments -> [RefundKeys -> Result]]
  BY DEF CoreInv, TypeOK, ProviderTypeOK
<1>2. PICK r \in Replies(refundResult[p][key]) :
        /\ r.answer = a
        /\ refundResult' = [refundResult EXCEPT ![p] = [@ EXCEPT ![key] = r.result]]
  BY DEF Refunding, CallRefund
<1>3. r.result = a
  BY <1>2 DEF Replies
<1> QED  BY <1>1, <1>2, <1>3

LEMMA LifecycleKind ==
    ASSUME CoreInv, LifecycleNext
    PROVE  \A q \in Payments : Kind(q)
<1>1. ASSUME NEW p \in Payments, CaptureSucceeded(p)  PROVE \A q \in Payments : Kind(q)
  BY <1>1, CaptureKind DEF CaptureSucceeded, Deciding, CaptureKeys
<1>2. ASSUME NEW p \in Payments, CaptureFailed(p) \/ VoidSucceeded(p) \/ VoidFailed(p)
      PROVE  \A q \in Payments : Kind(q)
  <2>1. Decides(p)
    BY <1>2, RowTypes
       DEF CaptureFailed, VoidSucceeded, VoidFailed, Deciding, Decides, WriteTxn, SetStatus
  <2>2. \A q \in Payments : q # p => Still(q)
    BY <1>2, OthersStill DEF CaptureFailed, VoidSucceeded, VoidFailed, Deciding
  <2> QED  BY <2>1, <2>2 DEF Kind
<1>3. ASSUME NEW p \in Payments, CaptureOrVoidUnknown(p)  PROVE \A q \in Payments : Kind(q)
  BY <1>3, RowTypes DEF CaptureOrVoidUnknown, Deciding, SetStatus, ledgerVars, Kind, Still
<1>4. ASSUME NEW p \in Payments, NEW key \in RefundKeys,
             RefundUnknown(p, key) \/ RefundFailed(p, key) \/ RefundSucceeded(p, key)
      PROVE  \A q \in Payments : Kind(q)
  <2>1. CASE RefundUnknown(p, key)
    <3>1. RefundsAs(p, key, "PENDING")
      BY <2>1, RefundRow DEF RefundUnknown
    <3>2. status'[p] = "UNKNOWN_EXTERNAL_OUTCOME"
      BY <2>1, RowTypes DEF RefundUnknown, SetStatus
    <3> QED  BY <2>1, <3>1, <3>2, OthersStill DEF RefundUnknown, Kind, Refunds
  <2>2. CASE RefundFailed(p, key)
    <3>1. RefundsAs(p, key, "FAILED")
      BY <2>2, RefundRow DEF RefundFailed
    <3>2. status'[p] = "REFUND_FAILED"
      BY <2>2, RowTypes DEF RefundFailed, SetStatus
    <3>3. refundResult'[p][key] = "FAILED"
      BY <2>2, RefundAnswer DEF RefundFailed
    <3> QED  BY <2>2, <3>1, <3>2, <3>3, OthersStill DEF RefundFailed, Kind, Refunds
  <2>3. CASE RefundSucceeded(p, key)
    <3>1. RefundsAs(p, key, "POSTED")
      BY <2>3, RefundRow DEF RefundSucceeded
    <3>2. status'[p] = IF Refundable(p) = RefundAmount[key] THEN "REFUNDED" ELSE "SUCCEEDED"
      BY <2>3, RowTypes DEF RefundSucceeded, SetStatus
    <3>3. refundResult'[p][key] = "SUCCEEDED"
      BY <2>3, RefundAnswer DEF RefundSucceeded
    <3> QED  BY <2>3, <3>1, <3>2, <3>3, OthersStill DEF RefundSucceeded, Kind, Refunds
  <2> QED  BY <1>4, <2>1, <2>2, <2>3
<1>5. ASSUME NEW p \in Payments, NEW key \in RefundKeys, RefundRolledBack(p, key)
      PROVE  \A q \in Payments : Kind(q)
  BY <1>5, QuietKind DEF RefundRolledBack, storeVars
<1> QED  BY <1>1, <1>2, <1>3, <1>4, <1>5 DEF LifecycleNext

LEMMA StepKind ==
    ASSUME CoreInv, ChargeInv, Apart, [Next]_vars
    PROVE  \A q \in Payments : Kind(q)
<1>1. CASE UNCHANGED vars
  BY <1>1, QuietKind DEF vars, storeVars
<1>2. CASE Next
  BY <1>2, CheckoutKind, ExecutionKind, ProviderEventsKind, LifecycleKind DEF Next
<1> QED  BY <1>1, <1>2

----------------------------------------------------------------------------
(***************************************************************************)
(* The course of a payment: what a step may do to its status, approval,    *)
(* reservation and announcements.  A reservation is taken only when the    *)
(* payment is created or its approval decided, so what was refused then is *)
(* never charged; a failure is recorded only with nothing held.            *)
(***************************************************************************)
Course(p) ==
    /\ status[p] # "NONE" => status'[p] # "NONE"
    /\ approval'[p] # approval[p] => status[p] = "NONE" \/ approval[p] = "PENDING"
    /\ resv[p] = "NONE" /\ resv'[p] # "NONE" => status[p] = "NONE" \/ approval[p] = "PENDING"
    /\ status'[p] = "FAILED" =>
          \/ status[p] = "FAILED" /\ resv'[p] = resv[p]
          \/ resv'[p] \in {"NONE", "RELEASED"}
    /\ "PaymentSucceeded" \in events'[p] =>
          "PaymentSucceeded" \in events[p] \/ chargeResult[p] = "SUCCEEDED"
    /\ "PaymentFailed" \in events'[p] =>
          \/ "PaymentFailed" \in events[p]
          \/ chargeResult[p] = "FAILED"
          \/ resv'[p] = "NONE" /\ status'[p] # "NONE" /\ approval'[p] # "PENDING"

LEMMA CourseTypes ==
    CoreInv => /\ status \in [Payments -> PaymentStatus]
               /\ approval \in [Payments -> ApprovalStatus]
               /\ resv \in [Payments -> ReservationStatus]
               /\ events \in [Payments -> SUBSET EventType]
BY DEF CoreInv, TypeOK, StoreTypeOK, CheckoutTypeOK

\* What each action touches is of one payment.
LEMMA OthersCourse ==
    ASSUME CoreInv, NEW p \in Payments, NEW q \in Payments, q # p,
           status' = status \/ \E s : SetStatus(p, s),
           approval' = approval \/ \E s : SetApproval(p, s),
           resv' = resv \/ \E s : resv' = [resv EXCEPT ![p] = s],
           events' = events \/ \E types : Emit(p, types)
    PROVE  Course(q)
BY CourseTypes DEF Course, SetStatus, SetApproval, Emit

\* A status set while a charge is under way or a refund is made, short of
\* success and failure.
LEMMA PassingCourse ==
    ASSUME CoreInv, UNCHANGED <<approval, resv>>,
           NEW p \in Payments, NEW types,
           \/ events' = events
           \/ Emit(p, types) /\ types \in SUBSET {"PaymentOutcomeUnknown"},
           status' = status \/ \E s : SetStatus(p, s) /\ s # "NONE" /\ s # "FAILED"
    PROVE  \A q \in Payments : Course(q)
<1>1. Course(p)
  BY CourseTypes DEF Course, SetStatus, Emit
<1>2. \A q \in Payments : q # p => Course(q)
  BY OthersCourse
<1> QED  BY <1>1, <1>2

LEMMA CheckoutCourse ==
    ASSUME CoreInv, ChargeInv, CheckoutNext
    PROVE  \A q \in Payments : Course(q)
<1>1. ASSUME NEW p \in Payments, CreateRefused(p) \/ CreateForApproval(p) \/ DenyPayment(p)
      PROVE  \A q \in Payments : Course(q)
  <2>1. resv[p] = "NONE" /\ resv' = resv
    BY <1>1 DEF CreateRefused, CreateForApproval, DenyPayment, ChargeInv, ApprovalKnows, budgetVars
  <2>2. Course(p)
    BY <1>1, <2>1, CourseTypes
       DEF CreateRefused, CreateForApproval, DenyPayment, SetStatus, SetApproval, Emit, Course,
           ChargeInv, ApprovalKnows, checkoutVars
  <2>3. \A q \in Payments : q # p => Course(q)
    BY <1>1, <2>1, OthersCourse
       DEF CreateRefused, CreateForApproval, DenyPayment, checkoutVars
  <2> QED  BY <2>2, <2>3
<1>2. ASSUME NEW p \in Payments, CreateAllowed(p) \/ ApprovePayment(p)
      PROVE  \A q \in Payments : Course(q)
  <2>1. PICK types \in SUBSET {"NotificationRequested", "PaymentApproved"} : Prepare(p, types)
    BY <1>2 DEF CreateAllowed, ApprovePayment
  <2>2. status[p] = "NONE" \/ approval[p] = "PENDING"
    BY <1>2 DEF CreateAllowed, ApprovePayment
  <2>3. Course(p)
    BY <1>2, <2>1, <2>2, CourseTypes
       DEF CreateAllowed, ApprovePayment, Prepare, SetStatus, SetApproval, Emit, Course,
           checkoutVars
  <2>4. \A q \in Payments : q # p => Course(q)
    BY <1>2, <2>1, OthersCourse
       DEF CreateAllowed, ApprovePayment, Prepare, Reserve, checkoutVars
  <2> QED  BY <2>3, <2>4
<1>3. ASSUME NEW p \in Payments, ApprovalLapses(p)  PROVE \A q \in Payments : Course(q)
  BY <1>3, PassingCourse DEF ApprovalLapses, storeVars, budgetVars
<1> QED  BY <1>1, <1>2, <1>3 DEF CheckoutNext

\* The final answer to a charge is recorded, with or without an announcement.
LEMMA VerdictCourse ==
    ASSUME CoreInv, ChargeInv, UNCHANGED approval,
           NEW p \in Payments, NEW s \in {"SUCCEEDED", "FAILED"},
           chargeResult[p] = s, resv[p] # "NONE", SetStatus(p, s),
           IF s = "SUCCEEDED" THEN Consume(p) ELSE Release(p),
           \/ events' = events
           \/ Emit(p, {IF s = "SUCCEEDED" THEN "PaymentSucceeded" ELSE "PaymentFailed"})
    PROVE  \A q \in Payments : Course(q)
<1>1. \/ resv' = resv
      \/ \E t \in ReservationStatus : resv' = [resv EXCEPT ![p] = t]
  BY DEF Consume, Release, budgetVars, ReservationStatus
<1>2. s = "FAILED" => resv'[p] = "RELEASED"
  BY CourseTypes DEF Release, budgetVars, ReservationStatus, ChargeInv, ReservationKnows
<1>3. Course(p)
  BY <1>2, CourseTypes DEF Course, SetStatus, Emit
<1>4. \A q \in Payments : q # p => Course(q)
  BY <1>1, OthersCourse
<1> QED  BY <1>3, <1>4

LEMMA ExecutionCourse ==
    ASSUME CoreInv, ChargeInv, ExecutionNext, UNCHANGED checkoutVars
    PROVE  \A q \in Payments : Course(q)
<1>0. approval' = approval
  BY DEF checkoutVars
<1>1. ASSUME NEW w \in Workers,
             \/ Claim(w) \/ Consult(w) \/ Charge(w) \/ FinalizeRepeated(w)
             \/ FinalizeRejected(w) \/ Crash(w)
      PROVE  \A q \in Payments : Course(q)
  BY <1>0, <1>1, PassingCourse
     DEF Claim, Consult, Charge, FinalizeRepeated, FinalizeRejected, Crash, storeVars, budgetVars
<1>2. ASSUME NEW w \in Workers, NEW p \in Payments, Open(w, p)
      PROVE  \A q \in Payments : Course(q)
  BY <1>0, <1>2, PassingCourse DEF Open, budgetVars
<1>3. ASSUME NEW w \in Workers, pc[w] = "answered"
      PROVE  /\ job[w] \in Payments /\ resv[job[w]] # "NONE"
             /\ answer[w] \in {"SUCCEEDED", "FAILED"} => chargeResult[job[w]] = answer[w]
  BY <1>3 DEF CoreInv, JobOK, ChargeInv, WorkerKnows, Known
<1>4. ASSUME NEW w \in Workers, FinalizeUnknown(w)  PROVE \A q \in Payments : Course(q)
  BY <1>0, <1>3, <1>4, PassingCourse DEF FinalizeUnknown, Finalizing, budgetVars
<1>5. ASSUME NEW w \in Workers, FinalizeFailed(w)  PROVE \A q \in Payments : Course(q)
  BY <1>0, <1>3, <1>5, VerdictCourse DEF FinalizeFailed, Finalizing
<1>6. ASSUME NEW w \in Workers, FinalizeSucceeded(w)  PROVE \A q \in Payments : Course(q)
  BY <1>0, <1>3, <1>6, VerdictCourse DEF FinalizeSucceeded, Finalizing
<1> QED  BY <1>1, <1>2, <1>4, <1>5, <1>6 DEF ExecutionNext, WorkerStep

LEMMA ProviderEventsCourse ==
    ASSUME CoreInv, ChargeInv, ProviderEventsNext, UNCHANGED checkoutVars
    PROVE  \A q \in Payments : Course(q)
<1>0. approval' = approval
  BY DEF checkoutVars
<1>1. ASSUME NEW p \in Payments, WebhookIgnored(p)  PROVE \A q \in Payments : Course(q)
  BY <1>0, <1>1, PassingCourse DEF WebhookIgnored, MarkProcessed, budgetVars
<1>2. ASSUME NEW p \in Payments, WebhookSucceeded(p)  PROVE \A q \in Payments : Course(q)
  BY <1>0, <1>2, VerdictCourse DEF WebhookSucceeded, Deliverable, MarkProcessed
<1>3. ASSUME NEW p \in Payments, WebhookFailed(p)  PROVE \A q \in Payments : Course(q)
  <2>1. resv[p] # "NONE"
    BY <1>3 DEF WebhookFailed, Deliverable, ChargeInv, ReservationKnows
  <2> QED  BY <1>0, <1>3, <2>1, VerdictCourse DEF WebhookFailed, Deliverable, MarkProcessed
<1> QED  BY <1>1, <1>2, <1>3 DEF ProviderEventsNext, Webhook

LEMMA LifecycleCourse ==
    ASSUME CoreInv, Apart, LifecycleNext, UNCHANGED checkoutVars
    PROVE  \A q \in Payments : Course(q)
<1>0. approval' = approval
  BY DEF checkoutVars
<1>1. ASSUME NEW p \in Payments,
             \/ CaptureSucceeded(p) \/ VoidSucceeded(p) \/ VoidFailed(p)
             \/ CaptureOrVoidUnknown(p)
      PROVE  \A q \in Payments : Course(q)
  BY <1>0, <1>1, PassingCourse
     DEF CaptureSucceeded, VoidSucceeded, VoidFailed, CaptureOrVoidUnknown, Deciding, budgetVars
<1>2. ASSUME NEW p \in Payments, CaptureFailed(p)  PROVE \A q \in Payments : Course(q)
  <2>1. /\ status[p] = "AUTHORIZED" /\ SetStatus(p, "FAILED")
        /\ resv' = resv /\ events' = events
    BY <1>2 DEF CaptureFailed, Deciding, budgetVars
  <2>2. resv[p] = "NONE"
    BY <2>1 DEF Apart
  <2>3. Course(p)
    BY <1>0, <2>1, <2>2, CourseTypes DEF Course, SetStatus
  <2>4. \A q \in Payments : q # p => Course(q)
    BY <1>0, <2>1, OthersCourse
  <2> QED  BY <2>3, <2>4
<1>3. ASSUME NEW p \in Payments, NEW key \in RefundKeys,
             RefundUnknown(p, key) \/ RefundFailed(p, key) \/ RefundSucceeded(p, key)
      PROVE  \A q \in Payments : Course(q)
  <2>1. UNCHANGED <<resv, events>>
    BY <1>3 DEF RefundUnknown, RefundFailed, RefundSucceeded, Refunding, budgetVars
  <2>2. \E s : SetStatus(p, s) /\ s # "NONE" /\ s # "FAILED"
    BY <1>3 DEF RefundUnknown, RefundFailed, RefundSucceeded
  <2> QED  BY <1>0, <2>1, <2>2, PassingCourse
<1>4. ASSUME NEW p \in Payments, NEW key \in RefundKeys, RefundRolledBack(p, key)
      PROVE  \A q \in Payments : Course(q)
  BY <1>0, <1>4, PassingCourse DEF RefundRolledBack, storeVars, budgetVars
<1> QED  BY <1>1, <1>2, <1>3, <1>4 DEF LifecycleNext

LEMMA StepCourse ==
    ASSUME CoreInv, ChargeInv, Apart, [Next]_vars
    PROVE  \A q \in Payments : Course(q)
<1>1. CASE UNCHANGED vars
  BY <1>1, PassingCourse DEF vars, storeVars, budgetVars, checkoutVars
<1>2. CASE Next
  BY <1>2, CheckoutCourse, ExecutionCourse, ProviderEventsCourse, LifecycleCourse DEF Next
<1> QED  BY <1>1, <1>2

----------------------------------------------------------------------------
\* The provider keeps its first result for a key, whoever asks again.
LEMMA ResultsStay ==
    ASSUME CoreInv, [Next]_vars, NEW p \in Payments
    PROVE  /\ chargeResult[p] # "NONE" => chargeResult'[p] = chargeResult[p]
           /\ \A k \in RefundKeys :
                 refundResult[p][k] # "NONE" => refundResult'[p][k] = refundResult[p][k]
<1>0. /\ chargeResult \in [Payments -> Result]
      /\ refundResult \in [Payments -> [RefundKeys -> Result]]
  BY DEF CoreInv, TypeOK, ProviderTypeOK
<1>1. ASSUME NEW w \in Workers, Charge(w)
      PROVE  chargeResult[p] # "NONE" => chargeResult'[p] = chargeResult[p]
  <2>1. PICK r \in Replies(chargeResult[job[w]]) :
          chargeResult' = [chargeResult EXCEPT ![job[w]] = r.result]
    BY <1>1 DEF Charge
  <2>2. chargeResult[job[w]] # "NONE" => r.result = chargeResult[job[w]]
    BY DEF Replies
  <2> QED  BY <1>0, <2>1, <2>2
<1>2. ASSUME NEW q \in Payments, NEW key \in RefundKeys, NEW a, CallRefund(q, key, a),
             NEW k \in RefundKeys, refundResult[p][k] # "NONE"
      PROVE  refundResult'[p][k] = refundResult[p][k]
  <2>1. PICK r \in Replies(refundResult[q][key]) :
          refundResult' = [refundResult EXCEPT ![q] = [@ EXCEPT ![key] = r.result]]
    BY <1>2 DEF CallRefund
  <2>2. refundResult[q][key] # "NONE" => r.result = refundResult[q][key]
    BY DEF Replies
  <2> QED  BY <1>0, <1>2, <2>1, <2>2
<1>3. \/ chargeResult' = chargeResult
      \/ \E w \in Workers : Charge(w)
  BY DEF Next, vars, providerVars, ExecutionNext, WorkerStep, Claim, Open, Consult,
         FinalizeRepeated, FinalizeRejected, FinalizeUnknown, FinalizeFailed, FinalizeSucceeded,
         Finalizing, Done, Crash, ProviderEventsNext, Webhook, WebhookIgnored, WebhookSucceeded,
         WebhookFailed, MarkProcessed, LifecycleNext, CaptureSucceeded, CaptureFailed,
         VoidSucceeded, VoidFailed, CaptureOrVoidUnknown, Deciding, RefundUnknown, RefundFailed,
         RefundSucceeded, RefundRolledBack, Refunding, CallRefund
<1>4. \/ refundResult' = refundResult
      \/ \E q \in Payments, key \in RefundKeys : \E a : CallRefund(q, key, a)
  BY DEF Next, vars, providerVars, ExecutionNext, WorkerStep, Claim, Open, Consult, Charge,
         FinalizeRepeated, FinalizeRejected, FinalizeUnknown, FinalizeFailed, FinalizeSucceeded,
         Finalizing, Done, Crash, ProviderEventsNext, Webhook, WebhookIgnored, WebhookSucceeded,
         WebhookFailed, MarkProcessed, LifecycleNext, CaptureSucceeded, CaptureFailed,
         VoidSucceeded, VoidFailed, CaptureOrVoidUnknown, Deciding, RefundUnknown, RefundFailed,
         RefundSucceeded, RefundRolledBack, Refunding
<1> QED  BY <1>1, <1>2, <1>3, <1>4

----------------------------------------------------------------------------
(* The verdict *)

\* An announcement of success is of a charge the provider accepted; one of
\* failure of a charge it refused or of a payment that can no longer be charged.
VerdictKnows ==
    \A p \in Payments :
        /\ "PaymentSucceeded" \in events[p] => chargeResult[p] = "SUCCEEDED"
        /\ "PaymentFailed" \in events[p] =>
              \/ chargeResult[p] = "FAILED"
              \/ resv[p] = "NONE" /\ status[p] # "NONE" /\ approval[p] # "PENDING"

FailedHoldsNothing ==
    \A p \in Payments : status[p] = "FAILED" => resv[p] \in {"NONE", "RELEASED"}

VerdictInv == Apart /\ VerdictKnows /\ FailedHoldsNothing

LEMMA VerdictStart == Init => VerdictInv
BY DEF Init, StoreInit, CheckoutInit, VerdictInv, Apart, VerdictKnows, FailedHoldsNothing

LEMMA VerdictNext == CoreInv /\ ChargeInv /\ VerdictInv /\ [Next]_vars => VerdictInv'
<1> SUFFICES ASSUME CoreInv, ChargeInv, VerdictInv, [Next]_vars  PROVE VerdictInv'
  OBVIOUS
<1>1. \A p \in Payments : Course(p) /\ Kind(p)
  BY StepCourse, StepKind DEF VerdictInv
<1>2. Apart'
  <2> SUFFICES ASSUME NEW p \in Payments
               PROVE  /\ p \in Preauthorized =>
                            resv'[p] = "NONE" /\ approval'[p] = "NONE" /\ status'[p] # "NONE"
                      /\ status'[p] = "AUTHORIZED" => p \in Preauthorized
    BY DEF Apart
  <2>1. p \in Preauthorized =>
          resv'[p] = "NONE" /\ approval'[p] = "NONE" /\ status'[p] # "NONE"
    BY <1>1 DEF VerdictInv, Apart, Course
  <2>2. status'[p] = "AUTHORIZED" => status[p] = "AUTHORIZED"
    BY <1>1 DEF Kind, Still, Captures, Decides, Refunds, Chargeable
  <2> QED  BY <2>1, <2>2 DEF VerdictInv, Apart
<1>3. VerdictKnows'
  BY <1>1, ResultsStay DEF VerdictInv, VerdictKnows, Course
<1>4. FailedHoldsNothing'
  BY <1>1 DEF VerdictInv, FailedHoldsNothing, Course
<1> QED  BY <1>2, <1>3, <1>4 DEF VerdictInv

LEMMA VerdictInvariant == Spec => []VerdictInv
BY CoreInvariant, ChargeInvariant, VerdictStart, VerdictNext, PTL DEF Spec

\* No payment is announced both as succeeded and as failed, by however many
\* workers it is finalized (a refusal at checkout precludes a charge, and the
\* provider has one result per charge).
THEOREM OneVerdict == Spec => []OneVerdictAnnounced
<1>1. ChargeInv /\ VerdictInv => OneVerdictAnnounced
  BY DEF ChargeInv, ReservationKnows, VerdictInv, VerdictKnows, OneVerdictAnnounced
<1> QED  BY <1>1, ChargeInvariant, VerdictInvariant, PTL

----------------------------------------------------------------------------
(* The rows *)

\* Before its capture or void is decided a payment has no rows; a capture row
\* is written once and for all; the journals are those of the posted rows.
RowsInv ==
    \A p \in Payments :
        /\ status[p] = "AUTHORIZED" =>
              journal[p] = {} /\ \A k \in TxnKeys : txn[p][k] = "NONE"
        /\ \A k \in CaptureKeys : txn[p][k] \in {"NONE", "POSTED"}
        /\ "capture" \in journal[p] <=> \E k \in CaptureKeys : txn[p][k] = "POSTED"
        /\ \A k \in RefundKeys : k \in journal[p] <=> txn[p][k] = "POSTED"

\* What is posted has its cause at the provider, as has a refund recorded as
\* failed, and a payment that has FAILED has nothing posted.
CauseInv ==
    \A p \in Payments :
        /\ p \in Chargeable /\ (\E k \in TxnKeys : txn[p][k] = "POSTED") =>
              chargeResult[p] = "SUCCEEDED"
        /\ \A k \in RefundKeys :
              /\ txn[p][k] = "POSTED" => refundResult[p][k] = "SUCCEEDED"
              /\ txn[p][k] = "FAILED" => refundResult[p][k] = "FAILED"
        /\ p \in Preauthorized /\ status[p] = "FAILED" =>
              \A k \in TxnKeys : txn[p][k] # "POSTED"

\* The keys of captures, of refunds and of the rest are all different.
LEMMA KeysApart ==
    /\ CaptureKeys \subseteq TxnKeys /\ RefundKeys \subseteq TxnKeys
    /\ \A k \in RefundKeys : k \notin CaptureKeys /\ k # "capture"
    /\ \A k \in {"capture:failed", "void", "void:failed"} :
          k \in TxnKeys /\ k \notin CaptureKeys /\ k \notin RefundKeys
BY StoreAssumption DEF TxnKeys, CaptureKeys, LifecycleKeys

LEMMA RowsStart == Init => RowsInv /\ CauseInv
BY KeysApart DEF Init, StoreInit, RowsInv, CauseInv

LEMMA RowsNext ==
    ASSUME CoreInv, RowsInv, \A p \in Payments : Kind(p)
    PROVE  RowsInv'
<1> SUFFICES ASSUME NEW p \in Payments
             PROVE  /\ status'[p] = "AUTHORIZED" =>
                          journal'[p] = {} /\ \A k \in TxnKeys : txn'[p][k] = "NONE"
                    /\ \A k \in CaptureKeys : txn'[p][k] \in {"NONE", "POSTED"}
                    /\ "capture" \in journal'[p] <=>
                          \E k \in CaptureKeys : txn'[p][k] = "POSTED"
                    /\ \A k \in RefundKeys : k \in journal'[p] <=> txn'[p][k] = "POSTED"
  BY DEF RowsInv
<1>0. txn[p] \in [TxnKeys -> TxnStatus]
  BY RowTypes
<1>1. CASE Still(p)
  BY <1>1 DEF Still, RowsInv
<1>2. CASE Captures(p)
  BY <1>0, <1>2, KeysApart DEF Captures, RowsInv
<1>3. CASE Decides(p)
  BY <1>0, <1>3, KeysApart DEF Decides, RowsInv
<1>4. CASE Refunds(p)
  BY <1>0, <1>4, KeysApart DEF Refunds, RefundsAs, RefundAdmitted, RowsInv
<1> QED  BY <1>1, <1>2, <1>3, <1>4 DEF Kind

LEMMA CauseNext ==
    ASSUME CoreInv, ChargeInv, BooksInv, VerdictInv, RowsInv, CauseInv, [Next]_vars,
           \A p \in Payments : Kind(p)
    PROVE  CauseInv'
<1> SUFFICES ASSUME NEW p \in Payments
             PROVE  /\ p \in Chargeable /\ (\E k \in TxnKeys : txn'[p][k] = "POSTED") =>
                          chargeResult'[p] = "SUCCEEDED"
                    /\ \A k \in RefundKeys :
                          /\ txn'[p][k] = "POSTED" => refundResult'[p][k] = "SUCCEEDED"
                          /\ txn'[p][k] = "FAILED" => refundResult'[p][k] = "FAILED"
                    /\ p \in Preauthorized /\ status'[p] = "FAILED" =>
                          \A k \in TxnKeys : txn'[p][k] # "POSTED"
  BY DEF CauseInv, Chargeable
<1>0. /\ txn[p] \in [TxnKeys -> TxnStatus]
      /\ chargeResult[p] = "SUCCEEDED" => chargeResult'[p] = "SUCCEEDED"
      /\ \A k \in RefundKeys :
            refundResult[p][k] # "NONE" => refundResult'[p][k] = refundResult[p][k]
  BY RowTypes, ResultsStay
<1>1. CASE Still(p)
  BY <1>0, <1>1 DEF Still, CauseInv, Chargeable
<1>2. CASE Captures(p)
  <2>1. p \in Chargeable => chargeResult[p] = "SUCCEEDED"
    BY <1>2 DEF Captures, VerdictInv, Apart, Chargeable
  <2> QED  BY <1>0, <1>2, <2>1, KeysApart DEF Captures, CauseInv
<1>3. CASE Decides(p)
  <2>1. p \notin Chargeable
    BY <1>3 DEF Decides, VerdictInv, Apart, Chargeable
  <2> QED  BY <1>0, <1>3, <2>1, KeysApart DEF Decides, CauseInv, RowsInv
<1>4. CASE Refunds(p)
  <2>1. p \in Chargeable => chargeResult[p] = "SUCCEEDED"
    BY <1>4 DEF Refunds, RefundsAs, RefundAdmitted, Settled, BooksInv, Booked, ChargeInv,
                ReservationKnows
  <2>2. status'[p] # "FAILED"
    BY <1>4 DEF Refunds
  <2>3. \A k \in RefundKeys :
          /\ txn'[p][k] = "POSTED" => refundResult'[p][k] = "SUCCEEDED"
          /\ txn'[p][k] = "FAILED" => refundResult'[p][k] = "FAILED"
    BY <1>0, <1>4, KeysApart DEF Refunds, RefundsAs, CauseInv
  <2> QED  BY <1>0, <2>1, <2>2, <2>3
<1> QED  BY <1>1, <1>2, <1>3, <1>4 DEF Kind

LEMMA RowsInvariant == Spec => [](RowsInv /\ CauseInv)
<1>1. CoreInv /\ ChargeInv /\ BooksInv /\ VerdictInv /\ RowsInv /\ CauseInv /\ [Next]_vars
        => (RowsInv /\ CauseInv)'
  BY StepKind, RowsNext, CauseNext DEF VerdictInv
<1> QED
  BY <1>1, RowsStart, CoreInvariant, ChargeInvariant, BooksInvariant, VerdictInvariant, PTL
     DEF Spec

\* The ledger has exactly the journals of the posted transactions, whichever
\* of finalize, the resolver and the lifecycle route posted them.
THEOREM LedgerMatches == Spec => []LedgerMatchesTransactions
<1>1. CoreInv /\ RowsInv => LedgerMatchesTransactions
  BY RowTypes, KeysApart DEF RowsInv, LedgerMatchesTransactions, Posted
<1> QED  BY <1>1, CoreInvariant, RowsInvariant, PTL

\* Every journal has its cause at the provider, whatever was retried or lost.
THEOREM LedgerCaused == Spec => []LedgerHasCause
<1>1. RowsInv /\ CauseInv => LedgerHasCause
  BY KeysApart DEF RowsInv, CauseInv, LedgerHasCause
<1> QED  BY <1>1, RowsInvariant, PTL

\* A refund recorded as failed was not made: a lost answer is never taken for
\* a refusal, and the provider's refusal under a key stands.
THEOREM RefundFailuresTrue == Spec => []FailedRefundsMoveNothing
<1>1. CauseInv => FailedRefundsMoveNothing
  BY DEF CauseInv, FailedRefundsMoveNothing
<1> QED  BY <1>1, RowsInvariant, PTL

\* A payment reported failed has moved no money and holds no budget.
THEOREM FailedIsInert == Spec => []FailedMovesNothing
<1>1. ASSUME CoreInv, ChargeInv, VerdictInv, RowsInv, CauseInv, NEW p \in Payments,
             status[p] = "FAILED"
      PROVE  /\ chargeResult[p] # "SUCCEEDED"
             /\ resv[p] \in {"NONE", "RELEASED"}
             /\ Posted(p, TxnKeys) = {} /\ journal[p] = {}
  <2>1. resv[p] \in {"NONE", "RELEASED"}
    BY <1>1 DEF VerdictInv, FailedHoldsNothing
  <2>2. chargeResult[p] # "SUCCEEDED"
    BY <1>1, <2>1 DEF ChargeInv, ReservationKnows
  <2>3. \A k \in TxnKeys : txn[p][k] # "POSTED"
    BY <1>1, <2>2 DEF CauseInv, Chargeable
  <2>4. journal[p] = {}
    BY <1>1, <2>3, RowTypes, KeysApart DEF RowsInv, JournalKeys
  <2> QED  BY <2>1, <2>2, <2>3, <2>4 DEF Posted
<1>2. CoreInv /\ ChargeInv /\ VerdictInv /\ RowsInv /\ CauseInv => FailedMovesNothing
  BY <1>1 DEF FailedMovesNothing
<1> QED  BY <1>2, CoreInvariant, ChargeInvariant, VerdictInvariant, RowsInvariant, PTL

\* A posted transaction stays posted and a failed one failed: a retry under
\* the same key replays the recorded outcome.
THEOREM TransactionsStay == Spec => TransactionsFinal
<1>1. ASSUME CoreInv, RowsInv, NEW p \in Payments, Kind(p), NEW k \in TxnKeys,
             txn[p][k] \in {"POSTED", "FAILED"}
      PROVE  txn'[p][k] = txn[p][k]
  <2>0. txn[p] \in [TxnKeys -> TxnStatus]
    BY <1>1, RowTypes
  <2>1. CASE Still(p)
    BY <2>1 DEF Still
  <2>2. CASE Captures(p)
    <3>1. PICK key \in CaptureKeys : txn'[p] = [txn[p] EXCEPT ![key] = "POSTED"]
      BY <2>2 DEF Captures
    <3>2. k = key => txn[p][k] = "POSTED"
      BY <1>1 DEF RowsInv
    <3> QED  BY <1>1, <2>0, <3>1, <3>2
  <2>3. CASE Decides(p)
    BY <1>1, <2>3 DEF Decides, RowsInv
  <2>4. CASE Refunds(p)
    BY <1>1, <2>0, <2>4, KeysApart DEF Refunds, RefundsAs, RefundAdmitted
  <2> QED  BY <1>1, <2>1, <2>2, <2>3, <2>4 DEF Kind
<1>2. CoreInv /\ ChargeInv /\ VerdictInv /\ RowsInv /\ [Next]_vars =>
        [\A p \in Payments, k \in TxnKeys :
            txn[p][k] \in {"POSTED", "FAILED"} => txn'[p][k] = txn[p][k]]_vars
  BY <1>1, StepKind DEF VerdictInv
<1> QED
  BY <1>2, CoreInvariant, ChargeInvariant, VerdictInvariant, RowsInvariant, PTL
     DEF Spec, TransactionsFinal

----------------------------------------------------------------------------
(* The sums *)

\* That refunds are covered and that REFUNDED is said of what has nothing left
\* to refund, for preauthorized payments.
SumsInv ==
    \A p \in Payments :
        /\ Refunded(p) <= Captured(p)
        /\ p \in Preauthorized /\ status[p] \in Settled =>
              (status[p] = "REFUNDED" <=> Refundable(p) = 0)

LEMMA RefundAmountType ==
    /\ RefundAmount \in [RefundKeys -> Nat]
    /\ \A k \in RefundKeys : RefundAmount[k] \in Nat /\ RefundAmount[k] > 0
    /\ \A S \in SUBSET RefundKeys : IsFiniteSet(S) /\ Total(S, RefundAmount) \in Nat
<1>1. RefundAmount \in [RefundKeys -> Nat]
  BY StoreAssumption
<1>2. \A k \in RefundKeys : RefundAmount[k] \in Nat /\ RefundAmount[k] > 0
  BY StoreAssumption
<1>3. ASSUME NEW S \in SUBSET RefundKeys
      PROVE  IsFiniteSet(S) /\ Total(S, RefundAmount) \in Nat
  <2>1. IsFiniteSet(S)
    BY StoreAssumption, FS_Subset
  <2> QED  BY <1>1, <2>1, TotalType
<1> QED  BY <1>1, <1>2, <1>3

LEMMA CaptureAmounts ==
    ASSUME NEW p \in Payments
    PROVE  /\ [k \in CaptureKeys |-> Amount[p]] \in [CaptureKeys -> Nat]
           /\ Amount[p] \in Nat /\ Amount[p] > 0
           /\ IsFiniteSet(CaptureKeys)
<1>1. Amount[p] \in Nat /\ Amount[p] > 0
  BY StoreAssumption
<1>2. IsFiniteSet({"capture", "capture:transaction"})
  <2>1. IsFiniteSet({"capture"})
    BY FS_Singleton
  <2>2. IsFiniteSet({"capture"} \cup {"capture:transaction"})
    BY <2>1, FS_AddElement
  <2>3. {"capture"} \cup {"capture:transaction"} = {"capture", "capture:transaction"}
    OBVIOUS
  <2> QED  BY <2>2, <2>3
<1> QED  BY <1>1, <1>2 DEF CaptureKeys

LEMMA SumTypes ==
    ASSUME NEW p \in Payments
    PROVE  Captured(p) \in Nat /\ Refunded(p) \in Nat
<1>1. IsFiniteSet(Posted(p, CaptureKeys)) /\ Posted(p, CaptureKeys) \in SUBSET CaptureKeys
  BY CaptureAmounts, FS_Subset DEF Posted
<1>2. Captured(p) \in Nat
  BY <1>1, CaptureAmounts, TotalType DEF Captured
<1>3. Posted(p, RefundKeys) \in SUBSET RefundKeys
  BY DEF Posted
<1> QED  BY <1>2, <1>3, RefundAmountType DEF Refunded

\* Without rows there is nothing to sum.
LEMMA NoSums ==
    ASSUME NEW p \in Payments, \A k \in TxnKeys : txn[p][k] = "NONE"
    PROVE  Captured(p) = 0 /\ Refunded(p) = 0
<1>1. Posted(p, CaptureKeys) = {} /\ Posted(p, RefundKeys) = {}
  BY KeysApart DEF Posted
<1> QED  BY <1>1, TotalEmpty DEF Captured, Refunded

\* A step that leaves the posted rows as they are leaves the sums.
LEMMA SumsStay ==
    ASSUME NEW p \in Payments,
           \A k \in CaptureKeys \cup RefundKeys : txn'[p][k] = txn[p][k]
    PROVE  Captured(p)' = Captured(p) /\ Refunded(p)' = Refunded(p)
<1>1. /\ Posted(p, CaptureKeys)' = Posted(p, CaptureKeys)
      /\ Posted(p, RefundKeys)' = Posted(p, RefundKeys)
  BY DEF Posted
<1> QED  BY <1>1 DEF Captured, Refunded

\* A capture adds to what was captured; the first one is for the full amount.
LEMMA CaptureSums ==
    ASSUME CoreInv, NEW p \in Payments, Captures(p)
    PROVE  /\ Captured(p)' \in Nat /\ Captured(p)' >= Captured(p)
           /\ Refunded(p)' = Refunded(p)
           /\ (\A k \in CaptureKeys : txn[p][k] = "NONE") => Captured(p)' = Amount[p]
<1> DEFINE f == [k \in CaptureKeys |-> Amount[p]]
           old == Posted(p, CaptureKeys)
           new == Posted(p, CaptureKeys)'
<1>0. txn[p] \in [TxnKeys -> TxnStatus]
  BY RowTypes
<1>1. PICK key \in CaptureKeys : txn'[p] = [txn[p] EXCEPT ![key] = "POSTED"]
  BY DEF Captures
<1>2. /\ new = old \cup {key} /\ old \in SUBSET CaptureKeys
      /\ Posted(p, RefundKeys)' = Posted(p, RefundKeys)
  BY <1>0, <1>1, KeysApart DEF Posted
<1>3. Captured(p) = Total(old, f) /\ Captured(p)' = Total(new, f)
  BY DEF Captured
<1>4. /\ f \in [CaptureKeys -> Nat] /\ f[key] = Amount[p] /\ Amount[p] \in Nat
      /\ IsFiniteSet(CaptureKeys)
  BY CaptureAmounts
<1>5. (\A k \in CaptureKeys : txn[p][k] = "NONE") => old = {}
  BY DEF Posted
<1> HIDE DEF f, old, new
<1>6. new \in SUBSET CaptureKeys /\ IsFiniteSet(old) /\ IsFiniteSet(new)
  BY <1>2, <1>4, FS_Subset
<1>7. Total(old, f) \in Nat /\ Total(new, f) \in Nat
  BY <1>2, <1>4, <1>6, TotalType
<1>8. Total(old, f) <= Total(new, f)
  BY <1>2, <1>4, <1>6, TotalMonotone
<1>9. old = {} => Total(new, f) = Amount[p]
  <2> SUFFICES ASSUME old = {}  PROVE Total(new, f) = Amount[p]
    OBVIOUS
  <2>1. Total(old \cup {key}, f) = Total(old, f) + f[key]
    BY <1>2, <1>4, <1>6, TotalAdd
  <2>2. Total(old, f) = 0
    BY TotalEmpty
  <2> QED  BY <1>2, <1>4, <2>1, <2>2
<1> QED  BY <1>2, <1>3, <1>5, <1>7, <1>8, <1>9 DEF Refunded

\* A refund adds its amount to what was refunded if it is posted.
LEMMA RefundSums ==
    ASSUME CoreInv, NEW p \in Payments, NEW key \in RefundKeys, NEW s \in TxnStatus,
           RefundsAs(p, key, s)
    PROVE  /\ Captured(p)' = Captured(p)
           /\ Refunded(p)' = Refunded(p) + (IF s = "POSTED" THEN RefundAmount[key] ELSE 0)
<1> DEFINE old == Posted(p, RefundKeys)
           new == Posted(p, RefundKeys)'
<1>0. txn[p] \in [TxnKeys -> TxnStatus]
  BY RowTypes
<1>1. txn'[p] = [txn[p] EXCEPT ![key] = s] /\ txn[p][key] \in {"NONE", "PENDING"}
  BY DEF RefundsAs, RefundAdmitted
<1>2. Posted(p, CaptureKeys)' = Posted(p, CaptureKeys)
  BY <1>0, <1>1, KeysApart DEF Posted
<1>3. /\ new = old \cup (IF s = "POSTED" THEN {key} ELSE {})
      /\ old \in SUBSET RefundKeys /\ key \notin old
  BY <1>0, <1>1, KeysApart DEF Posted
<1>4. Refunded(p) = Total(old, RefundAmount) /\ Refunded(p)' = Total(new, RefundAmount)
  BY DEF Refunded
<1> HIDE DEF old, new
<1>5. /\ IsFiniteSet(old) /\ IsFiniteSet(old \cup {key})
      /\ Total(old, RefundAmount) \in Nat /\ Total(old \cup {key}, RefundAmount) \in Nat
  BY <1>3, RefundAmountType
<1>6. Total(old \cup {key}, RefundAmount) = Total(old, RefundAmount) + RefundAmount[key]
  BY <1>3, <1>5, RefundAmountType, TotalAdd
<1>7. Total(new, RefundAmount)
        = Total(old, RefundAmount) + (IF s = "POSTED" THEN RefundAmount[key] ELSE 0)
  <2>1. CASE s = "POSTED"
    BY <1>3, <1>6, <2>1
  <2>2. CASE s # "POSTED"
    <3>1. new = old
      BY <1>3, <2>2
    <3> QED  BY <1>5, <2>2, <3>1
  <2> QED  BY <2>1, <2>2
<1> QED  BY <1>2, <1>4, <1>7 DEF Captured

LEMMA SumsStart == Init => SumsInv
<1> SUFFICES ASSUME Init, NEW p \in Payments
             PROVE  /\ Refunded(p) <= Captured(p)
                    /\ p \in Preauthorized /\ status[p] \in Settled =>
                          (status[p] = "REFUNDED" <=> Refundable(p) = 0)
  BY DEF SumsInv
<1>1. \A k \in TxnKeys : txn[p][k] = "NONE"
  BY DEF Init, StoreInit
<1>2. p \in Preauthorized => status[p] \notin Settled
  BY DEF Init, StoreInit, Settled
<1>3. Captured(p) = 0 /\ Refunded(p) = 0
  BY <1>1, NoSums
<1> QED  BY <1>2, <1>3

LEMMA SumsNext ==
    ASSUME CoreInv, VerdictInv, RowsInv, SumsInv, \A p \in Payments : Kind(p)
    PROVE  SumsInv'
<1> SUFFICES ASSUME NEW p \in Payments
             PROVE  /\ Refunded(p)' <= Captured(p)'
                    /\ p \in Preauthorized /\ status'[p] \in Settled =>
                          (status'[p] = "REFUNDED" <=> Captured(p)' - Refunded(p)' = 0)
  BY DEF SumsInv, Refundable
<1>0. /\ txn[p] \in [TxnKeys -> TxnStatus]
      /\ Captured(p) \in Nat /\ Refunded(p) \in Nat
      /\ Amount[p] \in Nat /\ Amount[p] > 0
  BY RowTypes, SumTypes, CaptureAmounts
<1>1. /\ Refunded(p) <= Captured(p)
      /\ p \in Preauthorized /\ status[p] \in Settled =>
            (status[p] = "REFUNDED" <=> Captured(p) - Refunded(p) = 0)
  BY DEF SumsInv, Refundable
<1>2. CASE Still(p)
  <2>1. Captured(p)' = Captured(p) /\ Refunded(p)' = Refunded(p)
    BY <1>2, SumsStay DEF Still
  <2>2. p \in Preauthorized =>
          status'[p] = status[p] \/ status'[p] = "UNKNOWN_EXTERNAL_OUTCOME"
    BY <1>2 DEF Still, Chargeable
  <2> QED  BY <1>1, <2>1, <2>2 DEF Settled
<1>3. CASE Captures(p)
  <2>1. /\ Captured(p)' \in Nat /\ Captured(p)' >= Captured(p)
        /\ Refunded(p)' = Refunded(p)
        /\ (\A k \in CaptureKeys : txn[p][k] = "NONE") => Captured(p)' = Amount[p]
    BY <1>3, CaptureSums
  <2>2. Refunded(p)' <= Captured(p)'
    BY <1>0, <1>1, <2>1
  <2>3. ASSUME p \in Preauthorized
        PROVE  Captured(p)' = Amount[p] /\ Refunded(p)' = 0
    <3>1. \A k \in TxnKeys : txn[p][k] = "NONE"
      BY <1>3, <2>3 DEF Captures, RowsInv, Chargeable
    <3>2. Captured(p) = 0 /\ Refunded(p) = 0
      BY <3>1, NoSums
    <3> QED  BY <2>1, <3>1, <3>2, KeysApart
  <2>4. status'[p] = "SUCCEEDED"
    BY <1>3 DEF Captures
  <2> QED  BY <1>0, <2>2, <2>3, <2>4
<1>4. CASE Decides(p)
  <2>1. \A k \in CaptureKeys \cup RefundKeys : txn'[p][k] = txn[p][k]
    BY <1>0, <1>4, KeysApart DEF Decides
  <2>2. Captured(p)' = Captured(p) /\ Refunded(p)' = Refunded(p)
    BY <2>1, SumsStay
  <2>3. status'[p] \notin Settled
    BY <1>4 DEF Decides, Settled
  <2> QED  BY <1>1, <2>2, <2>3
<1>5. CASE Refunds(p)
  <2>1. PICK key \in RefundKeys, s \in TxnStatus :
          /\ RefundsAs(p, key, s)
          /\ \/ s = "PENDING" /\ status'[p] = "UNKNOWN_EXTERNAL_OUTCOME"
             \/ s = "FAILED" /\ status'[p] = "REFUND_FAILED"
             \/ /\ s = "POSTED"
                /\ status'[p] = IF Refundable(p) = RefundAmount[key]
                                THEN "REFUNDED" ELSE "SUCCEEDED"
    BY <1>5 DEF Refunds, TxnStatus
  <2>2. /\ status[p] \in Settled
        /\ RefundAmount[key] <= Captured(p) - Refunded(p)
    BY <2>1 DEF RefundsAs, RefundAdmitted, Settled, Refundable
  <2>3. /\ Captured(p)' = Captured(p)
        /\ Refunded(p)' = Refunded(p) + (IF s = "POSTED" THEN RefundAmount[key] ELSE 0)
    BY <2>1, RefundSums
  <2>4. RefundAmount[key] \in Nat /\ RefundAmount[key] > 0
    BY RefundAmountType
  <2>5. Refunded(p)' <= Captured(p)'
    BY <1>0, <2>2, <2>3, <2>4
  <2>6. status'[p] \in Settled => (status'[p] = "REFUNDED" <=> Captured(p)' - Refunded(p)' = 0)
    BY <1>0, <2>1, <2>2, <2>3, <2>4 DEF Settled, Refundable
  <2> QED  BY <2>5, <2>6
<1> QED  BY <1>2, <1>3, <1>4, <1>5 DEF Kind

LEMMA SumsInvariant == Spec => []SumsInv
<1>1. CoreInv /\ ChargeInv /\ VerdictInv /\ RowsInv /\ SumsInv /\ [Next]_vars => SumsInv'
  BY StepKind, SumsNext DEF VerdictInv
<1> QED
  BY <1>1, SumsStart, CoreInvariant, ChargeInvariant, VerdictInvariant, RowsInvariant, PTL
     DEF Spec

\* The refunds posted never exceed the captures posted, for any amounts and
\* any number of retries (PaymentLifecycle.refund).
THEOREM RefundsStayCovered == Spec => []RefundsCovered
<1>1. SumsInv => RefundsCovered
  BY DEF SumsInv, RefundsCovered
<1> QED  BY <1>1, SumsInvariant, PTL

\* A preauthorized payment is REFUNDED exactly when nothing is left to refund.
THEOREM RefundedComplete == Spec => []RefundedIsComplete
<1>1. SumsInv => RefundedIsComplete
  BY StoreAssumption DEF SumsInv, RefundedIsComplete
<1> QED  BY <1>1, SumsInvariant, PTL
=============================================================================
