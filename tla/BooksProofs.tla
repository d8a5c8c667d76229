---------------------------- MODULE BooksProofs -----------------------------
(***************************************************************************)
(* What the books say of a paid charge is complete: when the operation row *)
(* or the payment's status reports success, the reservation is consumed, a *)
(* capture is posted and the ledger has its journal.  So a settlement      *)
(* report that was found to match is about money that is in the books.     *)
(***************************************************************************)
EXTENDS Settlement, ChargeProofs

InLedger(p) == Posted(p, CaptureKeys) # {} /\ "capture" \in journal[p]

Booked(p) == resv[p] = "CONSUMED" /\ InLedger(p)

\* The capture route would report a success without a charge, but takes only
\* payments that are AUTHORIZED, which no charged payment is.
BooksInv ==
    \A p \in Payments :
        /\ op[p] = "SUCCEEDED" => Booked(p)
        /\ p \in Chargeable =>
              status[p] # "AUTHORIZED" /\ (status[p] \in Settled => Booked(p))

\* What BooksInv asks of a step besides the reservation.
KeepsBooks ==
    \A p \in Payments :
        /\ InLedger(p) => InLedger(p)'
        /\ op'[p] = "SUCCEEDED" => op[p] = "SUCCEEDED" \/ Booked(p)'
        /\ p \in Chargeable =>
              /\ status'[p] # "AUTHORIZED"
              /\ status'[p] \in Settled => status[p] \in Settled \/ Booked(p)'

----------------------------------------------------------------------------
\* A consumed reservation stays consumed.
LEMMA ConsumedStays ==
    ASSUME CoreInv, [Next]_vars, NEW p \in Payments, resv[p] = "CONSUMED"
    PROVE  resv'[p] = "CONSUMED"
<1>1. BudgetStep /\ resv \in [Payments -> ReservationStatus]
  BY NextCore DEF CoreInv, BudgetInv, BudgetTypeOK
<1>2. \/ resv' = resv
      \/ \E q \in Payments, s \in ReservationStatus :
            resv[q] # "CONSUMED" /\ resv' = [resv EXCEPT ![q] = s]
  BY <1>1 DEF BudgetStep, Reserve, Consume, Release, budgetVars, ReservationStatus
<1> QED  BY <1>1, <1>2

\* Posting a capture puts one payment into the ledger and takes none out.
LEMMA CaptureBooks ==
    ASSUME CoreInv, NEW p \in Payments, NEW key \in CaptureKeys,
           WriteTxn(p, key, "POSTED"), PostJournal(p, "capture")
    PROVE  InLedger(p)' /\ \A q \in Payments : InLedger(q) => InLedger(q)'
<1>1. /\ txn \in [Payments -> [TxnKeys -> TxnStatus]] /\ key \in TxnKeys
      /\ journal \in [Payments -> SUBSET JournalKeys]
  BY DEF CoreInv, TypeOK, StoreTypeOK, TxnKeys
<1>2. /\ txn' = [txn EXCEPT ![p] = [@ EXCEPT ![key] = "POSTED"]]
      /\ journal' = [journal EXCEPT ![p] = @ \cup {"capture"}]
  BY DEF WriteTxn, PostJournal
<1>3. key \in Posted(p, CaptureKeys)' /\ "capture" \in journal'[p]
  BY <1>1, <1>2 DEF Posted
<1>4. \A q \in Payments :
        Posted(q, CaptureKeys) \subseteq Posted(q, CaptureKeys)' /\ journal[q] \subseteq journal'[q]
  BY <1>1, <1>2 DEF Posted, TxnKeys
<1> QED  BY <1>3, <1>4 DEF InLedger

\* Any other transaction leaves the captures alone.
LEMMA OtherBooks ==
    ASSUME CoreInv, NEW p \in Payments, NEW key \in TxnKeys, key \notin CaptureKeys,
           NEW s, WriteTxn(p, key, s),
           journal' = journal \/ \E k : PostJournal(p, k)
    PROVE  \A q \in Payments : InLedger(q) => InLedger(q)'
<1>1. /\ txn \in [Payments -> [TxnKeys -> TxnStatus]]
      /\ journal \in [Payments -> SUBSET JournalKeys]
  BY DEF CoreInv, TypeOK, StoreTypeOK
<1>2. \A q \in Payments : Posted(q, CaptureKeys)' = Posted(q, CaptureKeys)
  BY <1>1 DEF WriteTxn, Posted, TxnKeys
<1>3. \A q \in Payments : journal[q] \subseteq journal'[q]
  BY <1>1 DEF PostJournal
<1> QED  BY <1>2, <1>3 DEF InLedger

\* A step outside the ledger and the operations, to a status that reports nothing.
LEMMA QuietBooks ==
    ASSUME CoreInv, BooksInv, UNCHANGED <<op, txn, journal>>,
           \/ status' = status
           \/ \E p \in Payments : \E s :
                 s \notin Settled \cup {"AUTHORIZED"} /\ SetStatus(p, s)
    PROVE  KeepsBooks
<1>1. \A q \in Payments : InLedger(q) => InLedger(q)'
  BY DEF InLedger, Posted
<1>2. \A q \in Payments : status'[q] = status[q] \/ status'[q] \notin Settled \cup {"AUTHORIZED"}
  BY DEF SetStatus, CoreInv, TypeOK, StoreTypeOK
<1> QED  BY <1>1, <1>2 DEF KeepsBooks, BooksInv

\* Recording an accepted charge consumes the reservation it still has.
LEMMA SuccessBooks ==
    ASSUME CoreInv, ChargeInv, BooksInv, NEW p \in Payments, NEW key \in CaptureKeys,
           chargeResult[p] = "SUCCEEDED", resv[p] # "NONE",
           SettleCharge(p, "SUCCEEDED"), Consume(p), WriteTxn(p, key, "POSTED"),
           PostJournal(p, "capture"), SetStatus(p, "SUCCEEDED")
    PROVE  KeepsBooks
<1>1. /\ resv \in [Payments -> ReservationStatus] /\ op \in [Payments -> OperationStatus]
      /\ status \in [Payments -> PaymentStatus]
  BY DEF CoreInv, TypeOK, StoreTypeOK
<1>2. resv[p] \in {"RESERVED", "CONSUMED"}
  BY <1>1 DEF ReservationStatus, ChargeInv, ReservationKnows
<1>3. resv'[p] = "CONSUMED"
  BY <1>1, <1>2 DEF Consume, budgetVars
<1>4. Booked(p)' /\ \A q \in Payments : InLedger(q) => InLedger(q)'
  BY <1>3, CaptureBooks DEF Booked
<1>5. \A q \in Payments : q # p => op'[q] = op[q] /\ status'[q] = status[q]
  BY <1>1 DEF SettleCharge, SetStatus
<1>6. status'[p] = "SUCCEEDED"
  BY <1>1 DEF SetStatus
<1> QED  BY <1>4, <1>5, <1>6 DEF KeepsBooks, BooksInv

\* Recording a refused one, or one without an answer, reports nothing.
LEMMA NoSuccessBooks ==
    ASSUME CoreInv, BooksInv, NEW p \in Payments, NEW s, s # "SUCCEEDED",
           op' = [op EXCEPT ![p] = s], UNCHANGED ledgerVars,
           NEW t, t \notin Settled \cup {"AUTHORIZED"}, SetStatus(p, t)
    PROVE  KeepsBooks
<1>1. op \in [Payments -> OperationStatus] /\ status \in [Payments -> PaymentStatus]
  BY DEF CoreInv, TypeOK, StoreTypeOK
<1>2. \A q \in Payments : InLedger(q) => InLedger(q)'
  BY DEF InLedger, Posted, ledgerVars
<1>3. \A q \in Payments : /\ op'[q] = op[q] \/ op'[q] # "SUCCEEDED"
                          /\ status'[q] = status[q] \/ status'[q] \notin Settled \cup {"AUTHORIZED"}
  BY <1>1 DEF SetStatus
<1> QED  BY <1>2, <1>3 DEF KeepsBooks, BooksInv

----------------------------------------------------------------------------
(* The parts of the system *)

LEMMA CheckoutBooks ==
    ASSUME CoreInv, BooksInv, CheckoutNext
    PROVE  KeepsBooks
<1>1. ASSUME NEW p \in Payments, NEW s, s \notin Settled \cup {"AUTHORIZED"}, SetStatus(p, s),
             UNCHANGED <<operationVars, ledgerVars>>
      PROVE  KeepsBooks
  BY <1>1, QuietBooks DEF operationVars, ledgerVars
<1>2. ASSUME NEW p \in Payments,
             \/ CreateRefused(p) \/ CreateForApproval(p) \/ CreateAllowed(p)
             \/ ApprovePayment(p) \/ DenyPayment(p)
      PROVE  KeepsBooks
  BY <1>1, <1>2
     DEF CreateRefused, CreateForApproval, CreateAllowed, ApprovePayment, DenyPayment, Prepare,
         Settled
<1>3. ASSUME NEW p \in Payments, ApprovalLapses(p)  PROVE KeepsBooks
  BY <1>3, QuietBooks DEF ApprovalLapses, storeVars, operationVars, ledgerVars
<1> QED  BY <1>2, <1>3 DEF CheckoutNext

LEMMA ExecutionBooks ==
    ASSUME CoreInv, ChargeInv, BooksInv, ExecutionNext
    PROVE  KeepsBooks
<1>1. ASSUME UNCHANGED storeVars  PROVE KeepsBooks
  BY <1>1, QuietBooks DEF storeVars, operationVars, ledgerVars
<1>2. ASSUME NEW w \in Workers,
             \/ Claim(w) \/ Consult(w) \/ Charge(w) \/ FinalizeRepeated(w)
             \/ FinalizeRejected(w) \/ Crash(w)
      PROVE  KeepsBooks
  BY <1>1, <1>2 DEF Claim, Consult, Charge, FinalizeRepeated, FinalizeRejected, Crash
<1>3. ASSUME NEW w \in Workers, NEW p \in Payments, Open(w, p)  PROVE KeepsBooks
  <2>1. OpenCharge(p) /\ SetStatus(p, "PROCESSING") /\ UNCHANGED ledgerVars
    BY <1>3 DEF Open
  <2>2. CASE op[p] = "NONE"
    BY <2>1, <2>2, NoSuccessBooks DEF OpenCharge, Settled
  <2>3. CASE op[p] # "NONE"
    BY <2>1, <2>3, QuietBooks DEF OpenCharge, ledgerVars, Settled
  <2> QED  BY <2>2, <2>3
<1>4. ASSUME NEW w \in Workers, FinalizeUnknown(w) \/ FinalizeFailed(w)  PROVE KeepsBooks
  <2>1. job[w] \in Payments
    BY <1>4 DEF FinalizeUnknown, FinalizeFailed, Finalizing, CoreInv, JobOK
  <2> QED
    BY <1>4, <2>1, NoSuccessBooks
       DEF FinalizeUnknown, FinalizeFailed, MarkChargeUnknown, SettleCharge, Settled
<1>5. ASSUME NEW w \in Workers, FinalizeSucceeded(w)  PROVE KeepsBooks
  <2>1. pc[w] = "answered" /\ answer[w] = "SUCCEEDED" /\ job[w] \in Payments
    BY <1>5 DEF FinalizeSucceeded, Finalizing, CoreInv, JobOK
  <2>2. chargeResult[job[w]] = "SUCCEEDED" /\ resv[job[w]] # "NONE"
    BY <2>1 DEF ChargeInv, WorkerKnows, Known
  <2> QED  BY <1>5, <2>1, <2>2, SuccessBooks DEF FinalizeSucceeded, CaptureKeys
<1> QED  BY <1>2, <1>3, <1>4, <1>5 DEF ExecutionNext, WorkerStep

LEMMA ProviderEventsBooks ==
    ASSUME CoreInv, ChargeInv, BooksInv, ProviderEventsNext
    PROVE  KeepsBooks
<1>1. ASSUME NEW p \in Payments, WebhookIgnored(p)  PROVE KeepsBooks
  BY <1>1, QuietBooks DEF WebhookIgnored, operationVars, ledgerVars
<1>2. ASSUME NEW p \in Payments, WebhookSucceeded(p)  PROVE KeepsBooks
  BY <1>2, SuccessBooks DEF WebhookSucceeded, Deliverable, CaptureKeys
<1>3. ASSUME NEW p \in Payments, WebhookFailed(p)  PROVE KeepsBooks
  BY <1>3, NoSuccessBooks DEF WebhookFailed, SettleCharge, Settled
<1> QED  BY <1>1, <1>2, <1>3 DEF ProviderEventsNext, Webhook

\* Capture and void take only what was AUTHORIZED; a refund only what reports
\* success already.
LEMMA LifecycleBooks ==
    ASSUME CoreInv, BooksInv, LifecycleNext
    PROVE  KeepsBooks
<1>0. status \in [Payments -> PaymentStatus]
  BY DEF CoreInv, TypeOK, StoreTypeOK
<1>1. ASSUME NEW p \in Payments, NEW s, s # "AUTHORIZED", Deciding(p, s),
             \A q \in Payments : InLedger(q) => InLedger(q)'
      PROVE  KeepsBooks
  <2>1. p \notin Chargeable /\ op' = op
    BY <1>1 DEF Deciding, BooksInv, operationVars
  <2>2. \A q \in Payments : q # p => status'[q] = status[q]
    BY <1>0, <1>1 DEF Deciding, SetStatus
  <2> QED  BY <1>1, <2>1, <2>2 DEF KeepsBooks, BooksInv
<1>2. ASSUME NEW p \in Payments, CaptureSucceeded(p)  PROVE KeepsBooks
  BY <1>1, <1>2, CaptureBooks DEF CaptureSucceeded, CaptureKeys
<1>3. ASSUME NEW p \in Payments, CaptureFailed(p) \/ VoidSucceeded(p) \/ VoidFailed(p)
      PROVE  KeepsBooks
  <2>1. \E key \in LifecycleKeys : \E s : WriteTxn(p, key, s)
    BY <1>3 DEF CaptureFailed, VoidSucceeded, VoidFailed, LifecycleKeys
  <2>2. \A q \in Payments : InLedger(q) => InLedger(q)'
    BY <1>3, <2>1, OtherBooks
       DEF CaptureFailed, VoidSucceeded, VoidFailed, TxnKeys, LifecycleKeys, CaptureKeys
  <2> QED  BY <1>1, <1>3, <2>2 DEF CaptureFailed, VoidSucceeded, VoidFailed
<1>4. ASSUME NEW p \in Payments, CaptureOrVoidUnknown(p)  PROVE KeepsBooks
  BY <1>1, <1>4 DEF CaptureOrVoidUnknown, ledgerVars, InLedger, Posted
<1>5. ASSUME NEW p \in Payments, NEW key \in RefundKeys, NEW a, Refunding(p, key, a),
             NEW s, WriteTxn(p, key, s), journal' = journal \/ PostJournal(p, key),
             NEW t, t # "AUTHORIZED", SetStatus(p, t)
      PROVE  KeepsBooks
  <2>1. status[p] \in Settled /\ op' = op
    BY <1>5 DEF Refunding, RefundAdmitted, Settled, operationVars
  <2>2. key \in TxnKeys /\ key \notin CaptureKeys
    BY StoreAssumption DEF TxnKeys
  <2>3. \A q \in Payments : InLedger(q) => InLedger(q)'
    BY <1>5, <2>2, OtherBooks
  <2>4. /\ status'[p] # "AUTHORIZED"
        /\ \A q \in Payments : q # p => status'[q] = status[q]
    BY <1>0, <1>5 DEF SetStatus
  <2> QED  BY <2>1, <2>3, <2>4 DEF KeepsBooks, BooksInv
<1>6. ASSUME NEW p \in Payments, NEW key \in RefundKeys,
             RefundUnknown(p, key) \/ RefundFailed(p, key) \/ RefundSucceeded(p, key)
      PROVE  KeepsBooks
  BY <1>5, <1>6 DEF RefundUnknown, RefundFailed, RefundSucceeded
<1>7. ASSUME NEW p \in Payments, NEW key \in RefundKeys, RefundRolledBack(p, key)
      PROVE  KeepsBooks
  BY <1>7, QuietBooks DEF RefundRolledBack, storeVars, operationVars, ledgerVars
<1> QED  BY <1>2, <1>3, <1>4, <1>6, <1>7 DEF LifecycleNext

----------------------------------------------------------------------------
(* The payment core *)

LEMMA BooksStart == Init => BooksInv
BY DEF Init, StoreInit, BooksInv, Chargeable, Settled

LEMMA BooksNext == CoreInv /\ ChargeInv /\ BooksInv /\ [Next]_vars => BooksInv'
<1> SUFFICES ASSUME CoreInv, ChargeInv, BooksInv, [Next]_vars  PROVE BooksInv'
  OBVIOUS
<1>1. KeepsBooks
  <2>1. CASE UNCHANGED vars
    BY <2>1, QuietBooks DEF vars, storeVars, operationVars, ledgerVars
  <2>2. CASE Next
    BY <2>2, CheckoutBooks, ExecutionBooks, ProviderEventsBooks, LifecycleBooks DEF Next
  <2> QED  BY <2>1, <2>2
<1>2. \A p \in Payments : Booked(p) => Booked(p)'
  BY <1>1, ConsumedStays DEF KeepsBooks, Booked
<1> QED  BY <1>1, <1>2 DEF KeepsBooks, BooksInv, Chargeable

LEMMA BooksInvariant == Spec => []BooksInv
BY CoreInvariant, ChargeInvariant, BooksStart, BooksNext, PTL DEF Spec

\* A payment reported paid is paid everywhere: the provider has taken the
\* money, the budget is consumed, a capture is posted and the ledger has its
\* journal (finalize and the resolver each do all of it).
THEOREM SettledBacked == Spec => []SettledIsBacked
<1>1. ChargeInv /\ BooksInv => SettledIsBacked
  BY DEF ChargeInv, ReservationKnows, BooksInv, Booked, InLedger, SettledIsBacked, Chargeable
<1> QED  BY <1>1, ChargeInvariant, BooksInvariant, PTL

----------------------------------------------------------------------------
(* Settlement reports *)

\* Reports change nothing of the payment core, so whatever holds of it holds
\* of the core that is sent reports too.
LEMMA CoreUndisturbed == SettlementSpec => Spec
<1>1. [SettlementNext]_allVars => [Next]_vars
  BY DEF SettlementNext, allVars
<1> QED  BY <1>1, PTL DEF SettlementSpec, Spec

\* A report matches only an operation that has SUCCEEDED.
ReportKnows ==
    \A s \in Reports :
        verdict[s] = "MATCHED" => reportOf[s] \in Payments /\ Booked(reportOf[s])

SettlementInv == SettlementTypeOK /\ ReportKnows

LEMMA JudgeKnows ==
    ASSUME NEW p \in Payments, NEW amount, NEW sameCurrency
    PROVE  /\ Judge(p, amount, sameCurrency) \in Verdict \ {"NONE"}
           /\ Judge(p, amount, sameCurrency) = "MATCHED" => op[p] = "SUCCEEDED"
BY DEF Judge, Compare, Verdict, DiscrepancyCode

LEMMA SettlingKnows ==
    ASSUME BooksInv, SettlementInv, Settling, UNCHANGED vars
    PROVE  SettlementInv'
<1>0. \A p \in Payments : Booked(p)' <=> Booked(p)
  BY DEF vars, storeVars, budgetVars, ledgerVars, Booked, InLedger, Posted
<1>1. ASSUME NEW s \in Reports, IngestStray(s)  PROVE SettlementInv'
  BY <1>0, <1>1
     DEF SettlementInv, SettlementTypeOK, ReportKnows, IngestStray, Verdict, DiscrepancyCode
<1>2. ASSUME NEW s \in Reports, NEW p \in Payments, NEW amount, NEW sameCurrency,
             Ingest(s, p, amount, sameCurrency)
      PROVE  SettlementInv'
  <2> DEFINE v == Judge(p, amount, sameCurrency)
  <2>1. /\ verdict' = [verdict EXCEPT ![s] = v]
        /\ reportOf' = [reportOf EXCEPT ![s] = p]
    BY <1>2 DEF Ingest
  <2>2. v \in Verdict /\ (v = "MATCHED" => Booked(p))
    BY JudgeKnows DEF BooksInv
  <2> HIDE DEF v
  <2> QED  BY <1>0, <2>1, <2>2 DEF SettlementInv, SettlementTypeOK, ReportKnows
<1> QED  BY <1>1, <1>2 DEF Settling

LEMMA SettlementKeeps ==
    CoreInv /\ ChargeInv /\ BooksInv /\ SettlementInv /\ [SettlementNext]_allVars
        => SettlementInv'
<1> SUFFICES ASSUME CoreInv, ChargeInv, BooksInv, SettlementInv, [SettlementNext]_allVars
             PROVE  SettlementInv'
  OBVIOUS
<1>1. CASE Settling /\ UNCHANGED vars
  BY <1>1, SettlingKnows
<1>2. CASE [Next]_vars /\ UNCHANGED settlementVars
  <2>1. KeepsBooks \/ UNCHANGED vars
    BY <1>2, CheckoutBooks, ExecutionBooks, ProviderEventsBooks, LifecycleBooks DEF Next
  <2>2. \A p \in Payments : Booked(p) => Booked(p)'
    BY <1>2, <2>1, ConsumedStays
       DEF KeepsBooks, Booked, InLedger, Posted, vars, storeVars, ledgerVars
  <2>3. UNCHANGED <<verdict, reportOf>>
    BY <1>2 DEF settlementVars
  <2> QED  BY <2>2, <2>3 DEF SettlementInv, SettlementTypeOK, ReportKnows
<1> QED  BY <1>1, <1>2 DEF SettlementNext, allVars

LEMMA SettlementInvariant == SettlementSpec => [](BooksInv /\ ChargeInv /\ SettlementInv)
<1>1. SettlementInit => SettlementInv
  BY DEF SettlementInit, SettlementInv, SettlementTypeOK, ReportKnows, Verdict
<1> QED
  BY <1>1, CoreUndisturbed, CoreInvariant, ChargeInvariant, BooksInvariant, SettlementKeeps, PTL
     DEF SettlementSpec

\* Reports, their verdicts and the payments they are about keep their types,
\* while the payment core goes on underneath (ingest).
THEOREM SettlementTypes == SettlementSpec => []SettlementTypeOK
<1>1. SettlementInv => SettlementTypeOK
  BY DEF SettlementInv
<1> QED  BY <1>1, SettlementInvariant, PTL

\* A report that matched is about money the provider has taken and the books
\* have, at every later time too (ingest reads only the operation's status).
THEOREM MatchedBacked == SettlementSpec => []MatchedIsBacked
<1>1. BooksInv /\ ChargeInv /\ SettlementInv => MatchedIsBacked
  BY DEF SettlementInv, ReportKnows, Booked, InLedger, ChargeInv, ReservationKnows,
         MatchedIsBacked
<1> QED  BY <1>1, SettlementInvariant, PTL
=============================================================================
