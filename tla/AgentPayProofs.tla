--------------------------- MODULE AgentPayProofs ---------------------------
(***************************************************************************)
(* Type correctness of the payment core, the theorems about the budget,    *)
(* and that its reservations implement BudgetEscrow.                       *)
(*                                                                         *)
(* Whatever the handlers do, all they ever do to the budget tables is      *)
(* BudgetRepository's reserve, consume and release.  So the counters stay  *)
(* the sums of the reservations, the limit holds, and the reservations     *)
(* implement BudgetEscrow.                                                 *)
(*                                                                         *)
(* TypeOK says that the counters of a budget are natural numbers, which    *)
(* holds only because they are sums (BudgetInv), and a worker reads the    *)
(* payment it works on from a variable that is a payment only while it is  *)
(* not idle (JobOK): the three are inductive together.                     *)
(***************************************************************************)
EXTENDS AgentPay, MoneyProofs

BudgetTypeOK ==
    /\ resv \in [Payments -> ReservationStatus]
    /\ reserved \in [Budgets -> Nat]
    /\ consumed \in [Budgets -> Nat]

\* Inductive by itself: that the counters are sums is why they never go
\* below zero when a reservation is consumed or released.
BudgetInv ==
    /\ BudgetTypeOK
    /\ BudgetCountersExact
    /\ BudgetNeverOvercommitted

\* Everything the program ever does to the budget tables.
BudgetStep ==
    \/ \E p \in Payments : Reserve(p) \/ Consume(p) \/ Release(p)
    \/ UNCHANGED budgetVars

----------------------------------------------------------------------------
\* The holders of a budget are finitely many payments.
LEMMA HoldingType ==
    ASSUME NEW b, NEW s
    PROVE  Holding(b, s) \in SUBSET Payments /\ IsFiniteSet(Holding(b, s))
<1>1. Holding(b, s) \in SUBSET Payments
  BY DEF Holding
<1> QED  BY <1>1, StoreAssumption, FS_Subset

\* Amounts are numbers that can be summed.
LEMMA AmountType == Amount \in [Payments -> Nat]
BY StoreAssumption

\* What a change of one reservation does to the holders of a budget.
LEMMA HoldingChanges ==
    ASSUME resv \in [Payments -> ReservationStatus],
           NEW p \in Payments, NEW s \in ReservationStatus,
           resv' = [resv EXCEPT ![p] = s],
           NEW b, NEW t
    PROVE  Holding(b, t)' = IF t = s /\ b = BudgetOf[p]
                            THEN Holding(b, t) \cup {p}
                            ELSE Holding(b, t) \ {p}
BY DEF Holding

\* ... and so to the sum of their amounts.
LEMMA SumJoins ==
    ASSUME resv \in [Payments -> ReservationStatus],
           NEW p \in Payments, NEW s \in ReservationStatus, resv[p] # s,
           resv' = [resv EXCEPT ![p] = s],
           NEW b, b = BudgetOf[p]
    PROVE  Total(Holding(b, s), Amount)' = Total(Holding(b, s), Amount) + Amount[p]
<1> DEFINE H == Holding(b, s)
<1>1. Holding(b, s)' = H \cup {p}
  BY HoldingChanges
<1>2. p \notin H
  BY DEF Holding
<1>3. H \in SUBSET Payments /\ IsFiniteSet(H)
  BY HoldingType
<1> HIDE DEF H
<1>4. Total(H \cup {p}, Amount) = Total(H, Amount) + Amount[p]
  BY ONLY <1>2, <1>3, p \in Payments, AmountType, TotalAdd
<1> QED  BY <1>1, <1>4 DEF H

LEMMA SumLeaves ==
    ASSUME resv \in [Payments -> ReservationStatus],
           NEW p \in Payments, NEW s \in ReservationStatus,
           NEW t, resv[p] = t, t # s,
           resv' = [resv EXCEPT ![p] = s],
           NEW b, b = BudgetOf[p]
    PROVE  /\ Total(Holding(b, t), Amount)' = Total(Holding(b, t), Amount) - Amount[p]
           /\ Total(Holding(b, t), Amount)' \in Nat
<1> DEFINE H == Holding(b, t)
<1>1. Holding(b, t)' = H \ {p}
  BY DEF Holding
<1>2. p \in H
  BY DEF Holding
<1>3. H \in SUBSET Payments /\ IsFiniteSet(H)
  BY HoldingType
<1> HIDE DEF H
<1>4. /\ Total(H \ {p}, Amount) = Total(H, Amount) - Amount[p]
      /\ Total(H \ {p}, Amount) \in Nat
  BY <1>2, <1>3, AmountType, TotalRemove
<1> QED  BY <1>1, <1>4 DEF H

\* The holders in any other status, and of any other budget, are the same.
LEMMA SumStays ==
    ASSUME resv \in [Payments -> ReservationStatus],
           NEW p \in Payments, NEW s \in ReservationStatus,
           resv' = [resv EXCEPT ![p] = s],
           NEW b, NEW t, b # BudgetOf[p] \/ (t # s /\ t # resv[p])
    PROVE  Total(Holding(b, t), Amount)' = Total(Holding(b, t), Amount)
<1>1. Holding(b, t)' = Holding(b, t)
  BY DEF Holding
<1> QED  BY <1>1

----------------------------------------------------------------------------
(* The three operations of BudgetRepository *)

LEMMA ReserveKeepsBudget ==
    ASSUME BudgetInv, NEW p \in Payments, Reserve(p)
    PROVE  BudgetInv'
<1> DEFINE c == BudgetOf[p]
<1>1. c \in Budgets /\ Amount[p] \in Nat /\ Limit \in [Budgets -> Nat]
  BY StoreAssumption
<1>2. /\ resv \in [Payments -> ReservationStatus] /\ resv[p] = "NONE"
      /\ resv' = [resv EXCEPT ![p] = "RESERVED"]
      /\ "RESERVED" \in ReservationStatus
      /\ reserved \in [Budgets -> Nat] /\ consumed \in [Budgets -> Nat]
      /\ reserved' = [reserved EXCEPT ![c] = @ + Amount[p]]
      /\ consumed' = consumed
      /\ Limit[c] - consumed[c] - reserved[c] >= Amount[p]
  BY DEF BudgetInv, BudgetTypeOK, Reserve, Available, ReservationStatus
<1> HIDE DEF c
<1>3. BudgetTypeOK'
  <2>1. reserved' \in [Budgets -> Nat]
    BY <1>1, <1>2
  <2>2. resv' \in [Payments -> ReservationStatus]
    BY <1>2
  <2> QED  BY <1>2, <2>1, <2>2 DEF BudgetTypeOK
<1>4. BudgetCountersExact'
  <2> SUFFICES ASSUME NEW b \in Budgets
               PROVE  /\ reserved'[b] = Total(Holding(b, "RESERVED"), Amount)'
                      /\ consumed'[b] = Total(Holding(b, "CONSUMED"), Amount)'
    BY DEF BudgetCountersExact
  <2>1. /\ reserved[b] = Total(Holding(b, "RESERVED"), Amount)
        /\ consumed[b] = Total(Holding(b, "CONSUMED"), Amount)
    BY DEF BudgetInv, BudgetCountersExact
  <2>2. Total(Holding(b, "CONSUMED"), Amount)' = Total(Holding(b, "CONSUMED"), Amount)
    <3>1. Holding(b, "CONSUMED")' = Holding(b, "CONSUMED")
      BY <1>2 DEF Holding
    <3> QED  BY <3>1
  <2>3. CASE b = c
    <3>1. Total(Holding(b, "RESERVED"), Amount)'
            = Total(Holding(b, "RESERVED"), Amount) + Amount[p]
      BY <1>2, <2>3, SumJoins DEF c
    <3> QED  BY <1>1, <1>2, <2>1, <2>2, <2>3, <3>1
  <2>4. CASE b # c
    <3>1. Total(Holding(b, "RESERVED"), Amount)' = Total(Holding(b, "RESERVED"), Amount)
      BY <1>2, <2>4, SumStays DEF c
    <3> QED  BY <1>2, <2>1, <2>2, <2>4, <3>1
  <2> QED  BY <2>3, <2>4
<1>5. BudgetNeverOvercommitted'
  <2> SUFFICES ASSUME NEW b \in Budgets
               PROVE  reserved'[b] + consumed'[b] <= Limit[b]
    BY DEF BudgetNeverOvercommitted
  <2>1. reserved[b] + consumed[b] <= Limit[b]
    BY DEF BudgetInv, BudgetNeverOvercommitted
  <2> QED  BY <1>1, <1>2, <2>1
<1> QED  BY <1>3, <1>4, <1>5 DEF BudgetInv

LEMMA ConsumeKeepsBudget ==
    ASSUME BudgetInv, NEW p \in Payments, Consume(p)
    PROVE  BudgetInv'
<1> DEFINE c == BudgetOf[p]
<1>1. c \in Budgets /\ Amount[p] \in Nat /\ Limit \in [Budgets -> Nat]
  BY StoreAssumption
<1>2. CASE resv[p] = "RESERVED"
  <2>1. /\ resv \in [Payments -> ReservationStatus]
        /\ resv' = [resv EXCEPT ![p] = "CONSUMED"]
        /\ "CONSUMED" \in ReservationStatus
        /\ reserved \in [Budgets -> Nat] /\ consumed \in [Budgets -> Nat]
        /\ reserved' = [reserved EXCEPT ![c] = @ - Amount[p]]
        /\ consumed' = [consumed EXCEPT ![c] = @ + Amount[p]]
    BY <1>2 DEF BudgetInv, BudgetTypeOK, Consume, ReservationStatus
  <2> HIDE DEF c
  <2>2. BudgetCountersExact' /\ reserved'[c] \in Nat
    <3> SUFFICES ASSUME NEW b \in Budgets
                 PROVE  /\ reserved'[b] = Total(Holding(b, "RESERVED"), Amount)'
                        /\ consumed'[b] = Total(Holding(b, "CONSUMED"), Amount)'
                        /\ b = c => reserved'[b] \in Nat
      BY <1>1 DEF BudgetCountersExact
    <3>1. /\ reserved[b] = Total(Holding(b, "RESERVED"), Amount)
          /\ consumed[b] = Total(Holding(b, "CONSUMED"), Amount)
      BY DEF BudgetInv, BudgetCountersExact
    <3>2. CASE b = c
      <4>1. /\ Total(Holding(b, "RESERVED"), Amount)'
                 = Total(Holding(b, "RESERVED"), Amount) - Amount[p]
            /\ Total(Holding(b, "RESERVED"), Amount)' \in Nat
        BY <1>2, <2>1, <3>2, SumLeaves DEF c
      <4>2. Total(Holding(b, "CONSUMED"), Amount)'
              = Total(Holding(b, "CONSUMED"), Amount) + Amount[p]
        BY <1>2, <2>1, <3>2, SumJoins DEF c
      <4> QED  BY <1>1, <2>1, <3>1, <3>2, <4>1, <4>2
    <3>3. CASE b # c
      <4>1. /\ Total(Holding(b, "RESERVED"), Amount)' = Total(Holding(b, "RESERVED"), Amount)
            /\ Total(Holding(b, "CONSUMED"), Amount)' = Total(Holding(b, "CONSUMED"), Amount)
        BY <2>1, <3>3, SumStays DEF c
      <4> QED  BY <2>1, <3>1, <3>3, <4>1
    <3> QED  BY <3>2, <3>3
  <2>3. BudgetTypeOK'
    <3>1. reserved' \in [Budgets -> Nat]
      BY <1>1, <2>1, <2>2
    <3>2. consumed' \in [Budgets -> Nat]
      BY <1>1, <2>1
    <3> QED  BY <2>1, <3>1, <3>2 DEF BudgetTypeOK
  <2>4. BudgetNeverOvercommitted'
    <3> SUFFICES ASSUME NEW b \in Budgets
                 PROVE  reserved'[b] + consumed'[b] <= Limit[b]
      BY DEF BudgetNeverOvercommitted
    <3>1. reserved[b] + consumed[b] <= Limit[b]
      BY DEF BudgetInv, BudgetNeverOvercommitted
    <3> QED  BY <1>1, <2>1, <3>1
  <2> QED  BY <2>2, <2>3, <2>4 DEF BudgetInv
<1>3. CASE resv[p] # "RESERVED"
  BY <1>3 DEF Consume, budgetVars, BudgetInv, BudgetTypeOK, BudgetCountersExact,
              BudgetNeverOvercommitted, Holding
<1> QED  BY <1>2, <1>3

LEMMA ReleaseKeepsBudget ==
    ASSUME BudgetInv, NEW p \in Payments, Release(p)
    PROVE  BudgetInv'
<1> DEFINE c == BudgetOf[p]
<1>1. c \in Budgets /\ Amount[p] \in Nat /\ Limit \in [Budgets -> Nat]
  BY StoreAssumption
<1>2. CASE resv[p] = "RESERVED"
  <2>1. /\ resv \in [Payments -> ReservationStatus]
        /\ resv' = [resv EXCEPT ![p] = "RELEASED"]
        /\ "RELEASED" \in ReservationStatus
        /\ reserved \in [Budgets -> Nat] /\ consumed \in [Budgets -> Nat]
        /\ reserved' = [reserved EXCEPT ![c] = @ - Amount[p]]
        /\ consumed' = consumed
    BY <1>2 DEF BudgetInv, BudgetTypeOK, Release, ReservationStatus
  <2> HIDE DEF c
  <2>2. BudgetCountersExact' /\ reserved'[c] \in Nat
    <3> SUFFICES ASSUME NEW b \in Budgets
                 PROVE  /\ reserved'[b] = Total(Holding(b, "RESERVED"), Amount)'
                        /\ consumed'[b] = Total(Holding(b, "CONSUMED"), Amount)'
                        /\ b = c => reserved'[b] \in Nat
      BY <1>1 DEF BudgetCountersExact
    <3>1. /\ reserved[b] = Total(Holding(b, "RESERVED"), Amount)
          /\ consumed[b] = Total(Holding(b, "CONSUMED"), Amount)
      BY DEF BudgetInv, BudgetCountersExact
    <3>2. Total(Holding(b, "CONSUMED"), Amount)' = Total(Holding(b, "CONSUMED"), Amount)
      <4>1. Holding(b, "CONSUMED")' = Holding(b, "CONSUMED")
        BY <1>2, <2>1 DEF Holding
      <4> QED  BY <4>1
    <3>3. CASE b = c
      <4>1. /\ Total(Holding(b, "RESERVED"), Amount)'
                 = Total(Holding(b, "RESERVED"), Amount) - Amount[p]
            /\ Total(Holding(b, "RESERVED"), Amount)' \in Nat
        BY <1>2, <2>1, <3>3, SumLeaves DEF c
      <4> QED  BY <1>1, <2>1, <3>1, <3>2, <3>3, <4>1
    <3>4. CASE b # c
      <4>1. Total(Holding(b, "RESERVED"), Amount)' = Total(Holding(b, "RESERVED"), Amount)
        BY <2>1, <3>4, SumStays DEF c
      <4> QED  BY <2>1, <3>1, <3>2, <3>4, <4>1
    <3> QED  BY <3>3, <3>4
  <2>3. BudgetTypeOK'
    <3>1. reserved' \in [Budgets -> Nat]
      BY <1>1, <2>1, <2>2
    <3> QED  BY <2>1, <3>1 DEF BudgetTypeOK
  <2>4. BudgetNeverOvercommitted'
    <3> SUFFICES ASSUME NEW b \in Budgets
                 PROVE  reserved'[b] + consumed'[b] <= Limit[b]
      BY DEF BudgetNeverOvercommitted
    <3>1. reserved[b] + consumed[b] <= Limit[b]
      BY DEF BudgetInv, BudgetNeverOvercommitted
    <3> QED  BY <1>1, <2>1, <3>1
  <2> QED  BY <2>2, <2>3, <2>4 DEF BudgetInv
<1>3. CASE resv[p] # "RESERVED"
  BY <1>3 DEF Release, budgetVars, BudgetInv, BudgetTypeOK, BudgetCountersExact,
              BudgetNeverOvercommitted, Holding
<1> QED  BY <1>2, <1>3

\* Every step on the budget tables keeps the counters exact and in bounds.
LEMMA BudgetStepKeeps == BudgetInv /\ BudgetStep => BudgetInv'
<1>1. ASSUME BudgetInv, UNCHANGED budgetVars  PROVE BudgetInv'
  BY <1>1 DEF budgetVars, BudgetInv, BudgetTypeOK, BudgetCountersExact,
              BudgetNeverOvercommitted, Holding
<1> QED  BY <1>1, ReserveKeepsBudget, ConsumeKeepsBudget, ReleaseKeepsBudget DEF BudgetStep

\* At the start nothing is held and every counter is zero.
LEMMA BudgetInit == Init => BudgetInv
<1> SUFFICES ASSUME Init  PROVE BudgetInv
  OBVIOUS
<1>1. /\ resv = [p \in Payments |-> "NONE"]
      /\ reserved = [b \in Budgets |-> 0] /\ consumed = [b \in Budgets |-> 0]
  BY DEF Init, StoreInit
<1>2. BudgetTypeOK
  BY <1>1 DEF BudgetTypeOK, ReservationStatus
<1>3. \A b, s : s # "NONE" => Holding(b, s) = {}
  BY <1>1 DEF Holding
<1>4. BudgetCountersExact
  BY <1>1, <1>3, TotalEmpty DEF BudgetCountersExact
<1>5. BudgetNeverOvercommitted
  BY <1>1, StoreAssumption DEF BudgetNeverOvercommitted
<1> QED  BY <1>2, <1>4, <1>5 DEF BudgetInv

----------------------------------------------------------------------------
(* The reservations implement the escrow *)

\* What a budget holds and has spent, as the escrow counts it.
LEMMA ChargedTotal ==
    ASSUME BudgetInv, NEW b \in Budgets
    PROVE  Total(Escrow!Charged(b), Amount) = reserved[b] + consumed[b]
<1> DEFINE R == Holding(b, "RESERVED")
           C == Holding(b, "CONSUMED")
<1>1. Escrow!Charged(b) = R \cup C
  BY DEF Escrow!Charged, Holding
<1>2. R \cap C = {}
  BY DEF Holding
<1>3. R \in SUBSET Payments /\ IsFiniteSet(R) /\ C \in SUBSET Payments /\ IsFiniteSet(C)
  BY HoldingType
<1>4. reserved[b] = Total(R, Amount) /\ consumed[b] = Total(C, Amount)
  BY DEF BudgetInv, BudgetCountersExact
<1> HIDE DEF R, C
<1>5. Total(R \cup C, Amount) = Total(R, Amount) + Total(C, Amount)
  BY <1>2, <1>3, AmountType, TotalDisjoint
<1> QED  BY <1>1, <1>4, <1>5

\* The escrow adds up as the counters do.
LEMMA EscrowTotal == \A S, amount : Escrow!Total(S, amount) = Total(S, amount)
<1> SUFFICES ASSUME NEW S, NEW amount
             PROVE  Escrow!Total(S, amount) = Total(S, amount)
  OBVIOUS
<1>1. Escrow!Units(S, amount) = Units(S, amount)
  BY DEF Escrow!Units, Escrow!UnitsOf, Units, UnitsOf
<1>2. \A T : Escrow!Cardinality(T) = Cardinality(T)
  BY DEF Escrow!Cardinality, Cardinality
<1> QED  BY <1>1, <1>2 DEF Escrow!Total, Total

\* reserve's guard is the escrow's: what is charged and the new payment fit.
LEMMA ReserveSetsAside ==
    ASSUME BudgetInv, NEW p \in Payments, Reserve(p)
    PROVE  Escrow!SetAside(p)
<1> DEFINE c == BudgetOf[p]
           S == Escrow!Charged(c)
<1>1. c \in Budgets /\ Amount[p] \in Nat /\ Limit[c] \in Nat
  BY StoreAssumption
<1>2. /\ resv[p] = "NONE" /\ resv' = [resv EXCEPT ![p] = "RESERVED"]
      /\ Limit[c] - consumed[c] - reserved[c] >= Amount[p]
      /\ reserved[c] \in Nat /\ consumed[c] \in Nat
  BY <1>1 DEF Reserve, Available, BudgetInv, BudgetTypeOK
<1>3. S \in SUBSET Payments /\ IsFiniteSet(S) /\ p \notin S
  <2>1. S \in SUBSET Payments /\ p \notin S
    BY <1>2 DEF Escrow!Charged
  <2> QED  BY <2>1, StoreAssumption, FS_Subset
<1>4. Total(S, Amount) = reserved[c] + consumed[c]
  BY <1>1, ChargedTotal
<1> HIDE DEF S, c
<1>5. Total(S \cup {p}, Amount) = Total(S, Amount) + Amount[p]
  BY ONLY <1>3, p \in Payments, AmountType, TotalAdd
<1>6. Total(S \cup {p}, Amount) <= Limit[c]
  BY <1>1, <1>2, <1>4, <1>5
<1> QED  BY <1>2, <1>6, EscrowTotal DEF Escrow!SetAside, S, c

LEMMA BudgetStepEscrow == BudgetInv /\ BudgetStep => [Escrow!Next]_resv
<1> SUFFICES ASSUME BudgetInv, BudgetStep  PROVE [Escrow!Next]_resv
  OBVIOUS
<1>1. ASSUME NEW p \in Payments, Reserve(p)  PROVE Escrow!Next
  BY <1>1, ReserveSetsAside DEF Escrow!Next
<1>2. ASSUME NEW p \in Payments, Consume(p)  PROVE [Escrow!Next]_resv
  BY <1>2 DEF Consume, budgetVars, Escrow!Next, Escrow!Spend
<1>3. ASSUME NEW p \in Payments, Release(p)  PROVE [Escrow!Next]_resv
  BY <1>3 DEF Release, budgetVars, Escrow!Next, Escrow!GiveBack
<1> QED  BY <1>1, <1>2, <1>3 DEF BudgetStep, budgetVars

----------------------------------------------------------------------------
(* Types *)


\* A worker in the middle of process_one has a payment at hand.
JobOK == \A w \in Workers : pc[w] # "idle" => job[w] \in Payments

CoreInv == TypeOK /\ BudgetInv /\ JobOK

\* What an action has to show for CoreInv: the types of the variables that
\* are not the budget's, and that it touches the budget as it may.
RestTypeOK ==
    /\ status \in [Payments -> PaymentStatus]
    /\ op \in [Payments -> OperationStatus]
    /\ opRef \in [Payments -> BOOLEAN]
    /\ txn \in [Payments -> [TxnKeys -> TxnStatus]]
    /\ journal \in [Payments -> SUBSET JournalKeys]
    /\ events \in [Payments -> SUBSET EventType]
    /\ CheckoutTypeOK
    /\ ProviderTypeOK
    /\ ExecutionTypeOK
    /\ ProviderEventsTypeOK

----------------------------------------------------------------------------
(* The operators that set one column keep its type *)

LEMMA SetStatusType ==
    ASSUME status \in [Payments -> PaymentStatus],
           NEW p \in Payments, NEW s \in PaymentStatus, SetStatus(p, s)
    PROVE  status' \in [Payments -> PaymentStatus]
BY DEF SetStatus

LEMMA EmitType ==
    ASSUME events \in [Payments -> SUBSET EventType],
           NEW p \in Payments, NEW types \in SUBSET EventType, Emit(p, types)
    PROVE  events' \in [Payments -> SUBSET EventType]
BY DEF Emit

LEMMA WriteTxnType ==
    ASSUME txn \in [Payments -> [TxnKeys -> TxnStatus]],
           NEW p \in Payments, NEW k \in TxnKeys, NEW s \in TxnStatus,
           WriteTxn(p, k, s)
    PROVE  txn' \in [Payments -> [TxnKeys -> TxnStatus]]
BY DEF WriteTxn

LEMMA PostJournalType ==
    ASSUME journal \in [Payments -> SUBSET JournalKeys],
           NEW p \in Payments, NEW k \in JournalKeys, PostJournal(p, k)
    PROVE  journal' \in [Payments -> SUBSET JournalKeys]
BY DEF PostJournal

LEMMA SettleChargeType ==
    ASSUME op \in [Payments -> OperationStatus], opRef \in [Payments -> BOOLEAN],
           NEW p \in Payments, NEW s \in OperationStatus, SettleCharge(p, s)
    PROVE  op' \in [Payments -> OperationStatus] /\ opRef' \in [Payments -> BOOLEAN]
BY DEF SettleCharge

LEMMA MarkChargeUnknownType ==
    ASSUME op \in [Payments -> OperationStatus], opRef \in [Payments -> BOOLEAN],
           NEW p \in Payments, MarkChargeUnknown(p)
    PROVE  op' \in [Payments -> OperationStatus] /\ opRef' \in [Payments -> BOOLEAN]
BY DEF MarkChargeUnknown, OperationStatus

LEMMA OpenChargeType ==
    ASSUME op \in [Payments -> OperationStatus], opRef \in [Payments -> BOOLEAN],
           NEW p \in Payments, OpenCharge(p)
    PROVE  op' \in [Payments -> OperationStatus] /\ opRef' \in [Payments -> BOOLEAN]
BY DEF OpenCharge, OperationStatus

LEMMA CallRefundType ==
    ASSUME ProviderTypeOK, NEW p \in Payments, NEW k \in RefundKeys, NEW a,
           CallRefund(p, k, a)
    PROVE  ProviderTypeOK'
<1>1. PICK r \in Replies(refundResult[p][k]) :
        /\ refundResult' = [refundResult EXCEPT ![p] = [@ EXCEPT ![k] = r.result]]
        /\ chargeResult' = chargeResult
  BY DEF CallRefund
<1>2. r.result \in Result
  BY DEF Replies
<1>3. refundResult' \in [Payments -> [RefundKeys -> Result]]
  BY <1>1, <1>2 DEF ProviderTypeOK
<1> QED  BY <1>1, <1>3 DEF ProviderTypeOK

\* The names of the columns' values are what they are.
LEMMA Vocabulary ==
    /\ {"APPROVAL_REQUIRED", "PROCESSING", "UNKNOWN_EXTERNAL_OUTCOME", "SUCCEEDED",
        "FAILED", "VOIDED", "VOID_FAILED", "REFUND_FAILED", "REFUNDED"}
          \subseteq PaymentStatus
    /\ {"SUCCEEDED", "FAILED", "UNKNOWN"} \subseteq OperationStatus
    /\ {"PENDING", "POSTED", "FAILED"} \subseteq TxnStatus
    /\ {"capture", "capture:transaction", "capture:failed", "void", "void:failed"}
          \subseteq TxnKeys
    /\ RefundKeys \subseteq TxnKeys /\ RefundKeys \subseteq JournalKeys
    /\ "capture" \in JournalKeys
BY DEF PaymentStatus, OperationStatus, TxnStatus, TxnKeys, CaptureKeys,
       LifecycleKeys, JournalKeys

\* What stays, stays in its type.
LEMMA RestIsTyped == CoreInv => RestTypeOK
BY DEF CoreInv, TypeOK, StoreTypeOK, RestTypeOK

\* Together they are what the invariant asks of a step.
LEMMA CoreStep == CoreInv /\ RestTypeOK' /\ JobOK' /\ BudgetStep => CoreInv'
BY BudgetStepKeeps DEF CoreInv, RestTypeOK, TypeOK, StoreTypeOK, BudgetInv, BudgetTypeOK

----------------------------------------------------------------------------
(* The API *)

LEMMA SetApprovalType ==
    ASSUME CheckoutTypeOK, NEW p \in Payments, NEW s \in ApprovalStatus,
           SetApproval(p, s)
    PROVE  CheckoutTypeOK'
BY DEF CheckoutTypeOK, SetApproval

LEMMA PrepareType ==
    ASSUME RestTypeOK, NEW p \in Payments, NEW types \in SUBSET EventType,
           Prepare(p, types)
    PROVE  /\ status' \in [Payments -> PaymentStatus]
           /\ events' \in [Payments -> SUBSET EventType]
           /\ UNCHANGED <<op, opRef, txn, journal>>
           /\ Reserve(p)
<1>1. /\ Reserve(p) /\ SetStatus(p, "PROCESSING")
      /\ Emit(p, {"PaymentStarted"} \cup types)
      /\ UNCHANGED <<op, opRef, txn, journal>>
  BY DEF Prepare, operationVars, ledgerVars
<1>2. {"PaymentStarted"} \cup types \in SUBSET EventType
  BY DEF EventType
<1> QED  BY <1>1, <1>2, Vocabulary, SetStatusType, EmitType DEF RestTypeOK

LEMMA CheckoutCore ==
    ASSUME CoreInv, CheckoutNext, UNCHANGED <<providerVars, workerVars, resolved>>
    PROVE  RestTypeOK' /\ JobOK' /\ BudgetStep
<1>1. JobOK' /\ ProviderTypeOK' /\ ExecutionTypeOK' /\ ProviderEventsTypeOK'
  BY RestIsTyped DEF CoreInv, JobOK, RestTypeOK, ProviderTypeOK, ExecutionTypeOK,
      ProviderEventsTypeOK, providerVars, workerVars
<1>2. RestTypeOK
  BY RestIsTyped
<1> DEFINE Kept == UNCHANGED <<op, opRef, txn, journal>>
           Goal == /\ status' \in [Payments -> PaymentStatus]
                   /\ events' \in [Payments -> SUBSET EventType]
                   /\ CheckoutTypeOK' /\ Kept /\ BudgetStep
<1> SUFFICES Goal
  BY <1>1, <1>2 DEF RestTypeOK
<1>3. /\ {"PaymentFailed"} \in SUBSET EventType
      /\ {"ApprovalRequested"} \in SUBSET EventType
      /\ {"PaymentApproved"} \in SUBSET EventType
      /\ {"PENDING", "APPROVED", "DENIED"} \subseteq ApprovalStatus
  BY DEF EventType, ApprovalStatus
<1>4. ASSUME NEW p \in Payments, CreateRefused(p)
      PROVE  Goal
  <2>1. /\ SetStatus(p, "FAILED") /\ Emit(p, {"PaymentFailed"})
        /\ UNCHANGED <<budgetVars, operationVars, ledgerVars, checkoutVars>>
    BY <1>4 DEF CreateRefused
  <2>2. CheckoutTypeOK' /\ Kept /\ BudgetStep
    BY <1>2, <2>1 DEF CheckoutTypeOK, checkoutVars, operationVars, ledgerVars,
        BudgetStep, RestTypeOK
  <2> QED  BY <1>2, <1>3, <2>1, <2>2, Vocabulary, SetStatusType, EmitType DEF RestTypeOK
<1>5. ASSUME NEW p \in Payments, CreateForApproval(p)
      PROVE  Goal
  <2>1. /\ SetApproval(p, "PENDING")
        /\ SetStatus(p, "APPROVAL_REQUIRED") /\ Emit(p, {"ApprovalRequested"})
        /\ UNCHANGED <<budgetVars, operationVars, ledgerVars>>
    BY <1>5 DEF CreateForApproval
  <2>2. Kept /\ BudgetStep
    BY <2>1 DEF operationVars, ledgerVars, BudgetStep
  <2> QED  BY <1>2, <1>3, <2>1, <2>2, Vocabulary, SetStatusType, EmitType,
              SetApprovalType DEF RestTypeOK
<1>6. ASSUME NEW p \in Payments, CreateAllowed(p)
      PROVE  Goal
  <2>1. PICK notice \in SUBSET {"NotificationRequested"} : Prepare(p, notice)
    BY <1>6 DEF CreateAllowed
  <2>2. notice \in SUBSET EventType
    BY DEF EventType
  <2>3. CheckoutTypeOK'
    BY <1>2, <1>6 DEF CreateAllowed, CheckoutTypeOK, checkoutVars, RestTypeOK
  <2> QED  BY <1>2, <2>1, <2>2, <2>3, PrepareType DEF BudgetStep
<1>7. ASSUME NEW p \in Payments, ApprovalLapses(p)
      PROVE  Goal
  BY <1>2, <1>7 DEF ApprovalLapses, storeVars, operationVars, ledgerVars,
      CheckoutTypeOK, BudgetStep, RestTypeOK
<1>8. ASSUME NEW p \in Payments, ApprovePayment(p)
      PROVE  Goal
  <2>1. SetApproval(p, "APPROVED") /\ Prepare(p, {"PaymentApproved"})
    BY <1>8 DEF ApprovePayment
  <2>2. CheckoutTypeOK'
    BY <1>2, <1>3, <2>1, SetApprovalType DEF RestTypeOK
  <2> QED  BY <1>2, <1>3, <2>1, <2>2, PrepareType DEF BudgetStep
<1>9. ASSUME NEW p \in Payments, DenyPayment(p)
      PROVE  Goal
  <2>1. /\ SetApproval(p, "DENIED")
        /\ SetStatus(p, "FAILED") /\ Emit(p, {"PaymentFailed"})
        /\ UNCHANGED <<budgetVars, operationVars, ledgerVars>>
    BY <1>9 DEF DenyPayment
  <2>2. Kept /\ BudgetStep
    BY <2>1 DEF operationVars, ledgerVars, BudgetStep
  <2> QED  BY <1>2, <1>3, <2>1, <2>2, Vocabulary, SetStatusType, EmitType,
              SetApprovalType DEF RestTypeOK
<1> HIDE DEF Kept, Goal
<1> QED  BY <1>4, <1>5, <1>6, <1>7, <1>8, <1>9 DEF CheckoutNext

----------------------------------------------------------------------------
(* The workers *)

LEMMA DoneType ==
    ASSUME ExecutionTypeOK, ProviderTypeOK, JobOK, NEW w \in Workers, Done(w),
           batch' = batch \/ batch' = [batch EXCEPT ![w] = {}]
    PROVE  ExecutionTypeOK' /\ ProviderTypeOK' /\ JobOK'
BY DEF ExecutionTypeOK, ProviderTypeOK, JobOK, Done, PC, providerVars

\* A finalization by a worker is about the payment it has at hand.
LEMMA FinalizingType ==
    ASSUME CoreInv, NEW w \in Workers, NEW outcome, Finalizing(w, outcome)
    PROVE  ExecutionTypeOK' /\ ProviderTypeOK' /\ JobOK' /\ job[w] \in Payments
BY DoneType DEF Finalizing, CoreInv, TypeOK, JobOK

LEMMA ExecutionCore ==
    ASSUME CoreInv, ExecutionNext, UNCHANGED <<checkoutVars, resolved>>
    PROVE  RestTypeOK' /\ JobOK' /\ BudgetStep
<1>1. CheckoutTypeOK' /\ ProviderEventsTypeOK'
  BY DEF CoreInv, TypeOK, CheckoutTypeOK, ProviderEventsTypeOK, checkoutVars
<1>2. RestTypeOK /\ JobOK
  BY RestIsTyped DEF CoreInv
<1>3. ExecutionTypeOK /\ ProviderTypeOK
  BY <1>2 DEF RestTypeOK
<1> DEFINE Store == /\ status' \in [Payments -> PaymentStatus]
                    /\ op' \in [Payments -> OperationStatus]
                    /\ opRef' \in [Payments -> BOOLEAN]
                    /\ txn' \in [Payments -> [TxnKeys -> TxnStatus]]
                    /\ journal' \in [Payments -> SUBSET JournalKeys]
                    /\ events' \in [Payments -> SUBSET EventType]
           Goal == Store /\ ExecutionTypeOK' /\ ProviderTypeOK' /\ JobOK' /\ BudgetStep
<1> SUFFICES Goal
  BY <1>1, <1>2 DEF RestTypeOK
<1>4. ASSUME UNCHANGED storeVars  PROVE Store /\ BudgetStep
  BY <1>2, <1>4 DEF storeVars, operationVars, ledgerVars, BudgetStep, RestTypeOK
<1>5. /\ {"PaymentOutcomeUnknown"} \in SUBSET EventType
      /\ {"PaymentFailed"} \in SUBSET EventType
      /\ {"PaymentSucceeded"} \in SUBSET EventType
  BY DEF EventType
<1>6. ASSUME NEW w \in Workers, Claim(w)  PROVE Goal
  <2>1. UNCHANGED storeVars /\ UNCHANGED providerVars
    BY <1>6 DEF Claim
  <2>2. ExecutionTypeOK' /\ JobOK'
    BY <1>2, <1>3, <1>6 DEF Claim, Claimable, ExecutionTypeOK, JobOK
  <2>3. ProviderTypeOK'
    BY <1>3, <2>1 DEF ProviderTypeOK, providerVars
  <2> QED  BY <1>4, <2>1, <2>2, <2>3
<1>7. ASSUME NEW w \in Workers, NEW p \in Payments, Open(w, p)  PROVE Goal
  <2>1. /\ OpenCharge(p) /\ SetStatus(p, "PROCESSING")
        /\ UNCHANGED <<budgetVars, ledgerVars, events, providerVars>>
    BY <1>7 DEF Open
  <2>2. ExecutionTypeOK' /\ JobOK'
    BY <1>2, <1>3, <1>7 DEF Open, ExecutionTypeOK, JobOK, PC
  <2>3. ProviderTypeOK'
    BY <1>3, <2>1 DEF ProviderTypeOK, providerVars
  <2>4. Store
    BY <1>2, <2>1, Vocabulary, OpenChargeType, SetStatusType DEF RestTypeOK, ledgerVars
  <2>5. BudgetStep
    BY <2>1 DEF BudgetStep
  <2> QED  BY <2>2, <2>3, <2>4, <2>5
<1>8. ASSUME NEW w \in Workers, Consult(w)  PROVE Goal
  <2>1. UNCHANGED storeVars /\ UNCHANGED providerVars
    BY <1>8 DEF Consult
  <2>2. ExecutionTypeOK' /\ JobOK'
    BY <1>2, <1>3, <1>8 DEF Consult, ExecutionTypeOK, JobOK, PC
  <2>3. ProviderTypeOK'
    BY <1>3, <2>1 DEF ProviderTypeOK, providerVars
  <2> QED  BY <1>4, <2>1, <2>2, <2>3
<1>9. ASSUME NEW w \in Workers, Charge(w)  PROVE Goal
  <2>1. PICK r \in Replies(chargeResult[job[w]]) :
          /\ chargeResult' = [chargeResult EXCEPT ![job[w]] = r.result]
          /\ answer' = [answer EXCEPT ![w] = r.answer]
    BY <1>9 DEF Charge
  <2>2. r.result \in Result /\ r.answer \in Outcome
    BY DEF Replies
  <2>3. /\ pc[w] = "calling" /\ pc' = [pc EXCEPT ![w] = "answered"]
        /\ UNCHANGED storeVars /\ UNCHANGED <<refundResult, batch, job, crashes>>
    BY <1>9 DEF Charge
  <2>4. ProviderTypeOK'
    BY <1>3, <2>1, <2>2, <2>3 DEF ProviderTypeOK
  <2>5. ExecutionTypeOK' /\ JobOK'
    BY <1>2, <1>3, <2>1, <2>2, <2>3 DEF ExecutionTypeOK, JobOK, PC
  <2> QED  BY <1>4, <2>3, <2>4, <2>5
<1>10. ASSUME NEW w \in Workers, FinalizeRepeated(w)  PROVE Goal
  BY <1>2, <1>3, <1>4, <1>10, DoneType DEF FinalizeRepeated
<1>11. ASSUME NEW w \in Workers, FinalizeRejected(w)  PROVE Goal
  BY <1>2, <1>3, <1>4, <1>11, DoneType DEF FinalizeRejected
<1>12. ASSUME NEW w \in Workers, FinalizeUnknown(w)  PROVE Goal
  <2> DEFINE p == job[w]
  <2>1. /\ Finalizing(w, "UNKNOWN") /\ MarkChargeUnknown(p)
        /\ SetStatus(p, "UNKNOWN_EXTERNAL_OUTCOME")
        /\ Emit(p, {"PaymentOutcomeUnknown"})
        /\ UNCHANGED <<budgetVars, ledgerVars>>
    BY <1>12 DEF FinalizeUnknown
  <2>2. ExecutionTypeOK' /\ ProviderTypeOK' /\ JobOK' /\ p \in Payments
    BY <2>1, FinalizingType
  <2> HIDE DEF p
  <2>3. Store
    BY <1>2, <1>5, <2>1, <2>2, Vocabulary, MarkChargeUnknownType, SetStatusType,
        EmitType DEF RestTypeOK, ledgerVars
  <2>4. BudgetStep
    BY <2>1 DEF BudgetStep
  <2> QED  BY <2>2, <2>3, <2>4
<1>13. ASSUME NEW w \in Workers, FinalizeFailed(w)  PROVE Goal
  <2> DEFINE p == job[w]
  <2>1. /\ Finalizing(w, "FAILED") /\ SettleCharge(p, "FAILED") /\ Release(p)
        /\ SetStatus(p, "FAILED") /\ Emit(p, {"PaymentFailed"})
        /\ UNCHANGED ledgerVars
    BY <1>13 DEF FinalizeFailed
  <2>2. ExecutionTypeOK' /\ ProviderTypeOK' /\ JobOK' /\ p \in Payments
    BY <2>1, FinalizingType
  <2> HIDE DEF p
  <2>3. Store
    BY <1>2, <1>5, <2>1, <2>2, Vocabulary, SettleChargeType, SetStatusType,
        EmitType DEF RestTypeOK, ledgerVars
  <2>4. BudgetStep
    BY <2>1, <2>2 DEF BudgetStep
  <2> QED  BY <2>2, <2>3, <2>4
<1>14. ASSUME NEW w \in Workers, FinalizeSucceeded(w)  PROVE Goal
  <2> DEFINE p == job[w]
  <2>1. /\ Finalizing(w, "SUCCEEDED") /\ SettleCharge(p, "SUCCEEDED") /\ Consume(p)
        /\ WriteTxn(p, "capture", "POSTED") /\ PostJournal(p, "capture")
        /\ SetStatus(p, "SUCCEEDED") /\ Emit(p, {"PaymentSucceeded"})
    BY <1>14 DEF FinalizeSucceeded
  <2>2. ExecutionTypeOK' /\ ProviderTypeOK' /\ JobOK' /\ p \in Payments
    BY <2>1, FinalizingType
  <2> HIDE DEF p
  <2>3. Store
    BY <1>2, <1>5, <2>1, <2>2, Vocabulary, SettleChargeType, WriteTxnType,
        PostJournalType, SetStatusType, EmitType DEF RestTypeOK
  <2>4. BudgetStep
    BY <2>1, <2>2 DEF BudgetStep
  <2> QED  BY <2>2, <2>3, <2>4
<1>15. ASSUME NEW w \in Workers, Crash(w)  PROVE Goal
  <2>1. UNCHANGED storeVars /\ UNCHANGED providerVars
    BY <1>15 DEF Crash
  <2>2. ExecutionTypeOK' /\ JobOK'
    BY <1>2, <1>3, <1>15, ExecutionAssumption DEF Crash, ExecutionTypeOK, JobOK, PC
  <2>3. ProviderTypeOK'
    BY <1>3, <2>1 DEF ProviderTypeOK, providerVars
  <2> QED  BY <1>4, <2>1, <2>2, <2>3
<1> HIDE DEF Goal
<1> QED  BY <1>6, <1>7, <1>8, <1>9, <1>10, <1>11, <1>12, <1>13, <1>14, <1>15
         DEF ExecutionNext, WorkerStep

----------------------------------------------------------------------------
(* The webhook *)

LEMMA ProviderEventsCore ==
    ASSUME CoreInv, ProviderEventsNext, UNCHANGED <<checkoutVars, workerVars>>
    PROVE  RestTypeOK' /\ JobOK' /\ BudgetStep
<1>1. CheckoutTypeOK' /\ ExecutionTypeOK' /\ JobOK'
  BY DEF CoreInv, TypeOK, CheckoutTypeOK, ExecutionTypeOK, JobOK, checkoutVars, workerVars
<1>2. RestTypeOK
  BY RestIsTyped
<1> DEFINE Store == /\ status' \in [Payments -> PaymentStatus]
                    /\ op' \in [Payments -> OperationStatus]
                    /\ opRef' \in [Payments -> BOOLEAN]
                    /\ txn' \in [Payments -> [TxnKeys -> TxnStatus]]
                    /\ journal' \in [Payments -> SUBSET JournalKeys]
           Goal == Store /\ BudgetStep
<1>3. SUFFICES ASSUME NEW p \in Payments, Webhook(p)  PROVE Goal
  <2>1. PICK p \in Payments : Webhook(p)
    BY DEF ProviderEventsNext
  <2>2. MarkProcessed(p)
    BY <2>1 DEF Webhook, WebhookIgnored, WebhookSucceeded, WebhookFailed
  <2>3. ProviderTypeOK' /\ ProviderEventsTypeOK' /\ UNCHANGED events
    BY <1>2, <2>2 DEF MarkProcessed, ProviderTypeOK, ProviderEventsTypeOK, providerVars,
        RestTypeOK
  <2> HIDE DEF Goal
  <2>4. (\A q \in Payments : Webhook(q) => Goal) => Goal
    BY <2>1
  <2> QED  BY <1>1, <1>2, <2>3, <2>4 DEF Goal, RestTypeOK
<1>4. CASE WebhookIgnored(p)
  BY <1>2, <1>4 DEF WebhookIgnored, RestTypeOK, operationVars, ledgerVars, BudgetStep
<1>5. CASE WebhookSucceeded(p)
  <2>1. /\ SettleCharge(p, "SUCCEEDED") /\ Consume(p)
        /\ WriteTxn(p, "capture:transaction", "POSTED") /\ PostJournal(p, "capture")
        /\ SetStatus(p, "SUCCEEDED")
    BY <1>5 DEF WebhookSucceeded
  <2>2. Store
    BY <1>2, <2>1, Vocabulary, SettleChargeType, WriteTxnType, PostJournalType,
        SetStatusType DEF RestTypeOK
  <2> QED  BY <2>1, <2>2 DEF BudgetStep
<1>6. CASE WebhookFailed(p)
  <2>1. /\ SettleCharge(p, "FAILED") /\ SetStatus(p, "FAILED") /\ UNCHANGED ledgerVars
        /\ Release(p) \/ UNCHANGED budgetVars
    BY <1>6 DEF WebhookFailed
  <2>2. Store
    BY <1>2, <2>1, Vocabulary, SettleChargeType, SetStatusType DEF RestTypeOK, ledgerVars
  <2> QED  BY <2>1, <2>2 DEF BudgetStep
<1> QED  BY <1>3, <1>4, <1>5, <1>6 DEF Webhook

----------------------------------------------------------------------------
(* Capture, void and refund *)

LEMMA LifecycleCore ==
    ASSUME CoreInv, LifecycleNext, UNCHANGED <<checkoutVars, workerVars, resolved>>
    PROVE  RestTypeOK' /\ JobOK' /\ BudgetStep
<1>1. CheckoutTypeOK' /\ ExecutionTypeOK' /\ ProviderEventsTypeOK' /\ JobOK'
  BY DEF CoreInv, TypeOK, CheckoutTypeOK, ExecutionTypeOK, ProviderEventsTypeOK, JobOK,
      checkoutVars, workerVars
<1>2. RestTypeOK
  BY RestIsTyped
<1> DEFINE Apart == UNCHANGED <<budgetVars, operationVars, events>>
           Goal == /\ status' \in [Payments -> PaymentStatus]
                   /\ txn' \in [Payments -> [TxnKeys -> TxnStatus]]
                   /\ journal' \in [Payments -> SUBSET JournalKeys]
                   /\ ProviderTypeOK' /\ Apart
<1> SUFFICES Goal
  BY <1>1, <1>2 DEF RestTypeOK, operationVars, BudgetStep
<1>3. ASSUME NEW p \in Payments, NEW s \in PaymentStatus, Deciding(p, s)
      PROVE  /\ status' \in [Payments -> PaymentStatus]
             /\ ProviderTypeOK' /\ Apart
  BY <1>2, <1>3, SetStatusType DEF Deciding, RestTypeOK, ProviderTypeOK, providerVars
<1>4. ASSUME NEW p \in Payments, CaptureSucceeded(p)  PROVE Goal
  <2>1. Deciding(p, "SUCCEEDED") /\ WriteTxn(p, "capture", "POSTED")
        /\ PostJournal(p, "capture")
    BY <1>4 DEF CaptureSucceeded
  <2> QED  BY <1>2, <1>3, <2>1, Vocabulary, WriteTxnType, PostJournalType DEF RestTypeOK
<1>5. ASSUME NEW p \in Payments, CaptureFailed(p)  PROVE Goal
  <2>1. Deciding(p, "FAILED") /\ WriteTxn(p, "capture:failed", "FAILED")
        /\ UNCHANGED journal
    BY <1>5 DEF CaptureFailed
  <2> QED  BY <1>2, <1>3, <2>1, Vocabulary, WriteTxnType DEF RestTypeOK
<1>6. ASSUME NEW p \in Payments, VoidSucceeded(p)  PROVE Goal
  <2>1. Deciding(p, "VOIDED") /\ WriteTxn(p, "void", "POSTED") /\ UNCHANGED journal
    BY <1>6 DEF VoidSucceeded
  <2> QED  BY <1>2, <1>3, <2>1, Vocabulary, WriteTxnType DEF RestTypeOK
<1>7. ASSUME NEW p \in Payments, VoidFailed(p)  PROVE Goal
  <2>1. Deciding(p, "VOID_FAILED") /\ WriteTxn(p, "void:failed", "FAILED")
        /\ UNCHANGED journal
    BY <1>7 DEF VoidFailed
  <2> QED  BY <1>2, <1>3, <2>1, Vocabulary, WriteTxnType DEF RestTypeOK
<1>8. ASSUME NEW p \in Payments, CaptureOrVoidUnknown(p)  PROVE Goal
  <2>1. Deciding(p, "UNKNOWN_EXTERNAL_OUTCOME") /\ UNCHANGED ledgerVars
    BY <1>8 DEF CaptureOrVoidUnknown
  <2> QED  BY <1>2, <1>3, <2>1, Vocabulary DEF RestTypeOK, ledgerVars
<1>9. ASSUME NEW p \in Payments, NEW key \in RefundKeys, NEW a, Refunding(p, key, a)
      PROVE  ProviderTypeOK' /\ Apart
  BY <1>2, <1>9, CallRefundType DEF Refunding, RestTypeOK
<1>10. ASSUME NEW p \in Payments, NEW key \in RefundKeys, RefundUnknown(p, key)
       PROVE  Goal
  <2>1. /\ Refunding(p, key, "UNKNOWN") /\ WriteTxn(p, key, "PENDING")
        /\ SetStatus(p, "UNKNOWN_EXTERNAL_OUTCOME") /\ UNCHANGED journal
    BY <1>10 DEF RefundUnknown
  <2> QED  BY <1>2, <1>9, <2>1, Vocabulary, WriteTxnType, SetStatusType DEF RestTypeOK
<1>11. ASSUME NEW p \in Payments, NEW key \in RefundKeys, RefundFailed(p, key)
       PROVE  Goal
  <2>1. /\ Refunding(p, key, "FAILED") /\ WriteTxn(p, key, "FAILED")
        /\ SetStatus(p, "REFUND_FAILED") /\ UNCHANGED journal
    BY <1>11 DEF RefundFailed
  <2> QED  BY <1>2, <1>9, <2>1, Vocabulary, WriteTxnType, SetStatusType DEF RestTypeOK
<1>12. ASSUME NEW p \in Payments, NEW key \in RefundKeys, RefundSucceeded(p, key)
       PROVE  Goal
  <2>1. /\ Refunding(p, key, "SUCCEEDED") /\ WriteTxn(p, key, "POSTED")
        /\ PostJournal(p, key)
        /\ SetStatus(p, "REFUNDED") \/ SetStatus(p, "SUCCEEDED")
    BY <1>12 DEF RefundSucceeded
  <2> QED  BY <1>2, <1>9, <2>1, Vocabulary, WriteTxnType, PostJournalType, SetStatusType
           DEF RestTypeOK
<1>13. ASSUME NEW p \in Payments, NEW key \in RefundKeys, RefundRolledBack(p, key)
       PROVE  Goal
  <2>1. UNCHANGED storeVars /\ \E a \in Outcome : CallRefund(p, key, a)
    BY <1>13 DEF RefundRolledBack
  <2>2. ProviderTypeOK'
    BY <1>2, <2>1, CallRefundType DEF RestTypeOK
  <2> QED  BY <1>2, <2>1, <2>2 DEF RestTypeOK, storeVars, operationVars, ledgerVars
<1> HIDE DEF Goal
<1> QED  BY <1>4, <1>5, <1>6, <1>7, <1>8, <1>10, <1>11, <1>12, <1>13 DEF LifecycleNext

----------------------------------------------------------------------------
(* The theorems *)

LEMMA CoreInit == Init => CoreInv
<1> SUFFICES ASSUME Init  PROVE CoreInv
  OBVIOUS
<1>1. BudgetInv
  BY BudgetInit
<1>2. RestTypeOK
  BY StoreAssumption, ExecutionAssumption
     DEF Init, StoreInit, CheckoutInit, ProviderInit, ExecutionInit, ProviderEventsInit,
         RestTypeOK, CheckoutTypeOK, ProviderTypeOK, ExecutionTypeOK, ProviderEventsTypeOK,
         PaymentStatus, OperationStatus, TxnStatus, ApprovalStatus, Result, PC
<1>3. JobOK
  BY DEF Init, ExecutionInit, JobOK
<1> QED  BY <1>1, <1>2, <1>3 DEF CoreInv, TypeOK, StoreTypeOK, RestTypeOK, BudgetInv,
             BudgetTypeOK

\* Whatever the step, the budget tables change as BudgetRepository may.
LEMMA NextCore == CoreInv /\ [Next]_vars => RestTypeOK' /\ JobOK' /\ BudgetStep
<1> SUFFICES ASSUME CoreInv, [Next]_vars  PROVE RestTypeOK' /\ JobOK' /\ BudgetStep
  OBVIOUS
<1>1. CASE UNCHANGED vars
  BY <1>1, RestIsTyped
     DEF vars, storeVars, operationVars, ledgerVars, checkoutVars, providerVars, workerVars,
         RestTypeOK, CheckoutTypeOK, ProviderTypeOK, ExecutionTypeOK, ProviderEventsTypeOK,
         CoreInv, JobOK, BudgetStep
<1>2. CASE Next
  BY <1>2, CheckoutCore, ExecutionCore, ProviderEventsCore, LifecycleCore DEF Next
<1> QED  BY <1>1, <1>2

LEMMA CoreInvariant == Spec => []CoreInv
<1>1. CoreInv /\ [Next]_vars => CoreInv'
  BY NextCore, CoreStep
<1> QED  BY CoreInit, <1>1, PTL DEF Spec

\* Every table, every memory of a worker and the provider stay in their types;
\* in particular no counter of a budget ever goes below zero (consume and
\* release subtract what reserve added, once).
THEOREM TypeCorrect == Spec => []TypeOK
BY CoreInvariant, PTL DEF CoreInv

\* For any number of payments, budgets and workers: the counters of a budget
\* are the sums of its reservations (finalize, the resolver and prepare).
THEOREM CountersExact == Spec => []BudgetCountersExact
BY CoreInvariant, PTL DEF CoreInv, BudgetInv

\* No budget is overcommitted, however many requests compete for it
\* (BudgetRepository.reserve).
THEOREM NeverOvercommitted == Spec => []BudgetNeverOvercommitted
BY CoreInvariant, PTL DEF CoreInv, BudgetInv

\* The payment core implements BudgetEscrow: a reservation is set aside once
\* and within the limit, then spent or given back once.
THEOREM ImplementsEscrow == Spec => EscrowKept
<1>1. Init => Escrow!Init
  BY DEF Init, StoreInit, Escrow!Init
<1>2. CoreInv /\ [Next]_vars => [Escrow!Next]_resv
  BY NextCore, BudgetStepEscrow DEF CoreInv
<1> QED  BY CoreInvariant, <1>1, <1>2, PTL DEF Spec, EscrowKept, Escrow!Spec
=============================================================================
