----------------------------- MODULE Settlement -----------------------------
(***************************************************************************)
(* The provider's settlement reports, beside the payment core:             *)
(* webhooks.provider_settlement and SettlementRepository.ingest.  A report *)
(* names a charge by the provider's reference and may come at any time,    *)
(* before Agent-Pay knows the charge's outcome too.  It is judged once, on *)
(* what the database says at that moment, and again under the same         *)
(* settlement reference it is a duplicate.  Judging reads the core's       *)
(* tables and writes only its own.                                         *)
(***************************************************************************)
EXTENDS AgentPay

CONSTANTS
    Reports,    \* settlement references
    Observed    \* amounts a report may state

ASSUME SettlementAssumption == Observed \subseteq Nat \ {0}

\* The discrepancy_code of the reconciliation record.
DiscrepancyCode ==
    {"UNKNOWN_PROVIDER_REFERENCE", "STATUS_MISMATCH", "CURRENCY_MISMATCH",
     "AMOUNT_MISMATCH"}
Verdict == {"NONE", "MATCHED"} \cup DiscrepancyCode

VARIABLES
    verdict,    \* of each report's row in settlements and its record
    reportOf    \* the charge its provider_reference names
settlementVars == <<verdict, reportOf>>
allVars == <<vars, settlementVars>>

SettlementTypeOK ==
    /\ verdict \in [Reports -> Verdict]
    /\ reportOf \in [Reports -> Payments \cup {NoPayment}]

SettlementInit ==
    /\ verdict = [s \in Reports |-> "NONE"]
    /\ reportOf = [s \in Reports |-> NoPayment]

\* Seeded fault: of the pair compare_amounts returns, the status is kept.
FaultCompare(p, amount, sameCurrency) ==
    IF sameCurrency /\ amount = Amount[p] THEN "MATCHED" ELSE "DISCREPANCY"

\* compare_amounts: the currency first.
Compare(p, amount, sameCurrency) ==
    IF ~sameCurrency THEN "CURRENCY_MISMATCH"
    ELSE IF amount # Amount[p] THEN "AMOUNT_MISMATCH" ELSE "MATCHED"

\* Seeded fault: the operation's status is not looked at.
FaultJudge(p, amount, sameCurrency) ==
    IF opRef[p] THEN Compare(p, amount, sameCurrency)
    ELSE "UNKNOWN_PROVIDER_REFERENCE"

\* Only the CHARGE operation can be found, once its reference is stored.
Judge(p, amount, sameCurrency) ==
    IF ~opRef[p] THEN "UNKNOWN_PROVIDER_REFERENCE"
    ELSE IF op[p] # "SUCCEEDED" THEN "STATUS_MISMATCH"
    ELSE Compare(p, amount, sameCurrency)

\* A report on charge p; a duplicate changes nothing.
Ingest(s, p, amount, sameCurrency) ==
    /\ verdict[s] = "NONE"
    /\ verdict' = [verdict EXCEPT ![s] = Judge(p, amount, sameCurrency)]
    /\ reportOf' = [reportOf EXCEPT ![s] = p]

\* A report whose reference is of no charge of Agent-Pay's.
IngestStray(s) ==
    /\ verdict[s] = "NONE"
    /\ verdict' = [verdict EXCEPT ![s] = "UNKNOWN_PROVIDER_REFERENCE"]
    /\ UNCHANGED reportOf

Settling ==
    \E s \in Reports :
        \/ IngestStray(s)
        \/ \E p \in Payments, amount \in Observed, sameCurrency \in BOOLEAN :
              Ingest(s, p, amount, sameCurrency)

SettlementNext ==
    \/ Next /\ UNCHANGED settlementVars
    \/ Settling /\ UNCHANGED vars

SettlementSpec == Init /\ SettlementInit /\ [][SettlementNext]_allVars

----------------------------------------------------------------------------
\* A report that matched is about money that was taken and is in the books,
\* and stays so whatever the worker, the webhook and refunds do afterwards:
\* one status on the operation vouches for provider, budget, transactions and
\* ledger (SettlementRepository.ingest reads nothing else).
MatchedIsBacked ==
    \A s \in Reports :
        verdict[s] = "MATCHED" =>
            LET p == reportOf[s] IN
            /\ chargeResult[p] = "SUCCEEDED"
            /\ resv[p] = "CONSUMED"
            /\ Posted(p, CaptureKeys) # {}
            /\ "capture" \in journal[p]
=============================================================================
