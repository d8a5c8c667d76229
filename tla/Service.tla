------------------------------ MODULE Service -------------------------------
(***************************************************************************)
(* PaymentService: the in-memory checkout, with the in-process Budget, the *)
(* PaymentRouter and the rails behind it, called by several threads.       *)
(*                                                                         *)
(* A call is one create_payment with its intent.  Between two steps of a   *)
(* call another thread may run: the service reads and writes its           *)
(* idempotency dictionary without a lock, and only the Budget has one.     *)
(* What a call works out from values that do not change (the policy's      *)
(* decision, the route) is part of the step that looks the key up.         *)
(*                                                                         *)
(* The rails keep one result per idempotency key, which the service makes  *)
(* from the payment's id; what the rail decides for a new key is open.     *)
(* Amounts are counted in the grains of a Decimal, Grain of which make the *)
(* minor unit in which a rail is charged.                                  *)
(***************************************************************************)
EXTENDS Policy, Money

CONSTANTS
    Calls,      \* calls of create_payment
    IntentOf,   \* the intent of each call
    Rulebooks,  \* the policies the service may be set up with
    Routes,     \* PaymentRouter._routes, in the order of registration
    Nothing,    \* no rail, no answer, no entry
    Limit,      \* Budget.limit
    Grain       \* grains in a minor unit

Amount == [c \in Calls |-> IntentOf[c].amount]
Keys == {IntentOf[c].key : c \in Calls}
PaymentIds == {IntentOf[c].payment : c \in Calls}

\* PaymentIntent, whose Money is never negative.
Intents ==
    [key : Keys,
     payment : PaymentIds,
     agent : {IntentOf[c].agent : c \in Calls},
     amount : Nat,
     names : [Dimensions -> Name \cup {Absent}],
     at : [weekday : 0..6, time : Instants] \cup {Absent}]

Rails == {Routes[n].rail : n \in DOMAIN Routes}
Outcomes == {"SUCCEEDED", "FAILED", "UNKNOWN_EXTERNAL_OUTCOME"}
CallStatus == Outcomes \cup {"APPROVAL_REQUIRED"}
Result == [status : CallStatus, decision : Decisions]
Entry == [by : Calls, result : Result]
RailEntry == [outcome : Outcomes, minor : Nat]

ASSUME ServiceAssumption ==
    /\ IsFiniteSet(Calls)
    /\ \A c \in Calls : IntentOf[c] \in Intents
    /\ \A book \in Rulebooks : WellFormed(book)
    /\ DOMAIN Routes \subseteq Nat
    /\ Limit \in Nat
    /\ Grain \in Nat \ {0}
    /\ Nothing \notin Rails \cup Outcomes \cup Result \cup Entry \cup RailEntry

VARIABLES
    rules,      \* what the service's SpendingPolicy was made from
    pc,         \* where each call is
    answer,     \* what the rail answered it
    result,     \* its PaymentResult
    recorded,   \* PaymentService._idempotency
    reserved,   \* Budget.reserved
    consumed,   \* Budget.consumed
    charged     \* SimulatedPaymentRail._results, with the amount charged

budgetVars == <<reserved, consumed>>
serviceVars == <<rules, pc, answer, result, recorded, budgetVars, charged>>

policy == FromRules(rules)

ServiceTypeOK ==
    /\ rules \in Rulebooks
    /\ pc \in [Calls -> {"idle", "reserve", "charge", "settle", "record",
                         "done", "raised"}]
    /\ answer \in [Calls -> Outcomes \cup {Nothing}]
    /\ result \in [Calls -> Result \cup {Nothing}]
    /\ recorded \in [Keys -> Entry \cup {Nothing}]
    /\ reserved \in Nat /\ consumed \in Nat
    /\ charged \in [Rails -> [PaymentIds -> RailEntry \cup {Nothing}]]

ServiceInit ==
    /\ rules \in Rulebooks
    /\ pc = [c \in Calls |-> "idle"]
    /\ answer = [c \in Calls |-> Nothing]
    /\ result = [c \in Calls |-> Nothing]
    /\ recorded = [k \in Keys |-> Nothing]
    /\ reserved = 0 /\ consumed = 0
    /\ charged = [r \in Rails |-> [p \in PaymentIds |-> Nothing]]

----------------------------------------------------------------------------
(* PaymentIntent, PaymentRouter *)

\* Seeded fault: the names are not part of the fingerprint.
FaultFingerprint(i) == <<i.agent, i.amount, i.payment>>

Fingerprint(i) ==
    <<i.agent, i.names["domain"], i.amount, i.names["currency"], i.payment>>

\* An empty set of a route matches everything.  Names are compared as they
\* are written.
Matches(route, i) ==
    /\ route.domains = {} \/ i.names["domain"] \in route.domains
    /\ route.currencies = {} \/ i.names["currency"] \in route.currencies

\* for_payment: the first route that matches, or ProviderRoutingError.
RailFor(i) ==
    LET hits == {n \in DOMAIN Routes : Matches(Routes[n], i)}
    IN  IF hits = {} THEN Nothing
        ELSE Routes[CHOOSE n \in hits : \A m \in hits : n <= m].rail

----------------------------------------------------------------------------
(* Budget *)

Available == Limit - consumed - reserved

\* Seeded fault: a reservation is granted while anything at all is left.
FaultReserve(amount) ==
    /\ Available > 0
    /\ reserved' = reserved + amount
    /\ UNCHANGED consumed

Reserve(amount) ==
    /\ amount <= Available
    /\ reserved' = reserved + amount
    /\ UNCHANGED consumed

\* Seeded fault: what is given back is taken from what has been spent.
FaultReleaseHold(amount) ==
    /\ amount <= reserved
    /\ consumed' = consumed - amount
    /\ UNCHANGED reserved

ReleaseHold(amount) ==
    /\ amount <= reserved
    /\ reserved' = reserved - amount
    /\ UNCHANGED consumed

ConsumeHold(amount) ==
    /\ amount <= reserved
    /\ reserved' = reserved - amount
    /\ consumed' = consumed + amount

----------------------------------------------------------------------------
(* create_payment *)

Goto(c, place) == pc' = [pc EXCEPT ![c] = place]

Conclude(c, status, decision) ==
    result' = [result EXCEPT ![c] = [status |-> status, decision |-> decision]]

DecisionOn(c) == Evaluate(policy, IntentOf[c])

\* The key is on record: the same intent is answered, another one refused.
Replay(c) ==
    LET entry == recorded[IntentOf[c].key]
    IN  /\ pc[c] = "idle"
        /\ entry # Nothing
        /\ IF Fingerprint(IntentOf[entry.by]) = Fingerprint(IntentOf[c])
           THEN /\ Goto(c, "done")
                /\ result' = [result EXCEPT ![c] = entry.result]
           ELSE /\ Goto(c, "raised")
                /\ UNCHANGED result
        /\ UNCHANGED <<rules, answer, recorded, budgetVars, charged>>

\* The key is new and the policy does not let the payment proceed.
Withhold(c) ==
    /\ pc[c] = "idle"
    /\ recorded[IntentOf[c].key] = Nothing
    /\ \/ /\ DecisionOn(c) = "DENY"
          /\ Conclude(c, "FAILED", "DENY")
       \/ /\ DecisionOn(c) = "REQUIRE_APPROVAL"
          /\ Conclude(c, "APPROVAL_REQUIRED", "REQUIRE_APPROVAL")
    /\ Goto(c, "record")
    /\ UNCHANGED <<rules, answer, recorded, budgetVars, charged>>

\* Seeded fault: money is set aside before a route has been found.
FaultRoute(c) ==
    /\ pc[c] = "idle"
    /\ recorded[IntentOf[c].key] = Nothing
    /\ DecisionOn(c) \in {"ALLOW_AUTO", "ALLOW_NOTIFY"}
    /\ Reserve(Amount[c])
    /\ Goto(c, IF RailFor(IntentOf[c]) = Nothing THEN "raised" ELSE "charge")
    /\ UNCHANGED <<rules, answer, result, recorded, charged>>

\* The key is new and the payment allowed: it needs a route.
Route(c) ==
    /\ pc[c] = "idle"
    /\ recorded[IntentOf[c].key] = Nothing
    /\ DecisionOn(c) \in {"ALLOW_AUTO", "ALLOW_NOTIFY"}
    /\ Goto(c, IF RailFor(IntentOf[c]) = Nothing THEN "raised" ELSE "reserve")
    /\ UNCHANGED <<rules, answer, result, recorded, budgetVars, charged>>

\* Budget.reserve: it raises for an amount of nothing, and answers whether
\* the amount fits.
SetAside(c) ==
    /\ pc[c] = "reserve"
    /\ \/ /\ Amount[c] = 0
          /\ Goto(c, "raised")
          /\ UNCHANGED <<result, budgetVars>>
       \/ /\ Amount[c] > Available
          /\ Conclude(c, "FAILED", "DENY")
          /\ Goto(c, "record")
          /\ UNCHANGED budgetVars
       \/ /\ Amount[c] > 0
          /\ Reserve(Amount[c])
          /\ Goto(c, "charge")
          /\ UNCHANGED result
    /\ UNCHANGED <<rules, answer, recorded, charged>>

\* Seeded fault: an amount is rounded up to the next minor unit.
FaultMinor(amount) == (amount + Grain - 1) \div Grain

\* int(amount * 100): what is less than a minor unit is dropped.
Minor(amount) == amount \div Grain

\* provider.charge: a key the rail knows is answered as before, whatever
\* the amount; for a new one it keeps what it decides.
AskRail(c) ==
    LET r == RailFor(IntentOf[c])
        p == IntentOf[c].payment
    IN  /\ pc[c] = "charge"
        /\ \E outcome \in Outcomes :
             /\ IF charged[r][p] = Nothing
                THEN charged' = [charged EXCEPT ![r][p] =
                        [outcome |-> outcome, minor |-> Minor(Amount[c])]]
                ELSE /\ charged[r][p].outcome = outcome
                     /\ UNCHANGED charged
             /\ answer' = [answer EXCEPT ![c] = outcome]
        /\ Goto(c, "settle")
        /\ UNCHANGED <<rules, result, recorded, budgetVars>>

\* The rest of _execute: consume, release, or keep the money set aside.
Settle(c) ==
    /\ pc[c] = "settle"
    /\ \/ answer[c] = "SUCCEEDED" /\ ConsumeHold(Amount[c])
       \/ answer[c] = "FAILED" /\ ReleaseHold(Amount[c])
       \/ answer[c] = "UNKNOWN_EXTERNAL_OUTCOME" /\ UNCHANGED budgetVars
    /\ Conclude(c, answer[c], DecisionOn(c))
    /\ Goto(c, "record")
    /\ UNCHANGED <<rules, answer, recorded, charged>>

\* The entry is written whoever wrote one in the meantime.
Record(c) ==
    /\ pc[c] = "record"
    /\ recorded' = [recorded EXCEPT ![IntentOf[c].key] =
                        [by |-> c, result |-> result[c]]]
    /\ Goto(c, "done")
    /\ UNCHANGED <<rules, answer, result, budgetVars, charged>>

ServiceNext ==
    \E c \in Calls :
        \/ Replay(c) \/ Withhold(c) \/ Route(c) \/ SetAside(c)
        \/ AskRail(c) \/ Settle(c) \/ Record(c)

ServiceSpec == ServiceInit /\ [][ServiceNext]_serviceVars

----------------------------------------------------------------------------
(* What the service promises *)

\* What has become of the money of call c.
Hold(c) ==
    IF pc[c] \in {"charge", "settle"} THEN "RESERVED"
    ELSE CASE answer[c] = Nothing -> "NONE"
           [] answer[c] = "SUCCEEDED" -> "CONSUMED"
           [] answer[c] = "FAILED" -> "RELEASED"
           [] OTHER -> "RESERVED"

Holding(h) == {c \in Calls : Hold(c) = h}

Escrow == INSTANCE BudgetEscrow WITH
              Payments <- Calls,
              Budgets <- {"budget"},
              BudgetOf <- [c \in Calls |-> "budget"],
              Limit <- [b \in {"budget"} |-> Limit],
              hold <- [c \in Calls |-> Hold(c)]

\* However the threads interleave, the in-process Budget keeps the promise of
\* BudgetEscrow to each call: its money is set aside only if everything held
\* and spent still fits the limit, and is then spent or given back once.
HoldsInService == Escrow!Spec

\* The two counters of the Budget are the money of the calls that hold some
\* and of those that have spent it; so a call that raises (no route, nothing
\* to pay, a key in conflict) leaves nothing reserved behind, and consume and
\* release, which raise when less is reserved than they take, never do.
ReservedIsExplained ==
    /\ reserved = Total(Holding("RESERVED"), Amount)
    /\ consumed = Total(Holding("CONSUMED"), Amount)

\* The charges that moved money, or may have.
Taken ==
    {x \in Rails \X PaymentIds :
        /\ charged[x[1]][x[2]] # Nothing
        /\ charged[x[1]][x[2]].outcome # "FAILED"}

\* What the rails have taken, or may have taken where the outcome is unknown,
\* is covered by what the Budget holds and has spent, in spite of repeated
\* calls, of the conversion to minor units and of answers still to be acted on.
ChargedIsCovered ==
    Total(Taken, [x \in Taken |-> Grain * charged[x[1]][x[2]].minor])
        <= reserved + consumed

\* A result that lets the payment proceed reports what the rail of the call's
\* own intent has decided about the call's own payment, also when it was
\* replayed from the record or made by one of several overlapping calls.
AnswersAreTrue ==
    \A c \in Calls :
        result[c] # Nothing /\ result[c].decision \in {"ALLOW_AUTO", "ALLOW_NOTIFY"}
        => \E r \in Rails :
             LET entry == charged[r][IntentOf[c].payment]
             IN  /\ r = RailFor(IntentOf[c])
                 /\ entry # Nothing /\ entry.outcome = result[c].status

----------------------------------------------------------------------------
(* What the policy promises *)

\* Asking for more is never decided more permissively, whatever the limit and
\* the two thresholds of the policy, and in whatever order they are.
StricterForMore ==
    \A c, d \in Calls :
        Amount[c] <= Amount[d] =>
          Severity(DecisionOn(c)) <=
            Severity(Evaluate(policy, [IntentOf[c] EXCEPT !.amount = Amount[d]]))

\* A policy refuses a call for its time exactly if it asks for a time that the
\* intent lacks, or the time is on another day or not on the way around the
\* clock from the start to the end, which may pass midnight or be open.
HoursAreKept ==
    \A c \in Calls :
        LET at == IntentOf[c].at
        IN  ~OffSchedule(policy, IntentOf[c]) <=>
              /\ rules.weekdays # Absent =>
                   at # Absent /\ at.weekday \in rules.weekdays
              /\ {rules.start, rules.end} # {Absent} =>
                   at # Absent /\ OnArc(at.time, rules.start, rules.end)

\* Whether name n of a rule is the name call c has in dimension d, in whatever
\* letter case and with whatever blanks the two are written.
Concerns(n, c, d) ==
    IntentOf[c].names[d] # Absent /\ IntentOf[c].names[d].word = n.word

\* Money is never set aside for a word outside the policy's list where there
\* is one, and for a word the policy denies only through a rule that from_rules
\* misreads: one written with blanks, on a currency, region or instrument.
\* Denials of categories and domains, and all that have no blanks, are kept.
OnlyPaddedDenialsEscape ==
    \A c \in Calls, d \in Dimensions : Hold(c) # "NONE" =>
        /\ rules.allow[d] # Absent => \E n \in rules.allow[d] : Concerns(n, c, d)
        /\ \A n \in rules.deny[d] : Concerns(n, c, d) =>
              n.padded /\ d \in {"currency", "region", "instrument"}

\* What docs/security/phase-16-multidimensional-policy.md says, that dimensions
\* are normalized before they are compared and that any deny denies: no money
\* is ever set aside for a word that a rule denies.  The code breaks it where
\* from_rules does not strip the rule.
DeniedNeverCharged ==
    \A c \in Calls, d \in Dimensions : Hold(c) # "NONE" =>
        \A n \in rules.deny[d] : ~Concerns(n, c, d)
=============================================================================
