--------------------------- MODULE ServiceProofs ----------------------------
(***************************************************************************)
(* The in-memory service, for any calls, policies, routes and limit: all   *)
(* that ever happens to its Budget is that a call's money is set aside,    *)
(* spent or given back, once.                                              *)
(***************************************************************************)
EXTENDS Service, MoneyProofs, WellFoundedInduction

\* What has become of the money of each call.
holds == [c \in Calls |-> Hold(c)]

\* A call has an answer from its rail exactly when it has got that far.
AnswerKnows ==
    \A c \in Calls :
        /\ pc[c] \in {"idle", "reserve", "charge"} => answer[c] = Nothing
        /\ pc[c] = "settle" => answer[c] # Nothing

CallsOK ==
    /\ pc \in [Calls -> {"idle", "reserve", "charge", "settle", "record",
                         "done", "raised"}]
    /\ answer \in [Calls -> Outcomes \cup {Nothing}]

\* Inductive: that the counters are sums is why they stay numbers, and that a
\* call past the rail has its answer is why what it holds does not change when
\* it is recorded.
HoldInv ==
    /\ CallsOK
    /\ AnswerKnows
    /\ reserved \in Nat /\ consumed \in Nat
    /\ ReservedIsExplained

\* Everything a step may do to the Budget and to the money of the calls.
BudgetStep(c) ==
    \/ /\ Hold(c) = "NONE" /\ holds' = [holds EXCEPT ![c] = "RESERVED"]
       /\ Reserve(Amount[c])
    \/ /\ Hold(c) = "RESERVED" /\ holds' = [holds EXCEPT ![c] = "CONSUMED"]
       /\ ConsumeHold(Amount[c])
    \/ /\ Hold(c) = "RESERVED" /\ holds' = [holds EXCEPT ![c] = "RELEASED"]
       /\ ReleaseHold(Amount[c])
    \/ UNCHANGED <<holds, budgetVars>>

----------------------------------------------------------------------------
LEMMA AmountType == Amount \in [Calls -> Nat]
BY ServiceAssumption DEF Amount, Intents

LEMMA NoOutcome == Nothing \notin Outcomes
BY ServiceAssumption

LEMMA HoldingType ==
    ASSUME NEW h
    PROVE  Holding(h) \in SUBSET Calls /\ IsFiniteSet(Holding(h))
<1>1. Holding(h) \in SUBSET Calls
  BY DEF Holding
<1> QED  BY <1>1, ServiceAssumption, FS_Subset

\* A step of call c that leaves the other calls' money alone.
LEMMA OneHoldChanges ==
    ASSUME NEW c \in Calls, NEW h, Hold(c)' = h,
           \A d \in Calls \ {c} : pc'[d] = pc[d] /\ answer'[d] = answer[d]
    PROVE  holds' = [holds EXCEPT ![c] = h]
<1>1. \A d \in Calls \ {c} : Hold(d)' = Hold(d)
  BY DEF Hold
<1> QED  BY <1>1 DEF holds

\* What a step that changes one call's money does to the sums.
LEMMA SumJoins ==
    ASSUME NEW c \in Calls, NEW h, Hold(c) # h, holds' = [holds EXCEPT ![c] = h]
    PROVE  Total(Holding(h), Amount)' = Total(Holding(h), Amount) + Amount[c]
<1> DEFINE H == Holding(h)
<1>1. Holding(h)' = H \cup {c}
  BY DEF Holding, holds
<1>2. c \notin H
  BY DEF Holding
<1>3. H \in SUBSET Calls /\ IsFiniteSet(H)
  BY HoldingType
<1> HIDE DEF H
<1>4. Total(H \cup {c}, Amount) = Total(H, Amount) + Amount[c]
  BY ONLY <1>2, <1>3, c \in Calls, AmountType, TotalAdd
<1> QED  BY <1>1, <1>4 DEF H

LEMMA SumLeaves ==
    ASSUME NEW c \in Calls, NEW h, NEW g, Hold(c) = g, g # h,
           holds' = [holds EXCEPT ![c] = h]
    PROVE  /\ Total(Holding(g), Amount)' = Total(Holding(g), Amount) - Amount[c]
           /\ Total(Holding(g), Amount)' \in Nat
<1> DEFINE H == Holding(g)
<1>1. Holding(g)' = H \ {c}
  BY DEF Holding, holds
<1>2. c \in H
  BY DEF Holding
<1>3. H \in SUBSET Calls /\ IsFiniteSet(H)
  BY HoldingType
<1> HIDE DEF H
<1>4. /\ Total(H \ {c}, Amount) = Total(H, Amount) - Amount[c]
      /\ Total(H \ {c}, Amount) \in Nat
  BY ONLY <1>2, <1>3, AmountType, TotalRemove
<1> QED  BY <1>1, <1>4 DEF H

LEMMA SumStays ==
    ASSUME NEW c \in Calls, NEW h, NEW g, Hold(c) # g, g # h,
           holds' = [holds EXCEPT ![c] = h]
    PROVE  Total(Holding(g), Amount)' = Total(Holding(g), Amount)
<1>1. Holding(g)' = Holding(g)
  BY DEF Holding, holds
<1> QED  BY <1>1

LEMMA SameHolds ==
    ASSUME UNCHANGED holds, NEW g
    PROVE  Holding(g)' = Holding(g)
BY DEF Holding, holds

\* The counters go along with the money, and stay numbers.
LEMMA BudgetStepExplained ==
    ASSUME HoldInv, NEW c \in Calls, BudgetStep(c)
    PROVE  /\ reserved' \in Nat
           /\ consumed' \in Nat
           /\ ReservedIsExplained'
<1> USE DEF HoldInv, ReservedIsExplained
<1>0. Amount[c] \in Nat
  BY AmountType
<1>1. CASE /\ Hold(c) = "NONE" /\ holds' = [holds EXCEPT ![c] = "RESERVED"]
           /\ Reserve(Amount[c])
  <2>1. Total(Holding("RESERVED"), Amount)' =
          Total(Holding("RESERVED"), Amount) + Amount[c]
    BY <1>1, SumJoins
  <2>2. Total(Holding("CONSUMED"), Amount)' = Total(Holding("CONSUMED"), Amount)
    BY <1>1, SumStays
  <2> QED  BY <1>0, <1>1, <2>1, <2>2 DEF Reserve
<1>2. CASE /\ Hold(c) = "RESERVED" /\ holds' = [holds EXCEPT ![c] = "CONSUMED"]
           /\ ConsumeHold(Amount[c])
  <2>1. /\ Total(Holding("RESERVED"), Amount)' =
             Total(Holding("RESERVED"), Amount) - Amount[c]
        /\ Total(Holding("RESERVED"), Amount)' \in Nat
    BY <1>2, SumLeaves
  <2>2. Total(Holding("CONSUMED"), Amount)' =
          Total(Holding("CONSUMED"), Amount) + Amount[c]
    BY <1>2, SumJoins
  <2> QED  BY <1>0, <1>2, <2>1, <2>2 DEF ConsumeHold
<1>3. CASE /\ Hold(c) = "RESERVED" /\ holds' = [holds EXCEPT ![c] = "RELEASED"]
           /\ ReleaseHold(Amount[c])
  <2>1. /\ Total(Holding("RESERVED"), Amount)' =
             Total(Holding("RESERVED"), Amount) - Amount[c]
        /\ Total(Holding("RESERVED"), Amount)' \in Nat
    BY <1>3, SumLeaves
  <2>2. Total(Holding("CONSUMED"), Amount)' = Total(Holding("CONSUMED"), Amount)
    BY <1>3, SumStays
  <2> QED  BY <1>0, <1>3, <2>1, <2>2 DEF ReleaseHold
<1>4. CASE UNCHANGED <<holds, budgetVars>>
  <2>1. \A g : Holding(g)' = Holding(g)
    BY <1>4, SameHolds
  <2> QED  BY <1>4, <2>1 DEF budgetVars
<1> QED  BY <1>1, <1>2, <1>3, <1>4 DEF BudgetStep

----------------------------------------------------------------------------
(* What each step does to the money *)

\* A step that only moves call c within create_payment, before it holds money
\* or after it has an answer.
LEMMA Moves ==
    ASSUME HoldInv, NEW c \in Calls, NEW place,
           \/ /\ pc[c] \in {"idle", "reserve"}
              /\ place \in {"reserve", "record", "done", "raised"}
           \/ pc[c] = "record" /\ place = "done",
           Goto(c, place), UNCHANGED <<answer, budgetVars>>
    PROVE  CallsOK' /\ AnswerKnows' /\ BudgetStep(c)
<1> USE DEF HoldInv, CallsOK, AnswerKnows, Goto
<1>1. CallsOK' /\ AnswerKnows'
  OBVIOUS
<1>2. Hold(c)' = Hold(c)
  BY DEF Hold
<1>3. holds' = [holds EXCEPT ![c] = Hold(c)]
  BY <1>2, OneHoldChanges
<1>4. holds' = holds
  BY <1>3 DEF holds
<1> QED  BY <1>1, <1>4 DEF BudgetStep

LEMMA SetAsideMoves ==
    ASSUME HoldInv, NEW c \in Calls, SetAside(c)
    PROVE  CallsOK' /\ AnswerKnows' /\ BudgetStep(c)
<1>0. pc[c] = "reserve" /\ UNCHANGED answer
  BY DEF SetAside
<1>1. CASE Goto(c, "raised") /\ UNCHANGED budgetVars
  BY <1>0, <1>1, Moves
<1>2. CASE Goto(c, "record") /\ UNCHANGED budgetVars
  BY <1>0, <1>2, Moves
<1>3. CASE Reserve(Amount[c]) /\ Goto(c, "charge")
  <2> USE DEF HoldInv, CallsOK, AnswerKnows, Goto
  <2>1. CallsOK' /\ AnswerKnows'
    BY <1>0, <1>3
  <2>2. Hold(c) = "NONE" /\ Hold(c)' = "RESERVED"
    BY <1>0, <1>3, NoOutcome DEF Hold, Outcomes
  <2>3. holds' = [holds EXCEPT ![c] = "RESERVED"]
    BY <1>0, <1>3, <2>2, OneHoldChanges
  <2> QED  BY <1>3, <2>1, <2>2, <2>3 DEF BudgetStep
<1> QED  BY <1>1, <1>2, <1>3 DEF SetAside

LEMMA AskRailMoves ==
    ASSUME HoldInv, NEW c \in Calls, AskRail(c)
    PROVE  CallsOK' /\ AnswerKnows' /\ BudgetStep(c)
<1> USE DEF HoldInv, CallsOK, AnswerKnows, Goto
<1>1. PICK outcome \in Outcomes : answer' = [answer EXCEPT ![c] = outcome]
  BY DEF AskRail
<1>2. pc[c] = "charge" /\ Goto(c, "settle") /\ UNCHANGED budgetVars
  BY DEF AskRail
<1>3. CallsOK' /\ AnswerKnows'
  BY <1>1, <1>2, NoOutcome
<1>4. Hold(c) = "RESERVED" /\ Hold(c)' = "RESERVED"
  BY <1>1, <1>2 DEF Hold
<1>5. holds' = [holds EXCEPT ![c] = "RESERVED"]
  BY <1>1, <1>2, <1>4, OneHoldChanges
<1>6. holds' = holds
  BY <1>4, <1>5 DEF holds
<1> QED  BY <1>2, <1>3, <1>6 DEF BudgetStep

LEMMA SettleMoves ==
    ASSUME HoldInv, NEW c \in Calls, Settle(c)
    PROVE  CallsOK' /\ AnswerKnows' /\ BudgetStep(c)
<1> USE DEF HoldInv, CallsOK, AnswerKnows, Goto
<1>1. pc[c] = "settle" /\ Goto(c, "record") /\ UNCHANGED answer
  BY DEF Settle
<1>2. CallsOK' /\ AnswerKnows'
  BY <1>1
<1>3. Hold(c) = "RESERVED"
  BY <1>1 DEF Hold
<1>4. \A d \in Calls \ {c} : pc'[d] = pc[d] /\ answer'[d] = answer[d]
  BY <1>1
<1>5. CASE answer[c] = "SUCCEEDED" /\ ConsumeHold(Amount[c])
  <2>1. Hold(c)' = "CONSUMED"
    BY <1>1, <1>5, NoOutcome DEF Hold, Outcomes
  <2>2. holds' = [holds EXCEPT ![c] = "CONSUMED"]
    BY <1>4, <2>1, OneHoldChanges
  <2> QED  BY <1>2, <1>3, <1>5, <2>2 DEF BudgetStep
<1>6. CASE answer[c] = "FAILED" /\ ReleaseHold(Amount[c])
  <2>1. Hold(c)' = "RELEASED"
    BY <1>1, <1>6, NoOutcome DEF Hold, Outcomes
  <2>2. holds' = [holds EXCEPT ![c] = "RELEASED"]
    BY <1>4, <2>1, OneHoldChanges
  <2> QED  BY <1>2, <1>3, <1>6, <2>2 DEF BudgetStep
<1>7. CASE answer[c] = "UNKNOWN_EXTERNAL_OUTCOME" /\ UNCHANGED budgetVars
  <2>1. Hold(c)' = "RESERVED"
    BY <1>1, <1>7, NoOutcome DEF Hold, Outcomes
  <2>2. holds' = [holds EXCEPT ![c] = "RESERVED"]
    BY <1>4, <2>1, OneHoldChanges
  <2>3. holds' = holds
    BY <1>3, <2>2 DEF holds
  <2> QED  BY <1>2, <1>7, <2>3 DEF BudgetStep
<1> QED  BY <1>5, <1>6, <1>7 DEF Settle

LEMMA ServiceMoves ==
    ASSUME HoldInv, NEW c \in Calls,
           \/ Replay(c) \/ Withhold(c) \/ Route(c) \/ SetAside(c)
           \/ AskRail(c) \/ Settle(c) \/ Record(c)
    PROVE  CallsOK' /\ AnswerKnows' /\ BudgetStep(c)
<1>1. CASE Replay(c)
  <2>1. Goto(c, "done") \/ Goto(c, "raised")
    BY <1>1 DEF Replay
  <2>2. pc[c] = "idle" /\ UNCHANGED <<answer, budgetVars>>
    BY <1>1 DEF Replay
  <2> QED  BY <2>1, <2>2, Moves
<1>2. CASE Withhold(c)
  BY <1>2, Moves DEF Withhold
<1>3. CASE Route(c)
  <2>1. Goto(c, "raised") \/ Goto(c, "reserve")
    BY <1>3 DEF Route
  <2>2. pc[c] = "idle" /\ UNCHANGED <<answer, budgetVars>>
    BY <1>3 DEF Route
  <2> QED  BY <2>1, <2>2, Moves
<1>4. CASE SetAside(c)
  BY <1>4, SetAsideMoves
<1>5. CASE AskRail(c)
  BY <1>5, AskRailMoves
<1>6. CASE Settle(c)
  BY <1>6, SettleMoves
<1>7. CASE Record(c)
  BY <1>7, Moves DEF Record
<1> QED  BY <1>1, <1>2, <1>3, <1>4, <1>5, <1>6, <1>7

----------------------------------------------------------------------------
(* Theorems *)

LEMMA HoldInit == ServiceInit => HoldInv
<1> SUFFICES ASSUME ServiceInit PROVE HoldInv
  OBVIOUS
<1> USE DEF ServiceInit
<1>1. CallsOK /\ AnswerKnows /\ reserved \in Nat /\ consumed \in Nat
  BY DEF CallsOK, AnswerKnows
<1>2. \A c \in Calls : Hold(c) = "NONE"
  BY NoOutcome DEF Hold, Outcomes
<1>3. Holding("RESERVED") = {} /\ Holding("CONSUMED") = {}
  BY <1>2 DEF Holding
<1>4. ReservedIsExplained
  BY <1>3, TotalEmpty DEF ReservedIsExplained
<1> QED  BY <1>1, <1>4 DEF HoldInv

LEMMA Stutters ==
    ASSUME UNCHANGED serviceVars
    PROVE  UNCHANGED <<pc, answer, holds, reserved, consumed>>
BY DEF serviceVars, budgetVars, holds, Hold

LEMMA HoldStep == HoldInv /\ [ServiceNext]_serviceVars => HoldInv'
<1> SUFFICES ASSUME HoldInv, [ServiceNext]_serviceVars PROVE HoldInv'
  OBVIOUS
<1>1. CASE ServiceNext
  <2>1. PICK c \in Calls :
          \/ Replay(c) \/ Withhold(c) \/ Route(c) \/ SetAside(c)
          \/ AskRail(c) \/ Settle(c) \/ Record(c)
    BY <1>1 DEF ServiceNext
  <2>2. CallsOK' /\ AnswerKnows' /\ BudgetStep(c)
    BY <2>1, ServiceMoves
  <2> QED  BY <2>2, BudgetStepExplained DEF HoldInv
<1>2. CASE UNCHANGED serviceVars
  <2>1. UNCHANGED <<pc, answer, holds, reserved, consumed>>
    BY <1>2, Stutters
  <2>2. \A g : Holding(g)' = Holding(g)
    BY <2>1, SameHolds
  <2> QED  BY <2>1, <2>2 DEF HoldInv, CallsOK, AnswerKnows, ReservedIsExplained
<1> QED  BY <1>1, <1>2

LEMMA HoldInvariant == ServiceSpec => []HoldInv
<1> QED  BY HoldInit, HoldStep, PTL DEF ServiceSpec

\* Whatever calls are made and however they interleave, the Budget's counters
\* are the money of the calls that hold some and of those that have spent it.
THEOREM ReservedExplained == ServiceSpec => []ReservedIsExplained
<1>1. HoldInv => ReservedIsExplained
  BY DEF HoldInv
<1> QED  BY <1>1, HoldInvariant, PTL

\* The guard on the counters is the escrow's guard on the sum.
LEMMA RoomLeft ==
    ASSUME HoldInv, NEW c \in Calls, Hold(c) = "NONE", Amount[c] <= Available
    PROVE  Total(Escrow!Charged("budget") \cup {c}, Amount) <= Limit
<1> DEFINE R == Holding("RESERVED")
           S == Holding("CONSUMED")
<1>1. Escrow!Charged("budget") = R \cup S
  BY DEF Escrow!Charged, Holding
<1>2. /\ R \in SUBSET Calls /\ IsFiniteSet(R)
      /\ S \in SUBSET Calls /\ IsFiniteSet(S)
  BY HoldingType
<1>3. R \cap S = {} /\ c \notin R \cup S
  BY DEF Holding
<1>4. Total(R, Amount) = reserved /\ Total(S, Amount) = consumed
  BY DEF HoldInv, ReservedIsExplained
<1>5. Limit \in Nat /\ reserved \in Nat /\ consumed \in Nat /\ Amount[c] \in Nat
  BY ServiceAssumption, AmountType DEF HoldInv
<1> HIDE DEF R, S
<1>6. Total(R \cup S, Amount) = Total(R, Amount) + Total(S, Amount)
  BY ONLY <1>2, <1>3, AmountType, TotalDisjoint
<1>7. IsFiniteSet(R \cup S) /\ R \cup S \in SUBSET Calls
  BY ONLY <1>2, FS_Union
<1> DEFINE U == R \cup S
<1>8. /\ U \in SUBSET Calls /\ IsFiniteSet(U) /\ c \notin U
      /\ Escrow!Charged("budget") = U
      /\ Total(U, Amount) = reserved + consumed
  BY <1>1, <1>3, <1>4, <1>6, <1>7
<1> HIDE DEF U
<1>9. Total(U \cup {c}, Amount) = Total(U, Amount) + Amount[c]
  BY ONLY <1>8, c \in Calls, AmountType, TotalAdd
<1>10. reserved + consumed + Amount[c] <= Limit
  BY <1>5 DEF Available
<1> QED  BY <1>8, <1>9, <1>10

\* Escrow's copy of the sum is the same sum.
LEMMA SameTotal == \A S, amount : Escrow!Total(S, amount) = Total(S, amount)
<1> SUFFICES ASSUME NEW S, NEW amount
             PROVE  Escrow!Total(S, amount) = Total(S, amount)
  OBVIOUS
<1>1. Escrow!Units(S, amount) = Units(S, amount)
  BY DEF Escrow!Units, Escrow!UnitsOf, Units, UnitsOf
<1>2. \A T : Escrow!Cardinality(T) = Cardinality(T)
  BY DEF Escrow!Cardinality, Cardinality
<1> QED  BY <1>1, <1>2 DEF Escrow!Total, Total

LEMMA BudgetStepEscrow ==
    ASSUME HoldInv, NEW c \in Calls, BudgetStep(c)
    PROVE  Escrow!Next \/ UNCHANGED holds
<1>1. CASE /\ Hold(c) = "NONE" /\ holds' = [holds EXCEPT ![c] = "RESERVED"]
           /\ Reserve(Amount[c])
  <2>1. Total(Escrow!Charged("budget") \cup {c}, Amount) <= Limit
    BY <1>1, RoomLeft DEF Reserve
  <2>2. /\ [d \in Calls |-> "budget"][c] = "budget"
        /\ [b \in {"budget"} |-> Limit]["budget"] = Limit
    OBVIOUS
  <2>3. Escrow!SetAside(c)
    BY <1>1, <2>1, <2>2, SameTotal DEF Escrow!SetAside, holds
  <2> QED  BY <2>3 DEF Escrow!Next
<1>2. CASE Hold(c) = "RESERVED" /\ holds' = [holds EXCEPT ![c] = "CONSUMED"]
  <2>1. Escrow!Spend(c)
    BY <1>2 DEF Escrow!Spend, holds
  <2> QED  BY <2>1 DEF Escrow!Next
<1>3. CASE Hold(c) = "RESERVED" /\ holds' = [holds EXCEPT ![c] = "RELEASED"]
  <2>1. Escrow!GiveBack(c)
    BY <1>3 DEF Escrow!GiveBack, holds
  <2> QED  BY <2>1 DEF Escrow!Next
<1> QED  BY <1>1, <1>2, <1>3 DEF BudgetStep

\* The in-process Budget implements BudgetEscrow, as the one in the database
\* does.
THEOREM ServiceKeepsEscrow == ServiceSpec => HoldsInService
<1>1. ServiceInit => Escrow!Init
  <2> SUFFICES ASSUME ServiceInit PROVE Escrow!Init
    OBVIOUS
  <2>1. \A c \in Calls : Hold(c) = "NONE"
    BY NoOutcome DEF ServiceInit, Hold, Outcomes
  <2> QED  BY <2>1 DEF Escrow!Init
<1>2. HoldInv /\ [ServiceNext]_serviceVars => [Escrow!Next]_holds
  <2> SUFFICES ASSUME HoldInv, [ServiceNext]_serviceVars
               PROVE  Escrow!Next \/ UNCHANGED holds
    OBVIOUS
  <2>1. CASE ServiceNext
    <3>1. PICK c \in Calls :
            \/ Replay(c) \/ Withhold(c) \/ Route(c) \/ SetAside(c)
            \/ AskRail(c) \/ Settle(c) \/ Record(c)
      BY <2>1 DEF ServiceNext
    <3>2. BudgetStep(c)
      BY <3>1, ServiceMoves
    <3> QED  BY <3>2, BudgetStepEscrow
  <2>2. CASE UNCHANGED serviceVars
    BY <2>2, Stutters
  <2> QED  BY <2>1, <2>2
<1> QED  BY <1>1, <1>2, HoldInvariant, PTL
         DEF ServiceSpec, HoldsInService, Escrow!Spec, holds

----------------------------------------------------------------------------
(* The policy *)

\* The policy is what from_rules makes of one of the rule books.
LEMMA RulesInvariant == ServiceSpec => [](rules \in Rulebooks)
<1>1. ServiceInit => rules \in Rulebooks
  BY DEF ServiceInit
<1>2. rules \in Rulebooks /\ [ServiceNext]_serviceVars => (rules \in Rulebooks)'
  <2> SUFFICES ASSUME rules \in Rulebooks, [ServiceNext]_serviceVars
               PROVE  rules' = rules
    OBVIOUS
  <2> QED  BY DEF ServiceNext, serviceVars, Replay, Withhold, Route, SetAside,
                  AskRail, Settle, Record
<1> QED  BY <1>1, <1>2, PTL DEF ServiceSpec

LEMMA PolicyType ==
    ASSUME rules \in Rulebooks
    PROVE  /\ policy.limit \in Int
           /\ policy.approval \in Int \cup {Absent}
           /\ policy.notify \in Int \cup {Absent}
           /\ policy.weekdays = rules.weekdays
           /\ policy.start = rules.start /\ policy.start \in Instants \cup {Absent}
           /\ policy.end = rules.end /\ policy.end \in Instants \cup {Absent}
<1>1. WellFormed(rules)
  BY ServiceAssumption
<1> QED  BY <1>1 DEF WellFormed, policy, FromRules

\* Two intents that differ in the amount only.
LEMMA MoreIsStricter ==
    ASSUME NEW book, book.limit \in Int,
           book.approval \in Int \cup {Absent}, book.notify \in Int \cup {Absent},
           NEW i, NEW j, i.amount \in Nat, j.amount \in Nat,
           i.amount <= j.amount, i.names = j.names, i.at = j.at
    PROVE  Severity(Evaluate(book, i)) <= Severity(Evaluate(book, j))
<1>1. Denies(book, i) => Denies(book, j)
  BY DEF Denies, NameRefused, OffSchedule
<1>2. Above(i.amount, book.approval) => Above(j.amount, book.approval)
  BY PolicyAssumption DEF Above
<1>3. Above(i.amount, book.notify) => Above(j.amount, book.notify)
  BY PolicyAssumption DEF Above
<1> QED  BY <1>1, <1>2, <1>3 DEF Evaluate, Severity

\* Whatever the limit and the two thresholds of a policy, and in whatever order
\* they are, asking for more is never decided more permissively.
THEOREM MoreNeverEasier == ServiceSpec => []StricterForMore
<1>1. rules \in Rulebooks => StricterForMore
  <2> SUFFICES ASSUME rules \in Rulebooks, NEW c \in Calls, NEW d \in Calls,
                      Amount[c] <= Amount[d]
               PROVE  Severity(DecisionOn(c)) <= Severity(Evaluate(policy,
                         [IntentOf[c] EXCEPT !.amount = Amount[d]]))
    BY DEF StricterForMore
  <2> DEFINE more == [IntentOf[c] EXCEPT !.amount = Amount[d]]
  <2>1. IntentOf[c] \in Intents /\ Amount[c] = IntentOf[c].amount
    BY ServiceAssumption DEF Amount
  <2>2. /\ more.amount = Amount[d] /\ more.names = IntentOf[c].names
        /\ more.at = IntentOf[c].at
    BY <2>1 DEF Intents
  <2>3. Amount[c] \in Nat /\ Amount[d] \in Nat
    BY AmountType
  <2> HIDE DEF more
  <2>4. Severity(Evaluate(policy, IntentOf[c])) <= Severity(Evaluate(policy, more))
    BY <2>1, <2>2, <2>3, PolicyType, MoreIsStricter
  <2> QED  BY <2>4 DEF more, DecisionOn
<1> QED  BY <1>1, RulesInvariant, PTL

\* The way forward around the clock, from one instant to another.
LEMMA AroundTheClock ==
    ASSUME NEW x \in Int, -Day < x, x < Day
    PROVE  x % Day = IF x >= 0 THEN x ELSE x + Day
BY PolicyAssumption

\* The code's comparisons and the arc of the clock face say the same.
LEMMA WindowIsArc ==
    ASSUME NEW t \in Instants,
           NEW s \in Instants \cup {Absent}, NEW e \in Instants \cup {Absent}
    PROVE  TimeInWindow(t, s, e) <=> OnArc(t, s, e)
<1> DEFINE u == IF s = Absent THEN 0 ELSE s
           v == IF e = Absent THEN Day - 1 ELSE e
<1>0. Day \in Nat \ {0} /\ Absent \notin Int
  BY PolicyAssumption
<1>1. /\ t \in Int /\ 0 <= t /\ t < Day
      /\ u \in Int /\ 0 <= u /\ u < Day
      /\ v \in Int /\ 0 <= v /\ v < Day
  BY <1>0 DEF Instants
<1>2. /\ (t - u) % Day = IF t >= u THEN t - u ELSE t - u + Day
      /\ (v - u) % Day = IF v >= u THEN v - u ELSE v - u + Day
  <2>1. /\ t - u \in Int /\ -Day < t - u /\ t - u < Day
        /\ v - u \in Int /\ -Day < v - u /\ v - u < Day
    BY <1>0, <1>1
  <2> HIDE DEF u, v
  <2>2. (t - u) % Day = IF t - u >= 0 THEN t - u ELSE t - u + Day
    BY <2>1, AroundTheClock
  <2>3. (v - u) % Day = IF v - u >= 0 THEN v - u ELSE v - u + Day
    BY <2>1, AroundTheClock
  <2>4. (t - u >= 0 <=> t >= u) /\ (v - u >= 0 <=> v >= u)
    BY <1>1
  <2> QED  BY <2>2, <2>3, <2>4
<1>3. OnArc(t, s, e) <=> IF t >= u THEN v >= u => t <= v
                                   ELSE v < u /\ t <= v
  <2>1. OnArc(t, s, e) <=> (t - u) % Day <= (v - u) % Day
    BY DEF OnArc
  <2> HIDE DEF u, v
  <2> QED  BY <1>0, <1>1, <1>2, <2>1
<1>4. CASE s = Absent /\ e = Absent
  <2>1. TimeInWindow(t, s, e) /\ u = 0 /\ v = Day - 1
    BY <1>4 DEF TimeInWindow
  <2> QED  BY <1>0, <1>1, <1>3, <2>1
<1>5. CASE s = Absent /\ e # Absent
  <2>1. (TimeInWindow(t, s, e) <=> t <= e) /\ u = 0 /\ v = e
    BY <1>5 DEF TimeInWindow
  <2> QED  BY <1>1, <1>3, <2>1
<1>6. CASE s # Absent /\ e = Absent
  <2>1. (TimeInWindow(t, s, e) <=> t >= s) /\ u = s /\ v = Day - 1
    BY <1>6 DEF TimeInWindow
  <2> QED  BY <1>0, <1>1, <1>3, <2>1
<1>7. CASE s # Absent /\ e # Absent
  <2>1. /\ TimeInWindow(t, s, e) <=> IF s <= e THEN s <= t /\ t <= e
                                               ELSE t >= s \/ t <= e
        /\ u = s /\ v = e
    BY <1>7 DEF TimeInWindow
  <2> QED  BY <1>1, <1>3, <2>1
<1> QED  BY <1>4, <1>5, <1>6, <1>7

\* A policy refuses a call for its time exactly if the time is missing where
\* it is asked for, on another day, or not on the arc from start to end.
THEOREM HoursKept == ServiceSpec => []HoursAreKept
<1>1. rules \in Rulebooks => HoursAreKept
  <2> SUFFICES ASSUME rules \in Rulebooks, NEW c \in Calls
               PROVE  ~OffSchedule(policy, IntentOf[c]) <=>
                        /\ rules.weekdays # Absent =>
                             /\ IntentOf[c].at # Absent
                             /\ IntentOf[c].at.weekday \in rules.weekdays
                        /\ {rules.start, rules.end} # {Absent} =>
                             /\ IntentOf[c].at # Absent
                             /\ OnArc(IntentOf[c].at.time, rules.start, rules.end)
    BY DEF HoursAreKept
  <2>1. IntentOf[c].at # Absent => IntentOf[c].at.time \in Instants
    BY ServiceAssumption DEF Intents
  <2>2. IntentOf[c].at # Absent =>
          (TimeInWindow(IntentOf[c].at.time, rules.start, rules.end) <=>
             OnArc(IntentOf[c].at.time, rules.start, rules.end))
    BY <2>1, PolicyType, WindowIsArc
  <2> QED  BY <2>2, PolicyType DEF OffSchedule
<1> QED  BY <1>1, RulesInvariant, PTL

----------------------------------------------------------------------------
(* Routes *)

\* Every set of natural numbers has a least one.
LEMMA LeastNumber ==
    ASSUME NEW T, T \subseteq Nat, T # {}
    PROVE  \E n \in T : \A m \in T : n <= m
<1> DEFINE R == OpToRel(<, Nat)
<1>1. IsWellFoundedOn(R, Nat)
  BY NatLessThanWellFounded
<1>2. \A x, y \in Nat : ~(<<y, x>> \in R) => x <= y
  BY DEF OpToRel
<1> HIDE DEF R
<1>3. PICK n \in T : \A m \in T : ~(<<m, n>> \in R)
  BY <1>1, WFMin
<1>4. \A m \in T : n <= m
  BY <1>2, <1>3, n \in Nat
<1> QED  BY <1>4

\* for_payment answers with the rail of a route, or not at all.
LEMMA RailType ==
    ASSUME NEW i
    PROVE  RailFor(i) \in Rails \cup {Nothing}
<1> DEFINE hits == {n \in DOMAIN Routes : Matches(Routes[n], i)}
           first == CHOOSE n \in hits : \A m \in hits : n <= m
<1>1. CASE hits = {}
  BY <1>1 DEF RailFor
<1>2. CASE hits # {}
  <2>1. hits \subseteq Nat
    BY ServiceAssumption
  <2>2. first \in hits
    <3>1. \E n \in hits : \A m \in hits : n <= m
      BY <1>2, <2>1, LeastNumber
    <3> QED  BY <3>1
  <2>3. RailFor(i) = Routes[first].rail
    BY <1>2 DEF RailFor
  <2> QED  BY <2>2, <2>3 DEF Rails
<1> QED  BY <1>1, <1>2

\* The fingerprint settles which rail is asked about which payment: a result
\* replayed for the same fingerprint is about the same charge.
LEMMA FingerprintSettlesCharge ==
    ASSUME NEW i, NEW j, Fingerprint(i) = Fingerprint(j)
    PROVE  RailFor(i) = RailFor(j) /\ i.payment = j.payment
<1>1. /\ i.names["domain"] = j.names["domain"]
      /\ i.names["currency"] = j.names["currency"]
      /\ i.payment = j.payment
  BY DEF Fingerprint
<1>2. \A route : Matches(route, i) <=> Matches(route, j)
  BY <1>1 DEF Matches
<1> DEFINE hits(k) == {n \in DOMAIN Routes : Matches(Routes[n], k)}
           rail(H) == IF H = {} THEN Nothing
                      ELSE Routes[CHOOSE n \in H : \A m \in H : n <= m].rail
<1>3. hits(i) = hits(j)
  BY <1>2
<1>4. RailFor(i) = rail(hits(i)) /\ RailFor(j) = rail(hits(j))
  BY DEF RailFor
<1> HIDE DEF hits, rail
<1>5. rail(hits(i)) = rail(hits(j))
  BY <1>3
<1> QED  BY <1>1, <1>4, <1>5

LEMMA DecisionType == \A c : DecisionOn(c) \in Decisions
BY DEF DecisionOn, Evaluate, Decisions

----------------------------------------------------------------------------
(* What the rails have decided *)

Permitting == {"ALLOW_AUTO", "ALLOW_NOTIFY"}
Rail(c) == RailFor(IntentOf[c])

\* What the rail of call c has on record for its payment.
Asked(c) == charged[Rail(c)][IntentOf[c].payment]

\* A call that has got past the policy and the router was let past both.
PermitOK ==
    \A c \in Calls :
        pc[c] \in {"reserve", "charge", "settle"} \/ answer[c] # Nothing
        => DecisionOn(c) \in Permitting /\ Rail(c) \in Rails

\* What a call was answered is what its rail has on record.
AskedOK ==
    \A c \in Calls :
        answer[c] # Nothing => Asked(c) # Nothing /\ Asked(c).outcome = answer[c]

\* A result that is true of call c.
Honest(c, res) ==
    res.decision \in Permitting =>
        /\ Rail(c) \in Rails
        /\ Asked(c) # Nothing /\ Asked(c).outcome = res.status

ResultsOK ==
    \A c \in Calls :
        /\ pc[c] = "record" => result[c] \in Result
        /\ result[c] # Nothing => Honest(c, result[c])

RecordsOK ==
    \A k \in Keys :
        recorded[k] # Nothing => Honest(recorded[k].by, recorded[k].result)

\* Behind each entry of a rail is the call that made it, and it still knows.
Behind(c, r, p) ==
    /\ Rail(c) = r /\ IntentOf[c].payment = p
    /\ answer[c] = charged[r][p].outcome
    /\ charged[r][p].minor = Minor(Amount[c])

BackedOK ==
    \A r \in Rails, p \in PaymentIds :
        charged[r][p] # Nothing => \E c \in Calls : Behind(c, r, p)

\* Inductive, with HoldInv: that the record is true is why a replay is, and
\* that a call's answer is on the rail's record is why its result is.
CallInv ==
    /\ ServiceTypeOK
    /\ PermitOK
    /\ AskedOK
    /\ ResultsOK
    /\ RecordsOK
    /\ BackedOK

\* What no step of call c undoes: a rail's entry, an answer, and whatever the
\* other calls are at.
Keeps(c) ==
    /\ rules' = rules
    /\ \A r \in Rails, p \in PaymentIds :
         charged[r][p] # Nothing => charged'[r][p] = charged[r][p]
    /\ \A d \in Calls : answer[d] # Nothing => answer'[d] = answer[d]
    /\ \A d \in Calls \ {c} :
         pc'[d] = pc[d] /\ answer'[d] = answer[d] /\ result'[d] = result[d]

\* The rail answers call c as before, or with what it decides now.
Answers(c, outcome) ==
    /\ IF Asked(c) = Nothing
       THEN charged' = [charged EXCEPT ![Rail(c)][IntentOf[c].payment] =
               [outcome |-> outcome, minor |-> Minor(Amount[c])]]
       ELSE Asked(c).outcome = outcome /\ UNCHANGED charged
    /\ answer' = [answer EXCEPT ![c] = outcome]

ServiceStep(c) ==
    \/ Replay(c) \/ Withhold(c) \/ Route(c) \/ SetAside(c)
    \/ AskRail(c) \/ Settle(c) \/ Record(c)

LEMMA IntentType ==
    \A c \in Calls : /\ IntentOf[c].key \in Keys
                     /\ IntentOf[c].payment \in PaymentIds
                     /\ Rail(c) \in Rails \cup {Nothing}
BY RailType DEF Keys, PaymentIds, Rail

LEMMA NotNothing ==
    /\ Nothing \notin Rails /\ Nothing \notin Outcomes /\ Nothing \notin Result
    /\ Nothing \notin Entry /\ Nothing \notin RailEntry
BY ServiceAssumption

LEMMA MinorType == \A a \in Nat : Minor(a) \in Nat /\ Grain * Minor(a) <= a
BY ServiceAssumption DEF Minor

LEMMA RailAnswers ==
    ASSUME NEW c \in Calls, AskRail(c)
    PROVE  \E outcome \in Outcomes : Answers(c, outcome)
BY DEF AskRail, Answers, Asked, Rail

LEMMA StepKeeps ==
    ASSUME HoldInv, CallInv, NEW c \in Calls, ServiceStep(c)
    PROVE  Keeps(c)
<1> USE DEF CallInv, ServiceTypeOK, Keeps, Goto, Conclude
<1>1. CASE AskRail(c)
  <2>1. PICK outcome \in Outcomes : Answers(c, outcome)
    BY <1>1, RailAnswers
  <2>2. answer[c] = Nothing /\ pc' = [pc EXCEPT ![c] = "settle"]
        /\ UNCHANGED <<rules, result>>
    BY <1>1 DEF AskRail, HoldInv, AnswerKnows
  <2>3. \A r \in Rails, p \in PaymentIds :
          charged[r][p] # Nothing => charged'[r][p] = charged[r][p]
    BY <2>1 DEF Answers, Asked
  <2> QED  BY <2>1, <2>2, <2>3 DEF Answers
<1>2. CASE Replay(c) \/ Withhold(c) \/ Route(c)
  BY <1>2 DEF Replay, Withhold, Route
<1>3. CASE SetAside(c) \/ Settle(c) \/ Record(c)
  BY <1>3 DEF SetAside, Settle, Record
<1> QED  BY <1>1, <1>2, <1>3 DEF ServiceStep

\* The policy does not change, so neither does what it says.
LEMMA DecisionStays == rules' = rules => \A c : DecisionOn(c)' = DecisionOn(c)
BY DEF DecisionOn, policy

\* What is true of a call stays true of it.
LEMMA HonestStays ==
    ASSUME NEW c \in Calls, NEW d \in Calls, Keeps(c), NEW res, Honest(d, res)
    PROVE  Honest(d, res)'
BY IntentType DEF Honest, Keeps, Asked, Rail

LEMMA StepTypes ==
    ASSUME HoldInv, HoldInv', CallInv, NEW c \in Calls, ServiceStep(c)
    PROVE  ServiceTypeOK'
<1> USE DEF CallInv, ServiceTypeOK, Goto, Conclude
<1>1. /\ rules' \in Rulebooks
      /\ pc' \in [Calls -> {"idle", "reserve", "charge", "settle", "record",
                            "done", "raised"}]
      /\ answer' \in [Calls -> Outcomes \cup {Nothing}]
      /\ reserved' \in Nat /\ consumed' \in Nat
  BY StepKeeps DEF Keeps, HoldInv, CallsOK
<1>2. result' \in [Calls -> Result \cup {Nothing}]
  <2>1. CASE Replay(c)
    <3>1. recorded[IntentOf[c].key] \in Entry
      BY <2>1, IntentType DEF Replay
    <3>2. recorded[IntentOf[c].key].result \in Result
      BY <3>1 DEF Entry
    <3> QED  BY <2>1, <3>2 DEF Replay
  <2>2. CASE Withhold(c) \/ SetAside(c)
    BY <2>2 DEF Withhold, SetAside, Result, CallStatus, Outcomes, Decisions
  <2>3. CASE Settle(c)
    <3>1. answer[c] \in Outcomes
      BY <2>3 DEF Settle, HoldInv, AnswerKnows
    <3>2. [status |-> answer[c], decision |-> DecisionOn(c)] \in Result
      BY <3>1, DecisionType DEF Result, CallStatus
    <3> QED  BY <2>3, <3>2 DEF Settle
  <2>4. CASE Route(c) \/ AskRail(c) \/ Record(c)
    BY <2>4 DEF Route, AskRail, Record
  <2> QED  BY <2>1, <2>2, <2>3, <2>4 DEF ServiceStep
<1>3. recorded' \in [Keys -> Entry \cup {Nothing}]
  <2>1. CASE Record(c)
    <3>1. [by |-> c, result |-> result[c]] \in Entry
      BY <2>1 DEF Record, ResultsOK, Entry
    <3> QED  BY <2>1, <3>1 DEF Record
  <2>2. CASE ~Record(c)
    BY <2>2 DEF ServiceStep, Replay, Withhold, Route, SetAside, AskRail, Settle
  <2> QED  BY <2>1, <2>2
<1>4. charged' \in [Rails -> [PaymentIds -> RailEntry \cup {Nothing}]]
  <2>1. CASE AskRail(c)
    <3>1. PICK outcome \in Outcomes : Answers(c, outcome)
      BY <2>1, RailAnswers
    <3>2. [outcome |-> outcome, minor |-> Minor(Amount[c])] \in RailEntry
      BY AmountType, MinorType DEF RailEntry
    <3> QED  BY <3>1, <3>2 DEF Answers
  <2>2. CASE ~AskRail(c)
    BY <2>2 DEF ServiceStep, Replay, Withhold, Route, SetAside, Record, Settle
  <2> QED  BY <2>1, <2>2
<1> QED  BY <1>1, <1>2, <1>3, <1>4

LEMMA StepPermits ==
    ASSUME HoldInv, CallInv, NEW c \in Calls, ServiceStep(c)
    PROVE  PermitOK'
<1>0. Keeps(c)
  BY StepKeeps
<1> SUFFICES ASSUME NEW d \in Calls,
                    pc'[d] \in {"reserve", "charge", "settle"} \/ answer'[d] # Nothing
             PROVE  DecisionOn(d) \in Permitting /\ Rail(d) \in Rails
  BY <1>0, DecisionStays DEF PermitOK, Keeps, Rail
<1>1. CASE pc[d] \in {"reserve", "charge", "settle"} \/ answer[d] # Nothing
  BY <1>1 DEF CallInv, PermitOK
<1>2. CASE ~(pc[d] \in {"reserve", "charge", "settle"} \/ answer[d] # Nothing)
  <2>1. d = c
    BY <1>0, <1>2 DEF Keeps
  <2>2. Route(c) /\ Rail(c) # Nothing
    BY <1>2, <2>1
       DEF CallInv, ServiceTypeOK, Goto, Rail,
           ServiceStep, Replay, Withhold, Route, SetAside, AskRail, Settle, Record
  <2> QED  BY <2>1, <2>2, IntentType DEF Route, Permitting
<1> QED  BY <1>1, <1>2

LEMMA StepAsks ==
    ASSUME HoldInv, CallInv, NEW c \in Calls, ServiceStep(c)
    PROVE  AskedOK'
<1>0. Keeps(c)
  BY StepKeeps
<1> SUFFICES ASSUME NEW d \in Calls, answer'[d] # Nothing
             PROVE  Asked(d)' # Nothing /\ Asked(d)'.outcome = answer'[d]
  BY DEF AskedOK
<1>1. CASE answer[d] # Nothing
  <2>1. Rail(d) \in Rails /\ Asked(d) # Nothing /\ Asked(d).outcome = answer[d]
    BY <1>1 DEF CallInv, PermitOK, AskedOK
  <2>2. Asked(d)' = Asked(d)
    BY <1>0, <2>1, IntentType DEF Keeps, Asked, Rail
  <2> QED  BY <1>0, <1>1, <2>1, <2>2 DEF Keeps
<1>2. CASE answer[d] = Nothing
  <2>1. d = c /\ AskRail(c)
    <3>1. d = c
      BY <1>0, <1>2 DEF Keeps
    <3> QED  BY <1>2, <3>1 DEF ServiceStep, Replay, Withhold, Route, SetAside,
                               Settle, Record
  <2>2. Rail(c) \in Rails /\ IntentOf[c].payment \in PaymentIds
    BY <2>1, IntentType DEF CallInv, PermitOK, AskRail
  <2>3. PICK outcome \in Outcomes : Answers(c, outcome)
    BY <2>1, RailAnswers
  <2>4. answer'[c] = outcome
    BY <2>3 DEF Answers, CallInv, ServiceTypeOK
  <2>5. CASE Asked(c) # Nothing
    <3>1. Asked(c)' = Asked(c)
      BY <2>3, <2>5 DEF Answers, Asked, Rail
    <3> QED  BY <2>1, <2>3, <2>4, <2>5, <3>1 DEF Answers
  <2>6. CASE Asked(c) = Nothing
    <3>1. Asked(c)' = [outcome |-> outcome, minor |-> Minor(Amount[c])]
      BY <2>2, <2>3, <2>6 DEF Answers, Asked, Rail, CallInv, ServiceTypeOK
    <3>2. Asked(c)' \in RailEntry
      BY <3>1, AmountType, MinorType DEF RailEntry
    <3> QED  BY <2>1, <2>4, <3>1, <3>2, NotNothing
  <2> QED  BY <2>5, <2>6
<1> QED  BY <1>1, <1>2

\* The result a step makes: the policy or a full budget withholds the payment,
\* or the call passes on what its rail answered it.
Makes(c, res) ==
    /\ result' = [result EXCEPT ![c] = res]
    /\ res \in Result
    /\ \/ res.decision \notin Permitting
       \/ answer[c] # Nothing /\ res.status = answer[c]

LEMMA StepMakes ==
    ASSUME HoldInv, CallInv, NEW c \in Calls, ServiceStep(c), ~Replay(c)
    PROVE  \/ result' = result /\ pc'[c] # "record"
           \/ \E res : Makes(c, res)
<1> USE DEF CallInv, ServiceTypeOK, Goto, Conclude
<1>1. CASE Route(c) \/ AskRail(c) \/ Record(c)
  BY <1>1 DEF Route, AskRail, Record
<1>2. CASE Withhold(c)
  <2>1. PICK res \in {[status |-> "FAILED", decision |-> "DENY"],
                      [status |-> "APPROVAL_REQUIRED", decision |-> "REQUIRE_APPROVAL"]} :
          result' = [result EXCEPT ![c] = res]
    BY <1>2 DEF Withhold
  <2>2. res \in Result /\ res.decision \notin Permitting
    BY DEF Result, CallStatus, Outcomes, Decisions, Permitting
  <2> QED  BY <2>1, <2>2 DEF Makes
<1>3. CASE SetAside(c)
  <2> DEFINE res == [status |-> "FAILED", decision |-> "DENY"]
  <2>1. \/ result' = result /\ pc'[c] # "record"
        \/ result' = [result EXCEPT ![c] = res]
    BY <1>3 DEF SetAside
  <2>2. res \in Result /\ res.decision \notin Permitting
    BY DEF Result, CallStatus, Outcomes, Decisions, Permitting
  <2> QED  BY <2>1, <2>2 DEF Makes
<1>4. CASE Settle(c)
  <2> DEFINE res == [status |-> answer[c], decision |-> DecisionOn(c)]
  <2>1. result' = [result EXCEPT ![c] = res] /\ answer[c] # Nothing
    BY <1>4 DEF Settle, HoldInv, AnswerKnows
  <2>2. res \in Result /\ res.status = answer[c]
    BY <2>1, DecisionType DEF Result, CallStatus
  <2> QED  BY <2>1, <2>2 DEF Makes
<1> QED  BY <1>1, <1>2, <1>3, <1>4 DEF ServiceStep

\* What a step makes is true of the call.
LEMMA MadeIsHonest ==
    ASSUME CallInv, NEW c \in Calls, NEW res, Makes(c, res)
    PROVE  Honest(c, res)
BY DEF CallInv, Makes, Honest, AskedOK, PermitOK

\* What is on record is true of every call with the same fingerprint.
LEMMA RecordIsHonest ==
    ASSUME CallInv, NEW c \in Calls, Replay(c), pc'[c] = "done"
    PROVE  \E res \in Result : /\ result' = [result EXCEPT ![c] = res]
                               /\ Honest(c, res)
<1> DEFINE entry == recorded[IntentOf[c].key]
<1>1. entry \in Entry
  BY IntentType DEF Replay, CallInv, ServiceTypeOK
<1>2. Honest(entry.by, entry.result)
  BY IntentType DEF Replay, CallInv, RecordsOK
<1>3. /\ Fingerprint(IntentOf[entry.by]) = Fingerprint(IntentOf[c])
      /\ result' = [result EXCEPT ![c] = entry.result]
  BY DEF Replay, Goto, CallInv, ServiceTypeOK
<1>4. /\ RailFor(IntentOf[entry.by]) = RailFor(IntentOf[c])
      /\ IntentOf[entry.by].payment = IntentOf[c].payment
  BY <1>3, FingerprintSettlesCharge
<1> HIDE DEF entry
<1>5. Honest(c, entry.result)
  BY <1>2, <1>4 DEF Honest, Asked, Rail
<1>6. entry.result \in Result
  BY <1>1 DEF Entry
<1> QED  BY <1>3, <1>5, <1>6

\* A result is made from the call's own answer, or is the one on record for
\* the same fingerprint.
LEMMA StepReports ==
    ASSUME HoldInv, CallInv, NEW c \in Calls, ServiceStep(c)
    PROVE  ResultsOK'
<1> USE DEF CallInv, ServiceTypeOK
<1>0. Keeps(c)
  BY StepKeeps
<1>1. \A d \in Calls : \A res : Honest(d, res) => Honest(d, res)'
  BY <1>0, HonestStays
<1>2. CASE result' = result /\ pc'[c] # "record"
  BY <1>0, <1>1, <1>2 DEF ResultsOK, Honest, Keeps
<1>3. CASE \E res \in Result : result' = [result EXCEPT ![c] = res] /\ Honest(c, res)
  <2>1. PICK res \in Result : result' = [result EXCEPT ![c] = res] /\ Honest(c, res)
    BY <1>3
  <2>2. Honest(c, res)'
    BY <1>1, <2>1
  <2> QED  BY <1>0, <1>1, <2>1, <2>2 DEF ResultsOK, Honest, Keeps
<1>4. CASE Replay(c)
  <2>1. CASE pc'[c] = "done"
    BY <1>3, <1>4, <2>1, RecordIsHonest
  <2>2. CASE pc'[c] # "done"
    BY <1>2, <1>4, <2>2 DEF Replay, Goto
  <2> QED  BY <2>1, <2>2
<1>5. CASE ~Replay(c)
  BY <1>2, <1>3, <1>5, StepMakes, MadeIsHonest DEF Makes
<1> QED  BY <1>4, <1>5

LEMMA StepRecords ==
    ASSUME HoldInv, CallInv, NEW c \in Calls, ServiceStep(c)
    PROVE  RecordsOK'
<1> USE DEF CallInv, ServiceTypeOK
<1>0. Keeps(c)
  BY StepKeeps
<1>1. \A d \in Calls : \A res : Honest(d, res) => Honest(d, res)'
  BY <1>0, HonestStays
<1>2. \A k \in Keys : recorded[k] # Nothing => recorded[k].by \in Calls
  BY DEF Entry
<1>3. CASE recorded' = recorded
  BY <1>1, <1>2, <1>3 DEF RecordsOK, Honest
<1>4. CASE Record(c)
  <2>1. /\ recorded' = [recorded EXCEPT ![IntentOf[c].key] =
                           [by |-> c, result |-> result[c]]]
        /\ result[c] \in Result
    BY <1>4 DEF Record, ResultsOK
  <2>2. Honest(c, result[c])
    BY <2>1, NotNothing DEF ResultsOK
  <2> QED  BY <1>1, <1>2, <2>1, <2>2 DEF RecordsOK, Honest
<1> QED  BY <1>3, <1>4 DEF ServiceStep, Replay, Withhold, Route, SetAside,
                           AskRail, Settle

LEMMA StepBacks ==
    ASSUME HoldInv, CallInv, NEW c \in Calls, ServiceStep(c)
    PROVE  BackedOK'
<1> USE DEF CallInv, ServiceTypeOK
<1>0. Keeps(c)
  BY StepKeeps
<1> SUFFICES ASSUME NEW r \in Rails, NEW p \in PaymentIds, charged'[r][p] # Nothing
             PROVE  \E d \in Calls : Behind(d, r, p)'
  BY DEF BackedOK
<1>1. CASE charged[r][p] # Nothing
  <2>1. PICK d \in Calls : Behind(d, r, p)
    BY <1>1 DEF BackedOK
  <2>2. charged[r][p] \in RailEntry /\ charged'[r][p] = charged[r][p]
    BY <1>0, <1>1 DEF Keeps
  <2>3. answer[d] # Nothing
    BY <2>1, <2>2, NotNothing DEF Behind, RailEntry
  <2>4. Behind(d, r, p)'
    BY <1>0, <2>1, <2>2, <2>3 DEF Keeps, Behind, Rail
  <2> QED  BY <2>4
<1>2. CASE charged[r][p] = Nothing
  <2>1. AskRail(c)
    BY <1>2 DEF ServiceStep, Replay, Withhold, Route, SetAside, Settle, Record
  <2>2. PICK outcome \in Outcomes : Answers(c, outcome)
    BY <2>1, RailAnswers
  <2>3. /\ r = Rail(c) /\ p = IntentOf[c].payment
        /\ charged'[r][p] = [outcome |-> outcome, minor |-> Minor(Amount[c])]
        /\ answer'[c] = outcome
    BY <1>2, <2>2 DEF Answers, Asked
  <2>4. Behind(c, r, p)'
    BY <2>3 DEF Behind, Rail
  <2> QED  BY <2>4
<1> QED  BY <1>1, <1>2

LEMMA CallInit == ServiceInit => CallInv
<1> SUFFICES ASSUME ServiceInit PROVE CallInv
  OBVIOUS
<1> USE DEF ServiceInit
<1>1. ServiceTypeOK
  BY DEF ServiceTypeOK
<1>2. PermitOK /\ AskedOK /\ ResultsOK
  BY DEF PermitOK, AskedOK, ResultsOK
<1>3. RecordsOK /\ BackedOK
  BY DEF RecordsOK, BackedOK
<1> QED  BY <1>1, <1>2, <1>3 DEF CallInv

LEMMA CallStutters ==
    ASSUME CallInv, UNCHANGED serviceVars
    PROVE  CallInv'
<1> USE DEF serviceVars, budgetVars, CallInv
<1>1. ServiceTypeOK'
  BY DEF ServiceTypeOK
<1>2. PermitOK' /\ AskedOK'
  BY DecisionStays DEF PermitOK, AskedOK, Asked, Rail
<1>3. ResultsOK' /\ RecordsOK'
  BY DEF ResultsOK, RecordsOK, Honest, Asked, Rail
<1>4. BackedOK'
  BY DEF BackedOK, Behind, Rail
<1> QED  BY <1>1, <1>2, <1>3, <1>4

LEMMA CallStep == HoldInv /\ HoldInv' /\ CallInv /\ [ServiceNext]_serviceVars => CallInv'
<1> SUFFICES ASSUME HoldInv, HoldInv', CallInv, [ServiceNext]_serviceVars
             PROVE  CallInv'
  OBVIOUS
<1>1. CASE ServiceNext
  <2>1. PICK c \in Calls : ServiceStep(c)
    BY <1>1 DEF ServiceNext, ServiceStep
  <2>2. ServiceTypeOK' /\ PermitOK' /\ AskedOK'
    BY <2>1, StepTypes, StepPermits, StepAsks
  <2>3. ResultsOK' /\ RecordsOK' /\ BackedOK'
    BY <2>1, StepReports, StepRecords, StepBacks
  <2> QED  BY <2>2, <2>3 DEF CallInv
<1>2. CASE UNCHANGED serviceVars
  BY <1>2, CallStutters
<1> QED  BY <1>1, <1>2

LEMMA CallInvariant == ServiceSpec => []CallInv
<1> QED  BY CallInit, CallStep, HoldInvariant, PTL DEF ServiceSpec

\* Every variable of the service keeps its type: the counters of the Budget do
\* not become negative, and only finished results are put on record.
THEOREM ServiceTypes == ServiceSpec => []ServiceTypeOK
<1>1. CallInv => ServiceTypeOK
  BY DEF CallInv
<1> QED  BY <1>1, CallInvariant, PTL

\* However the calls overlap, a result that lets a payment proceed, replayed
\* or not, is what the rail of the call's intent decided about its payment.
THEOREM AnswersStayTrue == ServiceSpec => []AnswersAreTrue
<1>1. CallInv => AnswersAreTrue
  <2> SUFFICES ASSUME CallInv, NEW c \in Calls, result[c] # Nothing,
                      result[c].decision \in {"ALLOW_AUTO", "ALLOW_NOTIFY"}
               PROVE  /\ Rail(c) \in Rails
                      /\ Asked(c) # Nothing /\ Asked(c).outcome = result[c].status
    BY DEF AnswersAreTrue, Asked, Rail
  <2> QED  BY DEF CallInv, ResultsOK, Honest, Permitting
<1> QED  BY <1>1, CallInvariant, PTL

----------------------------------------------------------------------------
(* What is charged is permitted *)

\* Two names are the same if they are spelled the same.
LEMMA SameName ==
    ASSUME NEW x \in Name, NEW y \in Name
    PROVE  x = y <=> x.word = y.word /\ x.cased = y.cased /\ x.padded = y.padded
<1>1. /\ x = [word |-> x.word, cased |-> x.cased, padded |-> x.padded]
      /\ y = [word |-> y.word, cased |-> y.cased, padded |-> y.padded]
  BY DEF Name
<1> QED  BY <1>1, Zenon

\* A name written in another way.
LEMMA Respelled ==
    ASSUME NEW n \in Name, NEW q \in BOOLEAN
    PROVE  LET x == [n EXCEPT !.cased = FALSE, !.padded = q]
           IN  x \in Name /\ x.word = n.word /\ x.cased = FALSE /\ x.padded = q
BY DEF Name

\* A rule's name that from_rules leaves the blanks in.
Misread(d, n) == n.padded /\ d \notin {"category", "domain"}

\* A name of a rule, parsed, is the intent's name, normalised, exactly if it is
\* not misread and the words are the same.
LEMMA ParsedIsNormal ==
    ASSUME NEW d, NEW n \in Name, NEW name \in Name
    PROVE  ParseName(d, n) = Normal(name) <=> ~Misread(d, n) /\ name.word = n.word
<1> DEFINE q == Misread(d, n)
           x == [n EXCEPT !.cased = FALSE, !.padded = q]
           y == [name EXCEPT !.cased = FALSE, !.padded = FALSE]
<1>1. ParseName(d, n) = x /\ q \in BOOLEAN
  BY DEF ParseName, Name, Misread
<1>2. Normal(name) = y
  BY PolicyAssumption DEF Normal
<1>3. q <=> Misread(d, n)
  OBVIOUS
<1> HIDE DEF q
<1>4. x \in Name /\ x.word = n.word /\ x.cased = FALSE /\ x.padded = q
  BY <1>1, Respelled
<1>5. y \in Name /\ y.word = name.word /\ y.cased = FALSE /\ y.padded = FALSE
  BY Respelled
<1> HIDE DEF x, y
<1>6. x = y <=> n.word = name.word /\ q = FALSE
  BY <1>4, <1>5, SameName
<1> QED  BY <1>1, <1>2, <1>3, <1>6

\* What evaluate lets pass is named as the rules permit, misread ones apart.
LEMMA NotRefusedIsPermitted ==
    ASSUME rules \in Rulebooks, NEW c \in Calls, NEW d \in Dimensions,
           ~NameRefused(policy, IntentOf[c], d)
    PROVE  /\ rules.allow[d] # Absent => \E n \in rules.allow[d] : Concerns(n, c, d)
           /\ \A n \in rules.deny[d] : Concerns(n, c, d) =>
                 n.padded /\ d \in {"currency", "region", "instrument"}
<1> DEFINE name == IntentOf[c].names[d]
           allow == rules.allow[d]
           deny == rules.deny[d]
<1>1. name \in Name \cup {Absent}
  BY ServiceAssumption DEF Intents
<1>2. allow \in {Absent} \cup SUBSET Name /\ deny \in SUBSET Name
  BY ServiceAssumption DEF WellFormed
<1>3. /\ policy.deny[d] = {ParseName(d, n) : n \in deny}
      /\ policy.allow[d] = IF allow = Absent THEN Absent
                           ELSE {ParseName(d, n) : n \in allow}
  <2>1. WellFormed(rules)
    BY ServiceAssumption
  <2> QED  BY <2>1 DEF WellFormed, policy, FromRules
<1>4. \A n \in Name : ParseName(d, n) \in Name
  BY DEF ParseName, Name
<1>5. name = Absent \/ Normal(name) \notin policy.deny[d]
  <2>1. name # Absent => Normal(name) \in Name
    BY <1>1, Respelled DEF Normal
  <2> QED  BY <2>1, PolicyAssumption DEF NameRefused
<1>6. policy.allow[d] = Absent \/ Normal(name) \in policy.allow[d]
  BY DEF NameRefused
<1> HIDE DEF name, allow, deny
<1>7. ASSUME NEW n \in deny, name # Absent, ~Misread(d, n), name.word = n.word
      PROVE  FALSE
  <2>1. ParseName(d, n) = Normal(name)
    BY <1>1, <1>2, <1>7, ParsedIsNormal
  <2> QED  BY <1>3, <1>5, <1>7, <2>1
<1>8. ASSUME allow # Absent
      PROVE  \E n \in allow : name # Absent /\ name.word = n.word
  <2>1. {ParseName(d, n) : n \in allow} \in SUBSET Name
    BY <1>2, <1>4, <1>8
  <2>2. {ParseName(d, n) : n \in allow} # Absent
    BY <2>1, PolicyAssumption
  <2>3. Normal(name) \in {ParseName(d, n) : n \in allow}
    BY <1>3, <1>6, <1>8, <2>2
  <2>4. PICK n \in allow : Normal(name) = ParseName(d, n)
    BY <2>3
  <2>5. name # Absent
    BY <2>1, <2>3, PolicyAssumption DEF Normal
  <2>6. name.word = n.word
    BY <1>1, <1>2, <1>8, <2>4, <2>5, ParsedIsNormal
  <2> QED  BY <2>5, <2>6
<1>9. \A n : Misread(d, n) <=> n.padded /\ d \in {"currency", "region", "instrument"}
  BY DEF Misread, Dimensions
<1> QED  BY <1>7, <1>8, <1>9 DEF name, allow, deny, Concerns

\* Money is never set aside for a word outside a policy's list, and for a
\* denied word only through a rule on a currency, region or instrument that is
\* written with blanks, which from_rules leaves in.
THEOREM DenialsKept == ServiceSpec => []OnlyPaddedDenialsEscape
<1>1. HoldInv /\ CallInv => OnlyPaddedDenialsEscape
  <2> SUFFICES ASSUME HoldInv, CallInv, NEW c \in Calls, NEW d \in Dimensions,
                      Hold(c) # "NONE"
               PROVE  ~NameRefused(policy, IntentOf[c], d)
    BY NotRefusedIsPermitted DEF OnlyPaddedDenialsEscape, CallInv, ServiceTypeOK
  <2>1. pc[c] \in {"charge", "settle"} \/ answer[c] # Nothing
    BY NoOutcome DEF Hold, Outcomes
  <2>2. DecisionOn(c) \in Permitting
    BY <2>1 DEF CallInv, PermitOK
  <2>3. ~Denies(policy, IntentOf[c])
    BY <2>2 DEF DecisionOn, Evaluate, Permitting
  <2> QED  BY <2>3 DEF Denies
<1> QED  BY <1>1, CallInvariant, HoldInvariant, PTL

----------------------------------------------------------------------------
(* What is charged is covered *)

\* A call whose charge moved money, or may have, still holds or has spent its
\* own.
LEMMA TakenIsHeld ==
    ASSUME HoldInv, CallInv, NEW x \in Taken
    PROVE  \E c \in Holding("RESERVED") \cup Holding("CONSUMED") : Behind(c, x[1], x[2])
<1> DEFINE r == x[1]
           p == x[2]
<1>1. /\ r \in Rails /\ p \in PaymentIds /\ charged[r][p] # Nothing
      /\ charged[r][p].outcome # "FAILED"
  BY DEF Taken
<1>2. PICK c \in Calls : Behind(c, r, p)
  BY <1>1 DEF CallInv, BackedOK
<1>3. charged[r][p] \in RailEntry
  BY <1>1 DEF CallInv, ServiceTypeOK
<1>4. answer[c] \in {"SUCCEEDED", "UNKNOWN_EXTERNAL_OUTCOME"}
  BY <1>1, <1>2, <1>3 DEF Behind, RailEntry, Outcomes
<1>5. Hold(c) \in {"RESERVED", "CONSUMED"}
  BY <1>4, NoOutcome DEF Hold, Outcomes
<1> QED  BY <1>2, <1>5 DEF Holding

\* What the rails have taken, or may have taken, is covered by what the Budget
\* holds and has spent: each charge by the money of the call that made it.
THEOREM ChargedCovered == ServiceSpec => []ChargedIsCovered
<1>1. HoldInv /\ CallInv => ChargedIsCovered
  <2> SUFFICES ASSUME HoldInv, CallInv PROVE ChargedIsCovered
    OBVIOUS
  <2> DEFINE R == Holding("RESERVED")
             C == Holding("CONSUMED")
             H == R \cup C
             S == Taken
             worth == [x \in S |-> Grain * charged[x[1]][x[2]].minor]
             by == [x \in S |-> CHOOSE c \in H : Behind(c, x[1], x[2])]
  <2>1. \A x \in S : by[x] \in H /\ Behind(by[x], x[1], x[2])
    BY TakenIsHeld
  <2>2. \A x \in S : x = <<x[1], x[2]>>
    BY DEF Taken
  <2>3. /\ R \in SUBSET Calls /\ IsFiniteSet(R)
        /\ C \in SUBSET Calls /\ IsFiniteSet(C)
    BY HoldingType
  <2>4. R \cap C = {}
    BY DEF Holding
  <2>5. reserved = Total(R, Amount) /\ consumed = Total(C, Amount)
    BY DEF HoldInv, ReservedIsExplained
  <2>6. \A x \in S : worth[x] = Grain * charged[x[1]][x[2]].minor
    OBVIOUS
  <2>7. by = [x \in S |-> by[x]] /\ worth = [x \in S |-> worth[x]]
    OBVIOUS
  <2>8. ChargedIsCovered <=> Total(S, worth) <= reserved + consumed
    BY DEF ChargedIsCovered
  <2> HIDE DEF R, C, S, worth, by
  <2>9. H \in SUBSET Calls /\ IsFiniteSet(H)
    BY <2>3, FS_Union
  <2>10. Total(H, Amount) = reserved + consumed
    BY <2>3, <2>4, <2>5, AmountType, TotalDisjoint
  <2> HIDE DEF H
  <2>11. by \in [S -> H]
    BY <2>1, <2>7
  <2>12. \A x, y \in S : by[x] = by[y] => x = y
    BY <2>1, <2>2 DEF Behind
  <2>13. \A x \in S : worth[x] \in Nat /\ worth[x] <= Amount[by[x]]
    <3> SUFFICES ASSUME NEW x \in S
                 PROVE  worth[x] \in Nat /\ worth[x] <= Amount[by[x]]
      OBVIOUS
    <3>1. Amount[by[x]] \in Nat
      BY <2>1, <2>9, AmountType
    <3>2. worth[x] = Grain * Minor(Amount[by[x]])
      BY <2>1, <2>6 DEF Behind
    <3>3. /\ Minor(Amount[by[x]]) \in Nat
          /\ Grain * Minor(Amount[by[x]]) <= Amount[by[x]]
      BY <3>1, MinorType
    <3>4. Grain * Minor(Amount[by[x]]) \in Nat
      BY <3>3, ServiceAssumption
    <3> QED  BY <3>2, <3>3, <3>4
  <2>14. worth \in [S -> Nat]
    BY <2>7, <2>13
  <2>15. Total(S, worth) <= Total(H, Amount)
    BY <2>9, <2>11, <2>12, <2>13, <2>14, AmountType, TotalInjection
  <2> QED  BY <2>8, <2>10, <2>15
<1> QED  BY <1>1, CallInvariant, HoldInvariant, PTL
=============================================================================
