--------------------------- MODULE CreationProofs ---------------------------
(***************************************************************************)
(* create_payment is atomic although its statements are not: for any       *)
(* number of calls, keys and budgets, whatever interleaves, waits, is      *)
(* refused or cut off, the tables change as Checkout says they do in one   *)
(* step, and the callers are answered as CreateOnce says.                  *)
(*                                                                         *)
(* The argument is that of the two locks.  A call past its INSERT is the   *)
(* one that has its key, and no committed request has that key; a call     *)
(* past its reserve has the budget's row, so what was available when it    *)
(* looked is available when it commits.                                    *)
(***************************************************************************)
EXTENDS Creation, MoneyProofs

\* What a transaction that will commit has written.
Refusal == [status |-> "FAILED", events |-> {"PaymentFailed"}]
Waiting == [status |-> "APPROVAL_REQUIRED", events |-> {"ApprovalRequested"}]
Started ==
    {[status |-> "PROCESSING", events |-> {"PaymentStarted"} \cup notice] :
        notice \in SUBSET {"NotificationRequested"}}

\* The statements between create_request and the end of the transaction.
Inside == {"decide", "reserve", "commit"}

\* What holds of a call at the statement it has come to.
CallOK(c) ==
    /\ pc[c] \in Inside => inserting[KeyOf[c]] = c
    /\ pc[c] = "reserve" => draft[c] \in Started
    /\ pc[c] = "commit" =>
          \/ draft[c] \in {Refusal, Waiting}
          \/ /\ draft[c] \in Started
             /\ rowLock[BudgetOf[c]] = c
             /\ Available(BudgetOf[c]) >= Amount[c]
    /\ pc[c] # "done" =>
          /\ reply[c] = "none" /\ evidence[c] = "NONE"
          /\ status[c] = "NONE" /\ resv[c] = "NONE" /\ events[c] = {}
    /\ pc[c] = "reread" => request[KeyOf[c]] # NoCall

\* A key is being inserted only while no request has it, and the request that
\* has it has its payment and its evidence.
KeyOK(k) ==
    /\ inserting[k] # NoCall => request[k] = NoCall
    /\ request[k] # NoCall =>
          /\ KeyOf[request[k]] = k /\ pc[request[k]] = "done"
          /\ status[request[k]] # "NONE" /\ evidence[request[k]] = "BOUND"

Held(b) == {c \in Calls : BudgetOf[c] = b /\ resv[c] = "RESERVED"}

\* The counter of a budget is the sum of its reservations.
HoldsOK ==
    /\ \A c \in Calls : status[c] = "PROCESSING" => resv[c] = "RESERVED"
    /\ \A b \in Budgets : reserved[b] = Total(Held(b), Amount)

\* Evidence left loose was left by a call that lost the race for its key.
LooseOK ==
    \A c \in Calls : evidence[c] = "LOOSE" =>
        /\ request[KeyOf[c]] \in Calls \ {c}
        /\ BodyOf[request[KeyOf[c]]] = BodyOf[c]

CreationInv ==
    /\ TablesTypeOK
    /\ \A c \in Calls : CallOK(c)
    /\ \A k \in Keys : KeyOK(k)
    /\ HoldsOK
    /\ LooseOK

----------------------------------------------------------------------------
LEMMA KeyType == \A c \in Calls : KeyOf[c] \in Keys
BY DEF Keys

LEMMA FreeType ==
    ASSUME NEW K, NEW locks \in [K -> Calls \cup {NoCall}], NEW c
    PROVE  /\ Free(locks, c) \in [K -> Calls \cup {NoCall}]
           /\ \A x \in K : Free(locks, c)[x] = IF locks[x] = c THEN NoCall ELSE locks[x]
BY DEF Free

LEMMA DraftType ==
    /\ Blank \in Drafts /\ Refusal \in Drafts /\ Waiting \in Drafts
    /\ Started \subseteq Drafts
<1>1. Blank \in Drafts /\ Refusal \in Drafts /\ Waiting \in Drafts
  BY DEF Blank, Refusal, Waiting, Drafts, EventTypes
<1>2. ASSUME NEW notice \in SUBSET {"NotificationRequested"}
      PROVE  [status |-> "PROCESSING", events |-> {"PaymentStarted"} \cup notice] \in Drafts
  <2>1. {"PaymentStarted"} \cup notice \in SUBSET EventTypes
    BY DEF EventTypes
  <2> QED  BY <2>1 DEF Drafts
<1> QED  BY <1>1, <1>2 DEF Started

\* A step of call c alone: no table but perhaps its own evidence row, and no
\* lock of another call.
Alone(c) ==
    /\ pc[c] # "done" /\ UNCHANGED paymentVars
    /\ \A d \in Calls \ {c} :
          /\ pc'[d] = pc[d] /\ reply'[d] = reply[d] /\ draft'[d] = draft[d]
          /\ evidence'[d] = evidence[d]
          /\ \A k \in Keys : inserting[k] = d => inserting'[k] = d
          /\ \A b \in Budgets : rowLock[b] = d => rowLock'[b] = d

\* Such a step has to show only its own part of the invariant.
LEMMA AloneKeeps ==
    ASSUME CreationInv, NEW c \in Calls, Alone(c), TablesTypeOK', CallOK(c)',
           \A k \in Keys : inserting'[k] = inserting[k] \/ inserting'[k] = NoCall
                           \/ request[k] = NoCall,
           evidence'[c] # "BOUND",
           evidence'[c] = "LOOSE" =>
               /\ request[KeyOf[c]] \in Calls
               /\ BodyOf[request[KeyOf[c]]] = BodyOf[c]
    PROVE  CreationInv'
<1>0. /\ UNCHANGED <<request, status, resv, reserved, consumed, events>>
      /\ pc[c] # "done"
  BY DEF Alone, paymentVars, budgetVars
<1>1. ASSUME NEW d \in Calls  PROVE CallOK(d)'
  <2>1. CASE d = c
    BY <2>1
  <2>2. CASE d # c
    <3>1. /\ pc'[d] = pc[d] /\ reply'[d] = reply[d] /\ draft'[d] = draft[d]
          /\ evidence'[d] = evidence[d]
          /\ inserting[KeyOf[d]] = d => inserting'[KeyOf[d]] = d
          /\ rowLock[BudgetOf[d]] = d => rowLock'[BudgetOf[d]] = d
      BY <2>2, KeyType, CreationAssumption DEF Alone
    <3>2. CallOK(d)
      BY DEF CreationInv
    <3>3. Available(BudgetOf[d])' = Available(BudgetOf[d])
      BY <1>0 DEF Available
    <3> QED  BY <1>0, <3>1, <3>2, <3>3 DEF CallOK, Inside
  <2> QED  BY <2>1, <2>2
<1>2. ASSUME NEW k \in Keys  PROVE KeyOK(k)'
  <2>1. KeyOK(k) /\ request[k] \in Calls \cup {NoCall}
    BY DEF CreationInv, TablesTypeOK
  <2>2. inserting'[k] # NoCall => request[k] = NoCall
    BY <2>1 DEF KeyOK
  <2>3. ASSUME request[k] # NoCall
        PROVE  /\ KeyOf[request[k]] = k /\ pc'[request[k]] = "done"
               /\ status[request[k]] # "NONE" /\ evidence'[request[k]] = "BOUND"
    <3>1. /\ request[k] \in Calls /\ pc[request[k]] = "done" /\ KeyOf[request[k]] = k
          /\ status[request[k]] # "NONE" /\ evidence[request[k]] = "BOUND"
      BY <2>1, <2>3 DEF KeyOK
    <3>2. request[k] # c
      BY <1>0, <3>1
    <3> QED  BY <3>1, <3>2 DEF Alone
  <2> QED  BY <1>0, <2>2, <2>3 DEF KeyOK
<1>3. HoldsOK'
  <2>1. \A b : Held(b)' = Held(b)
    BY <1>0 DEF Held
  <2> QED  BY <1>0, <2>1 DEF CreationInv, HoldsOK
<1>4. LooseOK'
  <2> SUFFICES ASSUME NEW d \in Calls, evidence'[d] = "LOOSE"
               PROVE  /\ request[KeyOf[d]] \in Calls \ {d}
                      /\ BodyOf[request[KeyOf[d]]] = BodyOf[d]
    BY <1>0 DEF LooseOK
  <2>1. CASE d = c
    <3>1. request[KeyOf[c]] \in Calls /\ BodyOf[request[KeyOf[c]]] = BodyOf[c]
      BY <2>1
    <3>2. KeyOK(KeyOf[c])
      BY KeyType DEF CreationInv
    <3>3. request[KeyOf[c]] # c
      BY <1>0, <3>1, <3>2, CreationAssumption DEF KeyOK
    <3> QED  BY <2>1, <3>1, <3>3
  <2>2. CASE d # c
    <3>1. evidence[d] = "LOOSE"
      BY <2>2 DEF Alone
    <3> QED  BY <3>1 DEF CreationInv, LooseOK
  <2> QED  BY <2>1, <2>2
<1> QED  BY <1>1, <1>2, <1>3, <1>4 DEF CreationInv

----------------------------------------------------------------------------
(* The statements *)

\* A transaction that is rolled back leaves the call answered and no trace.
LEMMA RollbackKeeps ==
    ASSUME CreationInv, NEW c \in Calls, pc[c] # "done",
           NEW word \in Replies, Rollback(c, word)
    PROVE  CreationInv'
<1>0. TablesTypeOK /\ CallOK(c)
  BY DEF CreationInv
<1>1. /\ pc' = [pc EXCEPT ![c] = "done"] /\ reply' = [reply EXCEPT ![c] = word]
      /\ told' = [told EXCEPT ![c] = NoCall] /\ draft' = [draft EXCEPT ![c] = Blank]
      /\ inserting' = Free(inserting, c) /\ rowLock' = Free(rowLock, c)
      /\ UNCHANGED <<paymentVars, evidence>>
  BY DEF Rollback, End, Goto
<1>2. /\ inserting' \in [Keys -> Calls \cup {NoCall}]
      /\ rowLock' \in [Budgets -> Calls \cup {NoCall}]
      /\ \A k \in Keys : inserting'[k] = IF inserting[k] = c THEN NoCall ELSE inserting[k]
      /\ \A b \in Budgets : rowLock'[b] = IF rowLock[b] = c THEN NoCall ELSE rowLock[b]
  BY <1>0, <1>1, FreeType DEF TablesTypeOK
<1>3. TablesTypeOK'
  BY <1>0, <1>1, <1>2, DraftType DEF TablesTypeOK, paymentVars, budgetVars, Places
<1>4. Alone(c)
  BY <1>0, <1>1, <1>2 DEF Alone, TablesTypeOK
<1>5. pc'[c] = "done" /\ evidence'[c] = "NONE"
  BY <1>0, <1>1 DEF TablesTypeOK, CallOK
<1>6. CallOK(c)'
  BY <1>5 DEF CallOK, Inside
<1> QED  BY <1>2, <1>3, <1>4, <1>5, <1>6, AloneKeeps

\* A call that only goes on to its next statement.
LEMMA ProceedKeeps ==
    ASSUME CreationInv, NEW c \in Calls, pc[c] # "done", NEW place, Proceed(c, place),
           \/ place \in {"verify", "validate", "insert"}
           \/ place = "reread" /\ request[KeyOf[c]] # NoCall
    PROVE  CreationInv'
<1>0. TablesTypeOK /\ CallOK(c)
  BY DEF CreationInv
<1>1. /\ pc' = [pc EXCEPT ![c] = place]
      /\ UNCHANGED <<reply, told, draft, lockVars, paymentVars, evidence>>
  BY DEF Proceed, Goto
<1>2. TablesTypeOK'
  BY <1>0, <1>1 DEF TablesTypeOK, lockVars, paymentVars, budgetVars, Places
<1>3. Alone(c)
  BY <1>0, <1>1 DEF Alone, TablesTypeOK, lockVars
<1>4. pc'[c] = place /\ evidence'[c] = "NONE"
  BY <1>0, <1>1 DEF TablesTypeOK, CallOK
<1>5. CallOK(c)'
  BY <1>0, <1>1, <1>4 DEF CallOK, Inside, paymentVars, budgetVars
<1>6. inserting' = inserting
  BY <1>1 DEF lockVars
<1> QED  BY <1>2, <1>3, <1>4, <1>5, <1>6, AloneKeeps

\* A call whose key has a request is answered with its payment or refused.
LEMMA AnswerKeeps ==
    ASSUME CreationInv, NEW c \in Calls, pc[c] # "done", request[KeyOf[c]] # NoCall,
           NEW leaving \in {"NONE", "LOOSE"}, AnswerWith(c, request[KeyOf[c]], leaving)
    PROVE  CreationInv'
<1>0. TablesTypeOK /\ CallOK(c) /\ request[KeyOf[c]] \in Calls
  BY KeyType DEF CreationInv, TablesTypeOK
<1>1. CASE Rollback(c, "conflict") \/ Rollback(c, "incomplete")
  BY <1>1, RollbackKeeps DEF Replies
<1>2. CASE /\ BodyOf[request[KeyOf[c]]] = BodyOf[c]
           /\ End(c, "replayed", request[KeyOf[c]])
           /\ evidence' = [evidence EXCEPT ![c] = leaving]
           /\ UNCHANGED <<lockVars, paymentVars>>
  <2>1. /\ pc' = [pc EXCEPT ![c] = "done"] /\ reply' = [reply EXCEPT ![c] = "replayed"]
        /\ told' = [told EXCEPT ![c] = request[KeyOf[c]]]
        /\ draft' = [draft EXCEPT ![c] = Blank]
    BY <1>2 DEF End, Goto
  <2>2. TablesTypeOK'
    BY <1>0, <1>2, <2>1, DraftType
       DEF TablesTypeOK, lockVars, paymentVars, budgetVars, Places, Replies
  <2>3. Alone(c)
    BY <1>0, <1>2, <2>1 DEF Alone, TablesTypeOK, lockVars
  <2>4. pc'[c] = "done" /\ evidence'[c] = leaving /\ inserting' = inserting
    BY <1>0, <1>2, <2>1 DEF TablesTypeOK, lockVars
  <2>5. CallOK(c)'
    BY <2>4 DEF CallOK, Inside
  <2> QED  BY <1>0, <1>2, <2>2, <2>3, <2>4, <2>5, AloneKeeps
<1> QED  BY <1>1, <1>2 DEF AnswerWith

LEMMA BeforeInsertKeeps ==
    ASSUME CreationInv, NEW c \in Calls,
           LookUp(c) \/ Verify(c) \/ Validate(c) \/ Reread(c) \/ CutOff(c)
    PROVE  CreationInv'
<1>1. pc[c] # "done" /\ {"refused", "lost", "unresolved"} \subseteq Replies
  BY DEF LookUp, Verify, Validate, Reread, CutOff, Replies
<1>2. CASE LookUp(c)
  BY <1>1, <1>2, ProceedKeeps, AnswerKeeps DEF LookUp
<1>3. CASE Verify(c)
  BY <1>1, <1>3, ProceedKeeps, RollbackKeeps DEF Verify
<1>4. CASE Validate(c)
  BY <1>1, <1>4, ProceedKeeps, RollbackKeeps DEF Validate
<1>5. CASE Reread(c)
  BY <1>1, <1>5, RollbackKeeps, AnswerKeeps DEF Reread
<1>6. CASE CutOff(c)
  BY <1>1, <1>6, RollbackKeeps DEF CutOff
<1> QED  BY <1>2, <1>3, <1>4, <1>5, <1>6

LEMMA InsertKeeps ==
    ASSUME CreationInv, NEW c \in Calls, InsertRequest(c)
    PROVE  CreationInv'
<1>0. TablesTypeOK /\ CallOK(c) /\ pc[c] = "insert" /\ inserting[KeyOf[c]] = NoCall
  BY DEF CreationInv, InsertRequest
<1>1. CASE request[KeyOf[c]] # NoCall /\ Proceed(c, "reread")
  BY <1>0, <1>1, ProceedKeeps
<1>2. CASE /\ request[KeyOf[c]] = NoCall
           /\ inserting' = [inserting EXCEPT ![KeyOf[c]] = c] /\ Goto(c, "decide")
           /\ UNCHANGED <<reply, told, draft, rowLock, paymentVars, evidence>>
  <2>1. TablesTypeOK'
    BY <1>0, <1>2, KeyType DEF TablesTypeOK, Goto, paymentVars, budgetVars, Places
  <2>2. /\ pc'[c] = "decide" /\ evidence'[c] = "NONE" /\ inserting'[KeyOf[c]] = c
        /\ \A k \in Keys : inserting'[k] = inserting[k] \/ k = KeyOf[c]
    BY <1>0, <1>2, KeyType DEF TablesTypeOK, Goto, CallOK
  <2>3. Alone(c)
    BY <1>0, <1>2, <2>2, CreationAssumption DEF Alone, TablesTypeOK, Goto
  <2>4. CallOK(c)'
    BY <1>0, <1>2, <2>2 DEF CallOK, Inside, paymentVars, budgetVars
  <2> QED  BY <1>2, <2>1, <2>2, <2>3, <2>4, AloneKeeps
<1> QED  BY <1>1, <1>2 DEF InsertRequest

LEMMA DecideKeeps ==
    ASSUME CreationInv, NEW c \in Calls, Decide(c)
    PROVE  CreationInv'
<1>0. TablesTypeOK /\ CallOK(c) /\ pc[c] = "decide"
  BY DEF CreationInv, Decide
<1>1. PICK place, written :
        /\ pc' = [pc EXCEPT ![c] = place] /\ draft' = [draft EXCEPT ![c] = written]
        /\ \/ place = "commit" /\ written \in {Refusal, Waiting}
           \/ place = "reserve" /\ written \in Started
  <2>1. \A notice \in SUBSET {"NotificationRequested"} :
          [status |-> "PROCESSING", events |-> {"PaymentStarted"} \cup notice] \in Started
    BY DEF Started
  <2>2. \/ Goto(c, "commit") /\ draft' = [draft EXCEPT ![c] = Refusal]
        \/ Goto(c, "commit") /\ draft' = [draft EXCEPT ![c] = Waiting]
        \/ Goto(c, "reserve") /\ \E written \in Started : draft' = [draft EXCEPT ![c] = written]
    BY <2>1 DEF Decide, Draft, Refusal, Waiting
  <2> QED  BY <2>2 DEF Goto
<1>2. UNCHANGED <<reply, told, lockVars, paymentVars, evidence>>
  BY DEF Decide
<1>3. TablesTypeOK'
  BY <1>0, <1>1, <1>2, DraftType DEF TablesTypeOK, lockVars, paymentVars, budgetVars, Places
<1>4. Alone(c)
  BY <1>0, <1>1, <1>2 DEF Alone, TablesTypeOK, lockVars
<1>5. pc'[c] = place /\ draft'[c] = written /\ evidence'[c] = "NONE" /\ inserting' = inserting
  BY <1>0, <1>1, <1>2 DEF TablesTypeOK, CallOK, lockVars
<1>6. CallOK(c)'
  BY <1>0, <1>1, <1>2, <1>5 DEF CallOK, Inside, paymentVars, budgetVars
<1> QED  BY <1>3, <1>4, <1>5, <1>6, AloneKeeps

LEMMA ReserveKeeps ==
    ASSUME CreationInv, NEW c \in Calls, Reserve(c)
    PROVE  CreationInv'
<1>0. TablesTypeOK /\ CallOK(c) /\ pc[c] = "reserve" /\ BudgetOf[c] \in Budgets
  BY CreationAssumption DEF CreationInv, Reserve
<1>1. CASE Rollback(c, "error")
  BY <1>0, <1>1, RollbackKeeps DEF Replies
<1>2. CASE /\ ~(Available(BudgetOf[c]) < Amount[c]) /\ rowLock[BudgetOf[c]] = NoCall
           /\ rowLock' = [rowLock EXCEPT ![BudgetOf[c]] = c] /\ Goto(c, "commit")
           /\ UNCHANGED <<reply, told, draft, inserting, paymentVars, evidence>>
  <2>1. TablesTypeOK'
    BY <1>0, <1>2 DEF TablesTypeOK, Goto, paymentVars, budgetVars, Places
  <2>2. /\ pc'[c] = "commit" /\ evidence'[c] = "NONE" /\ rowLock'[BudgetOf[c]] = c
        /\ inserting' = inserting
    BY <1>0, <1>2 DEF TablesTypeOK, Goto, CallOK
  <2>3. Alone(c)
    BY <1>0, <1>2, CreationAssumption DEF Alone, TablesTypeOK, Goto
  <2>4. Available(BudgetOf[c])' = Available(BudgetOf[c])
    BY <1>2 DEF Available, paymentVars, budgetVars
  <2>5. Available(BudgetOf[c]) >= Amount[c]
    <3>1. Available(BudgetOf[c]) \in Int /\ Amount[c] \in Int
      BY <1>0, CreationAssumption DEF TablesTypeOK, Available
    <3> QED  BY <1>2, <3>1
  <2>6. CallOK(c)'
    BY <1>0, <1>2, <2>2, <2>4, <2>5 DEF CallOK, Inside, paymentVars, budgetVars
  <2> QED  BY <2>1, <2>2, <2>3, <2>6, AloneKeeps
<1> QED  BY <1>1, <1>2 DEF Reserve

----------------------------------------------------------------------------
(* The steps that change the tables *)

LEMMA AmountType ==
    /\ Amount \in [Calls -> Nat]
    /\ \A S \in SUBSET Calls : IsFiniteSet(S)
<1>1. \A S \in SUBSET Calls : IsFiniteSet(S)
  BY CreationAssumption, FS_Subset
<1> QED  BY <1>1, CreationAssumption

\* At its commit a call has its key to itself, and has written one of the
\* three kinds of payments; money only if the budget it locked still has it.
LEMMA CommitFacts ==
    ASSUME CreationInv, NEW c \in Calls, pc[c] = "commit"
    PROVE  /\ inserting[KeyOf[c]] = c /\ request[KeyOf[c]] = NoCall
           /\ reply[c] = "none" /\ evidence[c] = "NONE"
           /\ status[c] = "NONE" /\ resv[c] = "NONE" /\ events[c] = {}
           /\ draft[c] \in {Refusal, Waiting} \cup Started
           /\ draft[c].status = "PROCESSING" =>
                 rowLock[BudgetOf[c]] = c /\ Available(BudgetOf[c]) >= Amount[c]
           /\ draft[c].status # "NONE"
<1>1. CallOK(c) /\ KeyOK(KeyOf[c])
  BY KeyType DEF CreationInv
<1>2. inserting[KeyOf[c]] = c /\ request[KeyOf[c]] = NoCall
  BY <1>1, CreationAssumption DEF CallOK, KeyOK, Inside
<1>3. draft[c] \in {Refusal, Waiting} => draft[c].status \in {"FAILED", "APPROVAL_REQUIRED"}
  BY DEF Refusal, Waiting
<1>4. draft[c] \in Started => draft[c].status = "PROCESSING"
  BY DEF Started
<1> QED  BY <1>1, <1>2, <1>3, <1>4 DEF CallOK

LEMMA CommitKeeps ==
    ASSUME CreationInv, NEW c \in Calls, Commit(c)
    PROVE  CreationInv'
<1> DEFINE b0 == BudgetOf[c]
           money == draft[c].status = "PROCESSING"
<1>0. /\ TablesTypeOK /\ KeyOf[c] \in Keys /\ b0 \in Budgets
      /\ Amount[c] \in Nat /\ c # NoCall
  BY KeyType, CreationAssumption DEF CreationInv
<1>1. /\ inserting[KeyOf[c]] = c /\ request[KeyOf[c]] = NoCall
      /\ status[c] = "NONE" /\ resv[c] = "NONE" /\ evidence[c] = "NONE"
      /\ money => rowLock[b0] = c
      /\ draft[c].status # "NONE" /\ draft[c] \in {Refusal, Waiting} \cup Started
  BY CommitFacts DEF Commit
<1>2. \E word \in {"denied", "created", "lost"}, payment \in {c, NoCall} : End(c, word, payment)
  BY DEF Commit
<1>3. /\ pc' = [pc EXCEPT ![c] = "done"] /\ draft' = [draft EXCEPT ![c] = Blank]
      /\ \E word \in {"denied", "created", "lost"} : reply' = [reply EXCEPT ![c] = word]
      /\ \E payment \in {c, NoCall} : told' = [told EXCEPT ![c] = payment]
  BY <1>2 DEF End, Goto
<1>4. /\ request' = [request EXCEPT ![KeyOf[c]] = c]
      /\ status' = [status EXCEPT ![c] = draft[c].status]
      /\ events' = [events EXCEPT ![c] = draft[c].events]
      /\ evidence' = [evidence EXCEPT ![c] = "BOUND"]
      /\ inserting' = Free(inserting, c) /\ rowLock' = Free(rowLock, c)
      /\ consumed' = consumed
  BY DEF Commit, budgetVars
<1>5. /\ money => /\ resv' = [resv EXCEPT ![c] = "RESERVED"]
                  /\ reserved' = [reserved EXCEPT ![b0] = @ + Amount[c]]
      /\ ~money => resv' = resv /\ reserved' = reserved
  BY DEF Commit, budgetVars
<1>6. /\ inserting' \in [Keys -> Calls \cup {NoCall}]
      /\ rowLock' \in [Budgets -> Calls \cup {NoCall}]
      /\ \A k \in Keys : inserting'[k] = IF inserting[k] = c THEN NoCall ELSE inserting[k]
      /\ \A b \in Budgets : rowLock'[b] = IF rowLock[b] = c THEN NoCall ELSE rowLock[b]
  BY <1>0, <1>4, FreeType DEF TablesTypeOK
<1>7. /\ draft[c].status \in {"NONE", "FAILED", "APPROVAL_REQUIRED", "PROCESSING"}
      /\ draft[c].events \in SUBSET EventTypes
  BY <1>0 DEF TablesTypeOK, Drafts
<1> HIDE DEF b0, money
<1>8. TablesTypeOK'
  <2>1. /\ pc' \in [Calls -> Places] /\ reply' \in [Calls -> Replies]
        /\ told' \in [Calls -> Calls \cup {NoCall}] /\ draft' \in [Calls -> Drafts]
    BY <1>0, <1>3, DraftType DEF TablesTypeOK, Places, Replies
  <2>2. /\ request' \in [Keys -> Calls \cup {NoCall}]
        /\ status' \in [Calls -> {"NONE", "APPROVAL_REQUIRED", "PROCESSING", "SUCCEEDED",
                                  "FAILED"}]
        /\ events' \in [Calls -> SUBSET EventTypes]
        /\ evidence' \in [Calls -> {"NONE", "LOOSE", "BOUND"}]
        /\ consumed' \in [Budgets -> Nat]
    BY <1>0, <1>4, <1>7 DEF TablesTypeOK
  <2>3. /\ reserved' \in [Budgets -> Nat]
        /\ resv' \in [Calls -> {"NONE", "RESERVED", "CONSUMED", "RELEASED"}]
    BY <1>0, <1>5 DEF TablesTypeOK
  <2> QED  BY <1>6, <2>1, <2>2, <2>3 DEF TablesTypeOK
<1>9. ASSUME NEW d \in Calls  PROVE CallOK(d)'
  <2>0. CallOK(d) /\ KeyOf[d] \in Keys /\ BudgetOf[d] \in Budgets
    BY KeyType, CreationAssumption DEF CreationInv
  <2>1. CASE d = c
    <3>1. pc'[c] = "done"
      BY <1>0, <1>3 DEF TablesTypeOK
    <3> QED  BY <2>1, <3>1 DEF CallOK, Inside
  <2>2. CASE d # c
    <3>1. /\ pc'[d] = pc[d] /\ draft'[d] = draft[d] /\ reply'[d] = reply[d]
          /\ status'[d] = status[d] /\ events'[d] = events[d] /\ evidence'[d] = evidence[d]
          /\ resv'[d] = resv[d]
      BY <1>0, <1>3, <1>4, <1>5, <2>2 DEF TablesTypeOK
    <3>2. /\ inserting[KeyOf[d]] = d => inserting'[KeyOf[d]] = d
          /\ rowLock[BudgetOf[d]] = d => rowLock'[BudgetOf[d]] = d
      BY <1>6, <2>0, <2>2
    <3>3. request[KeyOf[d]] # NoCall => request'[KeyOf[d]] # NoCall
      BY <1>0, <1>4, <2>0 DEF TablesTypeOK
    <3>4. rowLock[BudgetOf[d]] = d => Available(BudgetOf[d])' = Available(BudgetOf[d])
      <4> SUFFICES ASSUME rowLock[BudgetOf[d]] = d
                   PROVE  reserved'[BudgetOf[d]] = reserved[BudgetOf[d]]
        BY <1>4 DEF Available
      <4>1. money => BudgetOf[d] # b0
        BY <1>1, <2>2
      <4> QED  BY <1>0, <1>5, <2>0, <4>1 DEF TablesTypeOK
    <3> QED  BY <2>0, <3>1, <3>2, <3>3, <3>4 DEF CallOK, Inside
  <2> QED  BY <2>1, <2>2
<1>10. ASSUME NEW k \in Keys  PROVE KeyOK(k)'
  <2>0. KeyOK(k) /\ request[k] \in Calls \cup {NoCall}
    BY <1>0 DEF CreationInv, TablesTypeOK
  <2>1. CASE k = KeyOf[c]
    <3>1. request'[k] = c /\ inserting'[k] = NoCall
      BY <1>0, <1>1, <1>4, <1>6, <2>1 DEF TablesTypeOK
    <3>2. pc'[c] = "done" /\ status'[c] # "NONE" /\ evidence'[c] = "BOUND"
      BY <1>0, <1>1, <1>3, <1>4 DEF TablesTypeOK
    <3> QED  BY <2>1, <3>1, <3>2 DEF KeyOK
  <2>2. CASE k # KeyOf[c]
    <3>1. request'[k] = request[k] /\ (inserting'[k] # NoCall => inserting[k] # NoCall)
      BY <1>0, <1>4, <1>6, <2>2 DEF TablesTypeOK
    <3>2. \A d \in Calls : pc[d] = "done" /\ status[d] # "NONE" /\ evidence[d] = "BOUND" =>
            pc'[d] = "done" /\ status'[d] # "NONE" /\ evidence'[d] = "BOUND"
      BY <1>0, <1>1, <1>3, <1>4 DEF TablesTypeOK
    <3> QED  BY <2>0, <3>1, <3>2 DEF KeyOK
  <2> QED  BY <2>1, <2>2
<1>11. HoldsOK'
  <2>1. \A d \in Calls : status'[d] = "PROCESSING" => resv'[d] = "RESERVED"
    <3> SUFFICES ASSUME NEW d \in Calls, status'[d] = "PROCESSING"
                 PROVE  resv'[d] = "RESERVED"
      OBVIOUS
    <3>1. CASE d = c
      <4>1. money
        BY <1>0, <1>4, <3>1 DEF TablesTypeOK, money
      <4> QED  BY <1>0, <1>5, <3>1, <4>1 DEF TablesTypeOK
    <3>2. CASE d # c
      BY <1>0, <1>4, <1>5, <3>2 DEF TablesTypeOK, CreationInv, HoldsOK
    <3> QED  BY <3>1, <3>2
  <2>2. ASSUME NEW b \in Budgets  PROVE reserved'[b] = Total(Held(b)', Amount)
    <3>0. reserved[b] = Total(Held(b), Amount)
      BY DEF CreationInv, HoldsOK
    <3>1. CASE money /\ b = b0
      <4>1. Held(b)' = Held(b) \cup {c} /\ c \notin Held(b) /\ Held(b) \in SUBSET Calls
        BY <1>0, <1>1, <1>5, <3>1 DEF Held, TablesTypeOK, b0
      <4>2. Total(Held(b) \cup {c}, Amount) = Total(Held(b), Amount) + Amount[c]
        BY <4>1, AmountType, TotalAdd
      <4>3. reserved'[b] = reserved[b] + Amount[c]
        BY <1>0, <1>5, <3>1 DEF TablesTypeOK
      <4> QED  BY <3>0, <4>1, <4>2, <4>3
    <3>2. CASE ~(money /\ b = b0)
      <4>1. Held(b)' = Held(b)
        BY <1>0, <1>1, <1>5, <3>2 DEF Held, TablesTypeOK, b0
      <4>2. reserved'[b] = reserved[b]
        BY <1>0, <1>5, <3>2 DEF TablesTypeOK
      <4> QED  BY <3>0, <4>1, <4>2
    <3> QED  BY <3>1, <3>2
  <2> QED  BY <2>1, <2>2 DEF HoldsOK
<1>12. LooseOK'
  <2> SUFFICES ASSUME NEW d \in Calls, evidence'[d] = "LOOSE"
               PROVE  /\ request'[KeyOf[d]] \in Calls \ {d}
                      /\ BodyOf[request'[KeyOf[d]]] = BodyOf[d]
    BY DEF LooseOK
  <2>1. evidence[d] = "LOOSE" /\ KeyOf[d] \in Keys
    BY <1>0, <1>4, KeyType DEF TablesTypeOK
  <2>2. /\ request[KeyOf[d]] \in Calls \ {d}
        /\ BodyOf[request[KeyOf[d]]] = BodyOf[d]
    BY <2>1 DEF CreationInv, LooseOK
  <2>3. request'[KeyOf[d]] = request[KeyOf[d]]
    BY <1>0, <1>1, <1>4, <2>1, <2>2, CreationAssumption DEF TablesTypeOK
  <2> QED  BY <2>2, <2>3
<1> QED  BY <1>8, <1>9, <1>10, <1>11, <1>12 DEF CreationInv

LEMMA SettleKeeps ==
    ASSUME CreationInv, NEW c \in Calls, WorkerSettles(c)
    PROVE  CreationInv'
<1>0. /\ TablesTypeOK /\ BudgetOf[c] \in Budgets /\ Amount[c] \in Nat
      /\ rowLock[BudgetOf[c]] = NoCall
      /\ status[c] = "PROCESSING" /\ resv[c] = "RESERVED"
  BY CreationAssumption DEF CreationInv, WorkerSettles, HoldsOK
<1>1. PICK outcome \in {"SUCCEEDED", "FAILED"}, announced \in EventTypes,
           hold \in {"CONSUMED", "RELEASED"} : SettleAs(c, outcome, announced, hold)
  BY DEF WorkerSettles, EventTypes
<1>2. /\ status' = [status EXCEPT ![c] = outcome]
      /\ events' = [events EXCEPT ![c] = @ \cup {announced}]
      /\ resv' = [resv EXCEPT ![c] = hold]
      /\ reserved' = [reserved EXCEPT ![BudgetOf[c]] = @ - Amount[c]]
      /\ consumed' = [consumed EXCEPT ![BudgetOf[c]] =
                         IF hold = "CONSUMED" THEN @ + Amount[c] ELSE @]
      /\ UNCHANGED <<pc, reply, told, draft, inserting, rowLock, request, evidence>>
  BY <1>1 DEF SettleAs, callVars, lockVars
<1>3. \A b \in Budgets : reserved[b] = Total(Held(b), Amount)
  BY DEF CreationInv, HoldsOK
<1>4. ASSUME NEW b \in Budgets
      PROVE  reserved'[b] \in Nat /\ reserved'[b] = Total(Held(b)', Amount)
  <2>1. CASE b = BudgetOf[c]
    <3>1. Held(b)' = Held(b) \ {c} /\ c \in Held(b) /\ Held(b) \in SUBSET Calls
      BY <1>0, <1>2, <2>1 DEF Held, TablesTypeOK
    <3>2. /\ Total(Held(b) \ {c}, Amount) = Total(Held(b), Amount) - Amount[c]
          /\ Total(Held(b) \ {c}, Amount) \in Nat
      BY <3>1, AmountType, TotalRemove
    <3>3. reserved'[b] = reserved[b] - Amount[c]
      BY <1>0, <1>2, <2>1 DEF TablesTypeOK
    <3> QED  BY <1>3, <3>1, <3>2, <3>3
  <2>2. CASE b # BudgetOf[c]
    <3>1. Held(b)' = Held(b)
      BY <1>0, <1>2, <2>2 DEF Held, TablesTypeOK
    <3>2. reserved'[b] = reserved[b] /\ reserved[b] \in Nat
      BY <1>0, <1>2, <2>2 DEF TablesTypeOK
    <3> QED  BY <1>3, <3>1, <3>2
  <2> QED  BY <2>1, <2>2
<1>5. TablesTypeOK'
  <2>1. reserved' \in [Budgets -> Nat]
    BY <1>0, <1>2, <1>4 DEF TablesTypeOK
  <2>2. consumed' \in [Budgets -> Nat]
    BY <1>0, <1>2 DEF TablesTypeOK
  <2>3. events' \in [Calls -> SUBSET EventTypes]
    BY <1>0, <1>2 DEF TablesTypeOK
  <2> QED  BY <1>0, <1>2, <2>1, <2>2, <2>3 DEF TablesTypeOK
<1>6. ASSUME NEW d \in Calls  PROVE CallOK(d)'
  <2>0. CallOK(d) /\ BudgetOf[d] \in Budgets
    BY CreationAssumption DEF CreationInv
  <2>1. d = c => pc[d] = "done"
    BY <1>0, <2>0 DEF CallOK
  <2>2. d # c => status'[d] = status[d] /\ events'[d] = events[d] /\ resv'[d] = resv[d]
    BY <1>0, <1>2 DEF TablesTypeOK
  <2>3. rowLock[BudgetOf[d]] = d => Available(BudgetOf[d])' = Available(BudgetOf[d])
    <3> SUFFICES ASSUME rowLock[BudgetOf[d]] = d
                 PROVE  /\ reserved'[BudgetOf[d]] = reserved[BudgetOf[d]]
                        /\ consumed'[BudgetOf[d]] = consumed[BudgetOf[d]]
      BY DEF Available
    <3>1. BudgetOf[d] # BudgetOf[c]
      BY <1>0, CreationAssumption
    <3> QED  BY <1>0, <1>2, <2>0, <3>1 DEF TablesTypeOK
  <2> QED  BY <1>2, <2>0, <2>1, <2>2, <2>3 DEF CallOK, Inside
<1>7. ASSUME NEW k \in Keys  PROVE KeyOK(k)'
  <2>0. KeyOK(k) /\ request[k] \in Calls \cup {NoCall}
    BY <1>0 DEF CreationInv, TablesTypeOK
  <2>1. \A d \in Calls : status[d] # "NONE" => status'[d] # "NONE"
    BY <1>0, <1>2 DEF TablesTypeOK
  <2> QED  BY <1>2, <2>0, <2>1 DEF KeyOK
<1>8. HoldsOK'
  <2>1. \A d \in Calls : status'[d] = "PROCESSING" => resv'[d] = "RESERVED"
    BY <1>0, <1>2 DEF TablesTypeOK, CreationInv, HoldsOK
  <2> QED  BY <1>4, <2>1 DEF HoldsOK
<1>9. LooseOK'
  BY <1>2 DEF CreationInv, LooseOK
<1> QED  BY <1>5, <1>6, <1>7, <1>8, <1>9 DEF CreationInv

----------------------------------------------------------------------------
(* The invariant *)

LEMMA CreationStart == CreationInit => CreationInv
<1> SUFFICES ASSUME CreationInit  PROVE CreationInv
  OBVIOUS
<1>1. TablesTypeOK
  BY DraftType DEF CreationInit, TablesTypeOK, Places, Replies
<1>2. (\A c \in Calls : CallOK(c)) /\ LooseOK
  BY DEF CreationInit, CallOK, LooseOK, Inside
<1>3. \A k \in Keys : KeyOK(k)
  BY DEF CreationInit, KeyOK
<1>4. HoldsOK
  <2>1. \A b \in Budgets : Held(b) = {}
    BY DEF CreationInit, Held
  <2> QED  BY <2>1, TotalEmpty DEF CreationInit, HoldsOK
<1> QED  BY <1>1, <1>2, <1>3, <1>4 DEF CreationInv

LEMMA CreationKeeps == CreationInv /\ [CreationNext]_creationVars => CreationInv'
<1> SUFFICES ASSUME CreationInv, [CreationNext]_creationVars  PROVE CreationInv'
  OBVIOUS
<1>1. CASE UNCHANGED creationVars
  <2>1. /\ UNCHANGED <<pc, reply, told, draft, inserting, rowLock, request, status, resv,
                       reserved, consumed, events, evidence>>
    BY <1>1 DEF creationVars, callVars, lockVars, paymentVars, budgetVars
  <2>2. TablesTypeOK' /\ LooseOK'
    BY <2>1 DEF CreationInv, TablesTypeOK, LooseOK
  <2>3. \A c \in Calls : CallOK(c)'
    BY <2>1 DEF CreationInv, CallOK, Available
  <2>4. \A k \in Keys : KeyOK(k)'
    BY <2>1 DEF CreationInv, KeyOK
  <2>5. HoldsOK'
    BY <2>1 DEF CreationInv, HoldsOK, Held
  <2> QED  BY <2>2, <2>3, <2>4, <2>5 DEF CreationInv
<1>2. CASE CreationNext
  BY <1>2, BeforeInsertKeeps, InsertKeeps, DecideKeeps, ReserveKeeps, CommitKeeps, SettleKeeps
     DEF CreationNext, Advance
<1> QED  BY <1>1, <1>2

LEMMA CreationInvariant == CreationSpec => []CreationInv
BY CreationStart, CreationKeeps, PTL DEF CreationSpec

\* Loose evidence is the copy of evidence that is bound: the savepoint keeps
\* the row of a call that lost the race for its key.
THEOREM LooseIsRepeated == CreationSpec => []LooseEvidenceIsRepeated
<1>1. ASSUME CreationInv, NEW c \in Calls, evidence[c] = "LOOSE"
      PROVE  \E o \in Calls \ {c} :
                request[KeyOf[c]] = o /\ BodyOf[o] = BodyOf[c] /\ evidence[o] = "BOUND"
  <2>1. /\ request[KeyOf[c]] \in Calls \ {c}
        /\ BodyOf[request[KeyOf[c]]] = BodyOf[c]
    BY <1>1 DEF CreationInv, LooseOK
  <2>2. KeyOK(KeyOf[c])
    BY <1>1, KeyType DEF CreationInv
  <2> QED  BY <2>1, <2>2, CreationAssumption DEF KeyOK
<1>2. CreationInv => LooseEvidenceIsRepeated
  BY <1>1 DEF LooseEvidenceIsRepeated
<1> QED  BY <1>2, CreationInvariant, PTL

----------------------------------------------------------------------------
(* Who is paid for *)

\* What verify_signed_assertion has found and validate does not look at.
Verified(c) ==
    /\ claims[c].decoded /\ claims[c].grants
    /\ claims[c].agent = BodyOf[c].agent /\ claims[c].account = BodyOf[c].account

\* What is known of the authority of a call at the statement it has come to,
\* of the payment it has made and of the payment it is told of.
AuthOK(c) ==
    /\ claims[c] \in ClaimsOf[c]
    /\ pc[c] \notin {"start", "done"} => Admitted(PrincipalOf[c], BodyOf[c])
    /\ pc[c] = "validate" => Verified(c)
    /\ pc[c] \in {"insert", "reread"} \cup Inside => Authorizes(claims[c], BodyOf[c])
    /\ status[c] # "NONE" =>
          Admitted(PrincipalOf[c], BodyOf[c]) /\ Authorizes(claims[c], BodyOf[c])
    /\ told[c] # NoCall =>
          /\ status[told[c]] # "NONE" /\ BodyOf[told[c]] = BodyOf[c]
          /\ Admitted(PrincipalOf[c], BodyOf[c])

AuthInv == \A c \in Calls : AuthOK(c)

\* The two checks of the evidence make it whole: each looks at something that
\* the other leaves out.
LEMMA ChecksAuthorize ==
    ASSUME NEW c \in Calls, Verified(c), NEW expired,
           Validates(claims[c], BodyOf[c], expired), claims[c].quoted
    PROVE  Authorizes(claims[c], BodyOf[c])
BY DEF Verified, Validates, Authorizes

\* A step of call c has to show only what is known of c afterwards.
LEMMA AuthOfOthers ==
    ASSUME CreationInv, AuthInv, UNCHANGED claims, NEW c \in Calls, AuthOK(c)',
           \A d \in Calls \ {c} : /\ pc'[d] = pc[d] /\ told'[d] = told[d]
                                  /\ status'[d] = status[d],
           status[c] # "NONE" => status'[c] # "NONE"
    PROVE  AuthInv'
<1> SUFFICES ASSUME NEW d \in Calls, d # c  PROVE AuthOK(d)'
  BY DEF AuthInv
<1>1. AuthOK(d) /\ told[d] \in Calls \cup {NoCall}
  BY DEF AuthInv, CreationInv, TablesTypeOK
<1>2. told[d] # NoCall /\ status[told[d]] # "NONE" => status'[told[d]] # "NONE"
  BY <1>1
<1> QED  BY <1>1, <1>2 DEF AuthOK, Verified

LEMMA AuthRollback ==
    ASSUME CreationInv, AuthInv, UNCHANGED claims, NEW c \in Calls, NEW word,
           Rollback(c, word)
    PROVE  AuthInv'
<1>0. TablesTypeOK /\ AuthOK(c)
  BY DEF CreationInv, AuthInv
<1>1. /\ pc' = [pc EXCEPT ![c] = "done"] /\ told' = [told EXCEPT ![c] = NoCall]
      /\ status' = status
  BY DEF Rollback, End, Goto, paymentVars
<1>2. pc'[c] = "done" /\ told'[c] = NoCall
  BY <1>0, <1>1 DEF TablesTypeOK
<1>3. AuthOK(c)'
  BY <1>0, <1>1, <1>2 DEF AuthOK, Inside
<1> QED  BY <1>0, <1>1, <1>3, AuthOfOthers DEF TablesTypeOK

\* A step after which the call stands at another statement, nothing told.
LEMMA AuthProceed ==
    ASSUME CreationInv, AuthInv, UNCHANGED <<claims, told, status>>, NEW c \in Calls,
           NEW place, Goto(c, place),
           place # "done" => Admitted(PrincipalOf[c], BodyOf[c]),
           place = "validate" => Verified(c),
           place \in {"insert", "reread"} \cup Inside => Authorizes(claims[c], BodyOf[c])
    PROVE  AuthInv'
<1>0. TablesTypeOK /\ AuthOK(c)
  BY DEF CreationInv, AuthInv
<1>1. pc' = [pc EXCEPT ![c] = place] /\ pc'[c] = place
  BY <1>0 DEF TablesTypeOK, Goto
<1>2. AuthOK(c)'
  BY <1>0, <1>1 DEF AuthOK, Verified
<1> QED  BY <1>0, <1>1, <1>2, AuthOfOthers DEF TablesTypeOK

LEMMA AuthAnswer ==
    ASSUME CreationInv, AuthInv, UNCHANGED claims, NEW c \in Calls,
           Admitted(PrincipalOf[c], BodyOf[c]), request[KeyOf[c]] # NoCall,
           NEW leaving, AnswerWith(c, request[KeyOf[c]], leaving)
    PROVE  AuthInv'
<1> DEFINE o == request[KeyOf[c]]
<1>0. TablesTypeOK /\ AuthOK(c)
  BY DEF CreationInv, AuthInv
<1>1. CASE BodyOf[o] # BodyOf[c] \/ status[o] = "NONE"
  BY <1>1, AuthRollback DEF AnswerWith
<1>2. CASE BodyOf[o] = BodyOf[c] /\ status[o] # "NONE"
  <2>1. /\ pc' = [pc EXCEPT ![c] = "done"] /\ told' = [told EXCEPT ![c] = o]
        /\ status' = status
    BY <1>2 DEF AnswerWith, End, Goto, paymentVars
  <2>2. pc'[c] = "done" /\ told'[c] = o
    BY <1>0, <2>1 DEF TablesTypeOK
  <2>3. AuthOK(c)'
    BY <1>0, <1>2, <2>1, <2>2 DEF AuthOK, Inside
  <2> QED  BY <1>0, <2>1, <2>3, AuthOfOthers DEF TablesTypeOK
<1> QED  BY <1>1, <1>2

LEMMA AuthCommit ==
    ASSUME CreationInv, AuthInv, UNCHANGED claims, NEW c \in Calls, Commit(c)
    PROVE  AuthInv'
<1>0. TablesTypeOK /\ AuthOK(c) /\ pc[c] = "commit" /\ draft[c].status # "NONE"
  BY CommitFacts DEF CreationInv, AuthInv, Commit
<1>1. PICK payment \in {c, NoCall} :
        /\ pc' = [pc EXCEPT ![c] = "done"] /\ told' = [told EXCEPT ![c] = payment]
        /\ status' = [status EXCEPT ![c] = draft[c].status]
  BY DEF Commit, End, Goto
<1>2. pc'[c] = "done" /\ told'[c] = payment /\ status'[c] # "NONE"
  BY <1>0, <1>1 DEF TablesTypeOK
<1>3. Admitted(PrincipalOf[c], BodyOf[c]) /\ Authorizes(claims[c], BodyOf[c])
  BY <1>0 DEF AuthOK, Inside
<1>4. AuthOK(c)'
  BY <1>0, <1>2, <1>3 DEF AuthOK, Inside
<1> QED  BY <1>0, <1>1, <1>2, <1>4, AuthOfOthers DEF TablesTypeOK

LEMMA AuthSettle ==
    ASSUME CreationInv, AuthInv, UNCHANGED claims, NEW c \in Calls, WorkerSettles(c)
    PROVE  AuthInv'
<1>0. TablesTypeOK /\ AuthOK(c) /\ status[c] = "PROCESSING"
  BY DEF CreationInv, AuthInv, WorkerSettles
<1>1. /\ UNCHANGED <<pc, told>>
      /\ \E outcome \in {"SUCCEEDED", "FAILED"} : status' = [status EXCEPT ![c] = outcome]
  BY DEF WorkerSettles, SettleAs, callVars
<1>2. status'[c] # "NONE" /\ \A d \in Calls \ {c} : status'[d] = status[d]
  BY <1>0, <1>1 DEF TablesTypeOK
<1>3. told[c] \in Calls \cup {NoCall}
  BY <1>0 DEF TablesTypeOK
<1>4. AuthOK(c)'
  BY <1>0, <1>1, <1>2, <1>3 DEF AuthOK, Verified
<1> QED  BY <1>1, <1>2, <1>4, AuthOfOthers

LEMMA AuthStep ==
    CreationInv /\ AuthInv /\ [CreationNext]_creationVars => AuthInv'
<1> SUFFICES ASSUME CreationInv, AuthInv, [CreationNext]_creationVars  PROVE AuthInv'
  OBVIOUS
<1>1. CASE UNCHANGED creationVars
  BY <1>1 DEF creationVars, callVars, paymentVars, AuthInv, AuthOK, Verified
<1>2. CASE CreationNext
  <2>1. PICK c \in Calls : Advance(c) \/ CutOff(c) \/ WorkerSettles(c)
    BY <1>2 DEF CreationNext
  <2>2. UNCHANGED claims /\ AuthOK(c)
    BY <1>2 DEF CreationNext, AuthInv
  <2>3. CASE LookUp(c)
    BY <2>2, <2>3, AuthProceed, AuthAnswer DEF LookUp, Proceed, paymentVars, Inside
  <2>4. CASE Verify(c)
    <3>1. Admitted(PrincipalOf[c], BodyOf[c])
      BY <2>2, <2>4 DEF Verify, AuthOK
    <3>2. PICK expired \in BOOLEAN :
            \/ Verifies(claims[c], BodyOf[c], expired) /\ Proceed(c, "validate")
            \/ Rollback(c, "refused")
      BY <2>4 DEF Verify
    <3>3. Verifies(claims[c], BodyOf[c], expired) => Verified(c)
      BY DEF Verifies, Verified
    <3> QED
      BY <2>2, <3>1, <3>2, <3>3, AuthProceed, AuthRollback DEF Proceed, paymentVars, Inside
  <2>5. CASE Validate(c)
    <3>1. Admitted(PrincipalOf[c], BodyOf[c]) /\ Verified(c)
      BY <2>2, <2>5 DEF Validate, AuthOK
    <3>2. PICK expired \in BOOLEAN :
            \/ /\ Validates(claims[c], BodyOf[c], expired) /\ claims[c].quoted
               /\ Proceed(c, "insert")
            \/ Rollback(c, "refused")
      BY <2>5 DEF Validate
    <3> QED
      BY <2>2, <3>1, <3>2, ChecksAuthorize, AuthProceed, AuthRollback
         DEF Proceed, paymentVars, Inside
  <2>6. CASE InsertRequest(c)
    <3>1. Admitted(PrincipalOf[c], BodyOf[c]) /\ Authorizes(claims[c], BodyOf[c])
      BY <2>2, <2>6 DEF InsertRequest, AuthOK
    <3>2. UNCHANGED <<told, status>> /\ \E place \in {"reread", "decide"} : Goto(c, place)
      BY <2>6 DEF InsertRequest, Proceed, paymentVars
    <3> QED  BY <2>2, <3>1, <3>2, AuthProceed
  <2>7. CASE Reread(c)
    BY <2>2, <2>7, AuthRollback, AuthAnswer DEF Reread, AuthOK
  <2>8. CASE Decide(c)
    <3>1. Admitted(PrincipalOf[c], BodyOf[c]) /\ Authorizes(claims[c], BodyOf[c])
      BY <2>2, <2>8 DEF Decide, AuthOK, Inside
    <3>2. UNCHANGED <<told, status>> /\ \E place \in {"reserve", "commit"} : Goto(c, place)
      BY <2>8 DEF Decide, paymentVars
    <3> QED  BY <2>2, <3>1, <3>2, AuthProceed
  <2>9. CASE Reserve(c)
    <3>1. Admitted(PrincipalOf[c], BodyOf[c]) /\ Authorizes(claims[c], BodyOf[c])
      BY <2>2, <2>9 DEF Reserve, AuthOK, Inside
    <3>2. Rollback(c, "error") \/ (Goto(c, "commit") /\ UNCHANGED <<told, status>>)
      BY <2>9 DEF Reserve, paymentVars
    <3> QED  BY <2>2, <3>1, <3>2, AuthProceed, AuthRollback
  <2>10. CASE CutOff(c)
    BY <2>2, <2>10, AuthRollback DEF CutOff
  <2> QED
    BY <2>1, <2>2, <2>3, <2>4, <2>5, <2>6, <2>7, <2>8, <2>9, <2>10, AuthCommit, AuthSettle
       DEF Advance
<1> QED  BY <1>1, <1>2

LEMMA AuthStart == CreationInit => AuthInv
<1> SUFFICES ASSUME CreationInit, NEW c \in Calls  PROVE AuthOK(c)
  BY DEF AuthInv
<1>1. claims[c] \in ClaimsOf[c]
  BY DEF CreationInit
<1>2. pc[c] = "start" /\ told[c] = NoCall /\ status[c] = "NONE"
  BY DEF CreationInit
<1> QED  BY <1>1, <1>2 DEF AuthOK, Inside

LEMMA AuthInvariant == CreationSpec => []AuthInv
BY AuthStart, AuthStep, CreationInvariant, PTL DEF CreationSpec

\* Every column and lock keeps its type; that a budget's counter never goes
\* below zero is because it is the sum of the reservations (HoldsOK).
THEOREM CreationTypes == CreationSpec => []CreationTypeOK
<1>1. CreationInv /\ AuthInv => CreationTypeOK
  BY DEF CreationInv, AuthInv, AuthOK, CreationTypeOK
<1> QED  BY <1>1, CreationInvariant, AuthInvariant, PTL

\* Whatever interleaves, a payment is only ever made for an admitted request
\* whose own evidence authorises it, and a caller is only told of a payment
\* that it asked for itself: create_payment, its replays included.
THEOREM PaymentsAuthorized == CreationSpec => []PaidAsAuthorized
<1>1. AuthInv => PaidAsAuthorized
  BY DEF AuthInv, AuthOK, PaidAsAuthorized
<1> QED  BY <1>1, AuthInvariant, PTL

----------------------------------------------------------------------------
(* The answers *)

LEMMA RollbackAnswers ==
    ASSUME CreationInv, NEW c \in Calls, pc[c] # "done", NEW word, Rollback(c, word)
    PROVE  Once!Answer(c, word, NoCall) /\ request' = request
<1>1. reply[c] = "none"
  BY DEF CreationInv, CallOK
<1> QED  BY <1>1 DEF Rollback, End, paymentVars, Once!Answer

LEMMA ReplayAnswers ==
    ASSUME CreationInv, NEW c \in Calls, pc[c] # "done", request[KeyOf[c]] # NoCall,
           NEW leaving, AnswerWith(c, request[KeyOf[c]], leaving)
    PROVE  Once!Replay(c) \/ Once!Conflict(c)
<1> DEFINE o == request[KeyOf[c]]
<1>1. reply[c] = "none" /\ status[o] # "NONE"
  BY KeyType DEF CreationInv, CallOK, KeyOK
<1>2. CASE BodyOf[o] # BodyOf[c]
  BY <1>2, RollbackAnswers DEF AnswerWith, Once!Conflict
<1>3. CASE BodyOf[o] = BodyOf[c]
  BY <1>1, <1>3 DEF AnswerWith, End, paymentVars, Once!Replay, Once!Answer
<1> QED  BY <1>2, <1>3

LEMMA StepAnswers == CreationInv /\ [CreationNext]_creationVars => [Once!Next]_(Once!vars)
<1> SUFFICES ASSUME CreationInv, [CreationNext]_creationVars
             PROVE  Once!Next \/ UNCHANGED <<request, reply, told>>
  BY DEF Once!vars
<1>1. CASE UNCHANGED creationVars
  BY <1>1 DEF creationVars, callVars, paymentVars
<1>2. ASSUME NEW c \in Calls, WorkerSettles(c)  PROVE UNCHANGED <<request, reply, told>>
  BY <1>2 DEF WorkerSettles, SettleAs, callVars
<1>3. ASSUME NEW c \in Calls, pc[c] # "done", NEW word \in {"refused", "error", "lost"},
             Rollback(c, word)
      PROVE  Once!Next
  BY <1>3, RollbackAnswers DEF Once!Next, Once!TurnAway
<1>4. ASSUME NEW c \in Calls, NEW place, Proceed(c, place)
      PROVE  UNCHANGED <<request, reply, told>>
  BY <1>4 DEF Proceed, paymentVars
<1>5. ASSUME NEW c \in Calls, LookUp(c) \/ Reread(c)
      PROVE  Once!Next \/ UNCHANGED <<request, reply, told>>
  <2>1. pc[c] # "done" /\ (Reread(c) => request[KeyOf[c]] # NoCall)
    BY <1>5 DEF LookUp, Reread, CreationInv, CallOK
  <2> QED  BY <1>4, <1>5, <2>1, ReplayAnswers DEF LookUp, Reread, Once!Next
<1>6. ASSUME NEW c \in Calls, Verify(c) \/ Validate(c) \/ CutOff(c)
      PROVE  Once!Next \/ UNCHANGED <<request, reply, told>>
  BY <1>3, <1>4, <1>6 DEF Verify, Validate, CutOff
<1>7. ASSUME NEW c \in Calls, InsertRequest(c) \/ Decide(c) \/ Reserve(c)
      PROVE  Once!Next \/ UNCHANGED <<request, reply, told>>
  BY <1>3, <1>4, <1>7 DEF InsertRequest, Decide, Reserve, paymentVars
<1>8. ASSUME NEW c \in Calls, Commit(c)  PROVE Once!Next
  <2>1. request[KeyOf[c]] = NoCall /\ reply[c] = "none"
    BY <1>8, CommitFacts DEF Commit
  <2>2. Once!Create(c)
    BY <1>8, <2>1 DEF Commit, End, Once!Create, Once!Answer
  <2> QED  BY <2>2 DEF Once!Next
<1> QED
  BY <1>1, <1>2, <1>5, <1>6, <1>7, <1>8 DEF CreationNext, Advance

\* An idempotency key is used once: of the calls that have it one makes the
\* payment, and the others are told of that payment or of a conflict.
THEOREM ImplementsCreateOnce == CreationSpec => CreatesOnce
<1>1. CreationInit => Once!Init
  BY DEF CreationInit, Once!Init, Keys
<1> QED
  BY <1>1, StepAnswers, CreationInvariant, PTL DEF CreationSpec, CreatesOnce, Once!Spec

----------------------------------------------------------------------------
(* The tables *)

LEMMA CommitIsAtomic ==
    ASSUME CreationInv, NEW c \in Calls, Commit(c)
    PROVE  \/ Atomic!CreateRefused(c) \/ Atomic!CreateForApproval(c) \/ Atomic!CreateAllowed(c)
<1>0. TablesTypeOK /\ Amount[c] \in Nat
  BY CreationAssumption DEF CreationInv
<1>1. /\ status[c] = "NONE" /\ resv[c] = "NONE" /\ events[c] = {}
      /\ draft[c] \in {Refusal, Waiting} \cup Started
      /\ draft[c].status = "PROCESSING" => Available(BudgetOf[c]) >= Amount[c]
  BY CommitFacts DEF Commit
<1>2. /\ status' = [status EXCEPT ![c] = draft[c].status]
      /\ events' = [events EXCEPT ![c] = @ \cup draft[c].events]
      /\ draft[c].status = "PROCESSING" =>
            /\ resv' = [resv EXCEPT ![c] = "RESERVED"]
            /\ reserved' = [reserved EXCEPT ![BudgetOf[c]] = @ + Amount[c]]
            /\ UNCHANGED consumed
      /\ draft[c].status # "PROCESSING" => UNCHANGED <<resv, reserved, consumed>>
  BY <1>1 DEF Commit, budgetVars
<1>3. CASE draft[c] = Refusal
  <2>1. /\ status' = [status EXCEPT ![c] = "FAILED"]
        /\ events' = [events EXCEPT ![c] = @ \cup {"PaymentFailed"}]
        /\ UNCHANGED <<resv, reserved, consumed>>
    BY <1>2, <1>3 DEF Refusal
  <2>2. \A d \in Calls : status'[d] = "APPROVAL_REQUIRED" <=> status[d] = "APPROVAL_REQUIRED"
    BY <1>0, <1>1, <2>1 DEF TablesTypeOK
  <2> QED
    BY <1>1, <2>1, <2>2
       DEF Atomic!CreateRefused, Atomic!SetStatus, Atomic!Emit, Atomic!budgetVars,
           Atomic!operationVars, Atomic!ledgerVars, Atomic!checkoutVars
<1>4. CASE draft[c] = Waiting
  <2>1. /\ status' = [status EXCEPT ![c] = "APPROVAL_REQUIRED"]
        /\ events' = [events EXCEPT ![c] = @ \cup {"ApprovalRequested"}]
        /\ UNCHANGED <<resv, reserved, consumed>>
    BY <1>2, <1>4 DEF Waiting
  <2>2. \A d \in Calls : status'[d] = IF d = c THEN "APPROVAL_REQUIRED" ELSE status[d]
    BY <1>0, <2>1 DEF TablesTypeOK
  <2> QED
    BY <1>1, <2>1, <2>2
       DEF Atomic!CreateForApproval, Atomic!SetApproval, Atomic!SetStatus, Atomic!Emit,
           Atomic!budgetVars, Atomic!operationVars, Atomic!ledgerVars
<1>5. CASE draft[c] \in Started
  <2>1. PICK notice \in SUBSET {"NotificationRequested"} :
          draft[c] = [status |-> "PROCESSING", events |-> {"PaymentStarted"} \cup notice]
    BY <1>5 DEF Started
  <2>2. draft[c].status = "PROCESSING" /\ draft[c].events = {"PaymentStarted"} \cup notice
    BY <2>1
  <2>3. \A d \in Calls : status'[d] = "APPROVAL_REQUIRED" <=> status[d] = "APPROVAL_REQUIRED"
    BY <1>0, <1>1, <1>2, <2>2 DEF TablesTypeOK
  <2>4. Atomic!Reserve(c)
    BY <1>1, <1>2, <2>2 DEF Atomic!Reserve, Atomic!Available, Available
  <2>5. Atomic!Prepare(c, notice)
    BY <1>2, <2>2, <2>4
       DEF Atomic!Prepare, Atomic!SetStatus, Atomic!Emit, Atomic!operationVars, Atomic!ledgerVars
  <2> QED  BY <1>1, <2>3, <2>5 DEF Atomic!CreateAllowed, Atomic!checkoutVars
<1> QED  BY <1>1, <1>3, <1>4, <1>5

LEMMA OtherStepsLeaveTables ==
    ASSUME NEW c \in Calls,
           \/ LookUp(c) \/ Verify(c) \/ Validate(c) \/ InsertRequest(c) \/ Reread(c)
           \/ Decide(c) \/ Reserve(c) \/ CutOff(c)
    PROVE  UNCHANGED paymentVars
<1>1. ASSUME NEW word, Rollback(c, word)  PROVE UNCHANGED paymentVars
  BY <1>1 DEF Rollback
<1>2. ASSUME NEW place, Proceed(c, place)  PROVE UNCHANGED paymentVars
  BY <1>2 DEF Proceed
<1>3. ASSUME NEW o, NEW leaving, AnswerWith(c, o, leaving)  PROVE UNCHANGED paymentVars
  BY <1>1, <1>3 DEF AnswerWith
<1> QED
  BY <1>1, <1>2, <1>3
     DEF LookUp, Verify, Validate, InsertRequest, Reread, Decide, Reserve, CutOff

\* The statements of create_payment amount to one step of Checkout: what it
\* reads before it waits for a key or a budget still holds when it commits.
THEOREM ImplementsCheckout == CreationSpec => CreatesAtomically
<1>1. CreationInit => Atomic!StoreInit /\ Atomic!CheckoutInit
  <2> SUFFICES ASSUME CreationInit  PROVE Atomic!StoreInit /\ Atomic!CheckoutInit
    OBVIOUS
  <2>1. Atomic!TxnKeys = ChargeTxnKeys
    BY DEF Atomic!TxnKeys, Atomic!CaptureKeys, Atomic!LifecycleKeys, ChargeTxnKeys
  <2>2. Atomic!StoreInit
    BY <2>1 DEF CreationInit, Atomic!StoreInit
  <2>3. Atomic!CheckoutInit
    BY DEF CreationInit, Atomic!CheckoutInit
  <2> QED  BY <2>2, <2>3
<1>2. CreationInv /\ [CreationNext]_creationVars =>
        [\E c \in Calls :
            \/ Atomic!CreateRefused(c)
            \/ Atomic!CreateForApproval(c)
            \/ Atomic!CreateAllowed(c)
            \/ WorkerSettles(c)]_paymentVars
  BY CommitIsAtomic, OtherStepsLeaveTables DEF CreationNext, Advance, creationVars
<1> QED
  BY <1>1, <1>2, CreationInvariant, PTL DEF CreationSpec, CreatesAtomically
=============================================================================
