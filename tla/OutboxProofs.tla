---------------------------- MODULE OutboxProofs ----------------------------
(* For any events, publishers, bounds, and with recovery or without it. *)
EXTENDS Outbox, TLAPS

OutboxInv == OutboxTypeOK /\ PublishedTookEffect

\* What a step may do to the rows and effects of events: keep every effect,
\* leave published rows alone and publish only what has its effect.
RowStep ==
    /\ row' \in [Events -> RowStatus]
    /\ effect' \in [Events -> {0, 1}]
    /\ \A e \in Events :
          /\ row[e] = "PUBLISHED" => row'[e] = "PUBLISHED"
          /\ effect[e] = 1 => effect'[e] = 1
          /\ row'[e] = "PUBLISHED" => row[e] = "PUBLISHED" \/ effect'[e] = 1

LEMMA MarkPublishedRow ==
    ASSUME OutboxTypeOK, NEW e \in Events, RecordEffect(e), MarkPublished(e)
    PROVE  RowStep
BY DEF OutboxTypeOK, RowStatus, RecordEffect, MarkPublished, RowStep

LEMMA MarkFailedRow ==
    ASSUME OutboxTypeOK, NEW e \in Events, MarkFailed(e), UNCHANGED effect
    PROVE  RowStep /\ due' \in [Events -> BOOLEAN]
<1>1. RowStep
  BY DEF OutboxTypeOK, RowStatus, MarkFailed, RowStep
<1>2. due' \in [Events -> BOOLEAN]
  BY DEF OutboxTypeOK, MarkFailed
<1> QED  BY <1>1, <1>2

LEMMA SameRows ==
    ASSUME OutboxTypeOK, UNCHANGED <<row, effect>>
    PROVE  RowStep
BY DEF OutboxTypeOK, RowStep

LEMMA ClaimRow ==
    ASSUME OutboxTypeOK, NEW w \in Publishers, Claim(w)
    PROVE  OutboxTypeOK' /\ RowStep
<1> USE DEF OutboxTypeOK
<1>1. PICK claimed \in SUBSET {e \in Events : row[e] = "PENDING" /\ due[e]} \ {{}} :
          /\ row' = [e \in Events |-> IF e \in claimed THEN "PROCESSING" ELSE row[e]]
          /\ attempts' = [e \in Events |->
                             IF e \in claimed /\ attempts[e] < MaxAttempts
                             THEN attempts[e] + 1 ELSE attempts[e]]
          /\ overdue' = [e \in Events |-> overdue[e] /\ e \notin claimed]
          /\ batch' = [batch EXCEPT ![w] = claimed]
  BY DEF Claim
<1>2. UNCHANGED <<due, effect, returning, failures>>
  BY DEF Claim
<1>3. RowStep
  BY <1>1, <1>2 DEF RowStatus, RowStep
<1>4. attempts' \in [Events -> 0 .. MaxAttempts]
  BY <1>1, OutboxAssumption
<1>5. overdue' \in [Events -> BOOLEAN]
  BY <1>1
<1>6. batch' \in [Publishers -> SUBSET Events]
  BY <1>1
<1> QED  BY <1>2, <1>3, <1>4, <1>5, <1>6 DEF RowStep

LEMMA RecoverRow ==
    ASSUME OutboxTypeOK, RecoverStale
    PROVE  OutboxTypeOK' /\ RowStep
<1> USE DEF OutboxTypeOK
<1> DEFINE stale == {e \in Events : row[e] = "PROCESSING" /\ overdue[e]}
<1>1. /\ row' = [e \in Events |-> IF e \in stale THEN AfterLease(e) ELSE row[e]]
      /\ due' = [e \in Events |-> due[e] \/ e \in stale]
      /\ overdue' = [e \in Events |-> overdue[e] /\ e \notin stale]
      /\ UNCHANGED <<attempts, effect, publisherVars, failures>>
  BY DEF RecoverStale
<1>2. \A e \in Events : AfterLease(e) \in {"PENDING", "DEAD_LETTER"}
  BY DEF AfterLease
<1>3. RowStep
  BY <1>1, <1>2 DEF RowStatus, RowStep
<1>4. due' \in [Events -> BOOLEAN] /\ overdue' \in [Events -> BOOLEAN]
  BY <1>1
<1> QED  BY <1>1, <1>3, <1>4 DEF RowStep, publisherVars

----------------------------------------------------------------------------
LEMMA PublisherRow ==
    ASSUME OutboxTypeOK, NEW w \in Publishers,
           \/ PublisherStep(w)
           \/ CrashPublisher(w)
           \/ \E e \in Events \ Poison : Raise(w, e) \/ RaiseAfterCommit(w, e)
    PROVE  OutboxTypeOK' /\ RowStep
<1>a. Poison \subseteq Events /\ MaxFailures \in Nat
  BY OutboxAssumption
<1>1. CASE Claim(w)
  BY <1>1, ClaimRow
<1>2. ASSUME NEW e \in Events, Publish(w, e)  PROVE OutboxTypeOK' /\ RowStep
  <2>1. RowStep
    BY <1>2, MarkPublishedRow DEF Publish
  <2>2. batch' \in [Publishers -> SUBSET Events]
    BY <1>2 DEF OutboxTypeOK, Publish, Taking
  <2> QED
    BY <1>2, <2>1, <2>2 DEF OutboxTypeOK, RowStep, Publish, MarkPublished
<1>3. ASSUME NEW e \in Events, Raise(w, e)  PROVE OutboxTypeOK' /\ RowStep
  <2>1. RowStep
    BY <1>3, SameRows DEF Raise, rowVars
  <2>2. /\ batch' \in [Publishers -> SUBSET Events]
        /\ returning' \in [Publishers -> Events \cup {NoEvent}]
    BY <1>3 DEF OutboxTypeOK, Raise, Taking
  <2>3. failures' \in 0 .. MaxFailures
    BY <1>3, <1>a DEF OutboxTypeOK, Raise
  <2> QED  BY <1>3, <2>1, <2>2, <2>3 DEF OutboxTypeOK, Raise, rowVars
<1>4. ASSUME NEW e \in Events, RaiseAfterCommit(w, e)  PROVE OutboxTypeOK' /\ RowStep
  <2>1. RowStep
    BY <1>4, MarkPublishedRow DEF RaiseAfterCommit
  <2>2. /\ batch' \in [Publishers -> SUBSET Events]
        /\ returning' \in [Publishers -> Events \cup {NoEvent}]
    BY <1>4 DEF OutboxTypeOK, RaiseAfterCommit, Taking
  <2>3. failures' \in 0 .. MaxFailures
    BY <1>4, <1>a DEF OutboxTypeOK, RaiseAfterCommit
  <2> QED
    BY <1>4, <2>1, <2>2, <2>3 DEF OutboxTypeOK, RowStep, RaiseAfterCommit, MarkPublished
<1>5. CASE Return(w)
  <2>1. returning[w] \in Events
    BY <1>5 DEF OutboxTypeOK, Return
  <2>2. RowStep /\ due' \in [Events -> BOOLEAN]
    BY <1>5, <2>1, MarkFailedRow DEF Return
  <2>3. returning' \in [Publishers -> Events \cup {NoEvent}]
    BY <1>5 DEF OutboxTypeOK, Return
  <2> QED
    BY <1>5, <2>2, <2>3 DEF OutboxTypeOK, RowStep, Return, MarkFailed
<1>6. CASE CrashPublisher(w)
  <2>1. RowStep
    BY <1>6, SameRows DEF CrashPublisher, rowVars
  <2>2. /\ batch' \in [Publishers -> SUBSET Events]
        /\ returning' \in [Publishers -> Events \cup {NoEvent}]
    BY <1>6 DEF OutboxTypeOK, CrashPublisher
  <2> QED  BY <1>6, <2>1, <2>2 DEF OutboxTypeOK, CrashPublisher, rowVars
<1> QED  BY <1>a, <1>1, <1>2, <1>3, <1>4, <1>5, <1>6 DEF PublisherStep

LEMMA EventRow ==
    ASSUME OutboxTypeOK, NEW e \in Events,
           Enqueue(e) \/ BecomesDue(e) \/ LeaseExpires(e)
    PROVE  OutboxTypeOK' /\ RowStep
<1>1. CASE Enqueue(e)
  <2>1. RowStep
    BY <1>1 DEF OutboxTypeOK, RowStatus, Enqueue, RowStep
  <2> QED  BY <1>1, <2>1 DEF OutboxTypeOK, RowStep, Enqueue, publisherVars
<1>2. CASE BecomesDue(e)
  BY <1>2, SameRows DEF OutboxTypeOK, BecomesDue, publisherVars
<1>3. CASE LeaseExpires(e)
  BY <1>3, SameRows DEF OutboxTypeOK, LeaseExpires, publisherVars
<1> QED  BY <1>1, <1>2, <1>3

\* Every step keeps the types and treats the rows as RowStep allows.
LEMMA OutboxStep ==
    ASSUME OutboxTypeOK, [OutboxNext]_outboxVars
    PROVE  OutboxTypeOK' /\ RowStep
<1>1. CASE OutboxNext
  BY <1>1, EventRow, PublisherRow, RecoverRow DEF OutboxNext
<1>2. CASE UNCHANGED outboxVars
  <2>1. UNCHANGED <<row, attempts, due, overdue, effect, batch, returning, failures>>
    BY <1>2 DEF outboxVars, rowVars, publisherVars
  <2> QED  BY <2>1, SameRows DEF OutboxTypeOK
<1> QED  BY <1>1, <1>2

LEMMA OutboxStart == OutboxInit => OutboxInv
<1> SUFFICES ASSUME OutboxInit PROVE OutboxInv
  OBVIOUS
<1>1. OutboxTypeOK
  BY OutboxAssumption DEF OutboxInit, OutboxTypeOK, RowStatus
<1>2. PublishedTookEffect
  BY DEF OutboxInit, PublishedTookEffect
<1> QED  BY <1>1, <1>2 DEF OutboxInv

LEMMA OutboxKeeps == OutboxInv /\ [OutboxNext]_outboxVars => OutboxInv'
<1> SUFFICES ASSUME OutboxInv, [OutboxNext]_outboxVars PROVE OutboxInv'
  OBVIOUS
<1>1. OutboxTypeOK' /\ RowStep
  BY OutboxStep DEF OutboxInv
<1>2. PublishedTookEffect'
  BY <1>1 DEF OutboxInv, PublishedTookEffect, RowStep
<1> QED  BY <1>1, <1>2 DEF OutboxInv

\* The columns keep their types; in particular an event has at most one row in
\* audit_events or notifications, however often it is delivered.
THEOREM OutboxTypes == OutboxSpec => []OutboxTypeOK
<1>1. OutboxInv => OutboxTypeOK
  BY DEF OutboxInv
<1> QED  BY <1>1, OutboxStart, OutboxKeeps, PTL DEF OutboxSpec

\* What is marked published has been recorded (process_once).
THEOREM PublishedRecorded == OutboxSpec => []PublishedTookEffect
<1>1. OutboxInv => PublishedTookEffect
  BY DEF OutboxInv
<1> QED  BY <1>1, OutboxStart, OutboxKeeps, PTL DEF OutboxSpec

\* A published event is never handed out again (the guards of mark_failed and
\* recover_stale).
THEOREM PublishedFinal == OutboxSpec => PublishedIsFinal
<1>1. OutboxInv /\ [OutboxNext]_outboxVars =>
        [\A e \in Events : row[e] = "PUBLISHED" => row'[e] = "PUBLISHED"]_outboxVars
  BY OutboxStep DEF OutboxInv, RowStep
<1> QED  BY <1>1, OutboxStart, OutboxKeeps, PTL DEF OutboxSpec, PublishedIsFinal
=============================================================================
