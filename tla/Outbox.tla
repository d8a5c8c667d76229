------------------------------- MODULE Outbox -------------------------------
(***************************************************************************)
(* Delivery of the events the handlers enqueue: outbox.py,                 *)
(* outbox_worker.process_once and the audit and notification rows it       *)
(* writes.  A publisher claims a batch in one transaction, then handles    *)
(* each event in a transaction of its own, and returns it with a delay in  *)
(* another one when that raises.  Publishers run side by side, may crash   *)
(* at any step, and may be so slow that their claim is taken from them.    *)
(***************************************************************************)
EXTENDS Integers, FiniteSets

CONSTANTS
    Events,         \* rows of outbox_events
    Poison,         \* events whose handling always raises
    Publishers,
    NoEvent,        \* what a publisher with nothing to return holds
    MaxAttempts,    \* recover_stale's max_attempts
    MaxFailures,    \* bound on failures of events that are not poison
    RecoveryRuns    \* whether somebody calls recover_stale

ASSUME OutboxAssumption ==
    /\ Poison \subseteq Events /\ NoEvent \notin Events
    /\ MaxAttempts \in Nat \ {0} /\ MaxFailures \in Nat
    /\ RecoveryRuns \in BOOLEAN

RowStatus == {"NONE", "PENDING", "PROCESSING", "PUBLISHED", "DEAD_LETTER"}

VARIABLES
    row,        \* outbox_events.status, "NONE" before it is enqueued
    attempts,   \* attempts, counted no further than MaxAttempts
    due,        \* available_at has come
    overdue,    \* processing_at is longer ago than the lease
    effect,     \* rows of audit_events or notifications with this event's id
    batch,      \* claimed events a publisher has still to handle
    returning,  \* the event whose handling raised and was rolled back
    failures

rowVars == <<row, attempts, due, overdue>>
publisherVars == <<batch, returning>>
outboxVars == <<rowVars, effect, publisherVars, failures>>

OutboxTypeOK ==
    /\ row \in [Events -> RowStatus]
    /\ attempts \in [Events -> 0 .. MaxAttempts]
    /\ due \in [Events -> BOOLEAN]
    /\ overdue \in [Events -> BOOLEAN]
    /\ effect \in [Events -> {0, 1}]
    /\ batch \in [Publishers -> SUBSET Events]
    /\ returning \in [Publishers -> Events \cup {NoEvent}]
    /\ failures \in 0 .. MaxFailures

OutboxInit ==
    /\ row = [e \in Events |-> "NONE"]
    /\ attempts = [e \in Events |-> 0]
    /\ due = [e \in Events |-> TRUE]
    /\ overdue = [e \in Events |-> FALSE]
    /\ effect = [e \in Events |-> 0]
    /\ batch = [w \in Publishers |-> {}]
    /\ returning = [w \in Publishers |-> NoEvent]
    /\ failures = 0

----------------------------------------------------------------------------
(* The statements of outbox.py and audit.py *)

\* enqueue, committed with the handler that calls it.
Enqueue(e) ==
    /\ row[e] = "NONE"
    /\ row' = [row EXCEPT ![e] = "PENDING"]
    /\ UNCHANGED <<attempts, due, overdue, effect, publisherVars, failures>>

\* mark_published: only what is still PROCESSING.
MarkPublished(e) ==
    /\ row' = [row EXCEPT ![e] = IF @ = "PROCESSING" THEN "PUBLISHED" ELSE @]
    /\ UNCHANGED <<attempts, due, overdue>>

\* Seeded fault: the row's status is not looked at.
FaultMarkFailed(e) ==
    /\ row' = [row EXCEPT ![e] = "PENDING"]
    /\ due' = [due EXCEPT ![e] = FALSE]
    /\ UNCHANGED <<attempts, overdue>>

\* mark_failed: likewise, back to PENDING and available later.
MarkFailed(e) ==
    /\ row' = [row EXCEPT ![e] = IF @ = "PROCESSING" THEN "PENDING" ELSE @]
    /\ due' = [due EXCEPT ![e] = @ /\ row[e] # "PROCESSING"]
    /\ UNCHANGED <<attempts, overdue>>

\* Seeded fault: the row is inserted whether or not the event has one.
FaultRecordEffect(e) == effect' = [effect EXCEPT ![e] = @ + 1]

\* record_audit and enqueue_notification: ON CONFLICT DO NOTHING.
RecordEffect(e) == effect' = [effect EXCEPT ![e] = IF @ = 0 THEN 1 ELSE @]

----------------------------------------------------------------------------
(* process_once *)

Idle(w) == batch[w] = {} /\ returning[w] = NoEvent

\* claim_batch: any part of what is due, since rows locked by another
\* transaction are skipped.
Claim(w) ==
    /\ Idle(w)
    /\ \E claimed \in SUBSET {e \in Events : row[e] = "PENDING" /\ due[e]} \ {{}} :
         /\ row' = [e \in Events |-> IF e \in claimed THEN "PROCESSING" ELSE row[e]]
         /\ attempts' = [e \in Events |->
                            IF e \in claimed /\ attempts[e] < MaxAttempts
                            THEN attempts[e] + 1 ELSE attempts[e]]
         /\ overdue' = [e \in Events |-> overdue[e] /\ e \notin claimed]
         /\ batch' = [batch EXCEPT ![w] = claimed]
    /\ UNCHANGED <<due, effect, returning, failures>>

Taking(w, e) ==
    /\ returning[w] = NoEvent /\ e \in batch[w]
    /\ batch' = [batch EXCEPT ![w] = @ \ {e}]

\* Seeded fault: an event claimed before is taken to be recorded already.
FaultPublish(w, e) ==
    /\ Taking(w, e) /\ e \notin Poison
    /\ IF attempts[e] > 1 THEN UNCHANGED effect ELSE RecordEffect(e)
    /\ MarkPublished(e)
    /\ UNCHANGED <<returning, failures>>

\* The effect and mark_published commit together, whoever holds the claim now.
Publish(w, e) ==
    /\ Taking(w, e) /\ e \notin Poison
    /\ RecordEffect(e)
    /\ MarkPublished(e)
    /\ UNCHANGED <<returning, failures>>

\* Handling raises and nothing of it is committed.
Raise(w, e) ==
    /\ Taking(w, e)
    /\ returning' = [returning EXCEPT ![w] = e]
    /\ IF e \in Poison THEN UNCHANGED failures
       ELSE failures < MaxFailures /\ failures' = failures + 1
    /\ UNCHANGED <<rowVars, effect>>

\* The commit is made and its confirmation lost, which raises too.
RaiseAfterCommit(w, e) ==
    /\ Taking(w, e) /\ e \notin Poison
    /\ RecordEffect(e)
    /\ MarkPublished(e)
    /\ returning' = [returning EXCEPT ![w] = e]
    /\ failures < MaxFailures /\ failures' = failures + 1

Return(w) ==
    /\ returning[w] # NoEvent
    /\ MarkFailed(returning[w])
    /\ returning' = [returning EXCEPT ![w] = NoEvent]
    /\ UNCHANGED <<effect, batch, failures>>

\* The process dies, or the transaction of mark_failed raises.
CrashPublisher(w) ==
    /\ ~Idle(w)
    /\ batch' = [batch EXCEPT ![w] = {}]
    /\ returning' = [returning EXCEPT ![w] = NoEvent]
    /\ UNCHANGED <<rowVars, effect, failures>>

----------------------------------------------------------------------------
(* Time, and recover_stale *)

BecomesDue(e) ==
    /\ ~due[e]
    /\ due' = [due EXCEPT ![e] = TRUE]
    /\ UNCHANGED <<row, attempts, overdue, effect, publisherVars, failures>>

LeaseExpires(e) ==
    /\ row[e] = "PROCESSING" /\ ~overdue[e]
    /\ overdue' = [overdue EXCEPT ![e] = TRUE]
    /\ UNCHANGED <<row, attempts, due, effect, publisherVars, failures>>

\* Seeded fault: what has used up its attempts is left where it is.
FaultAfterLease(e) == IF attempts[e] >= MaxAttempts THEN "PROCESSING" ELSE "PENDING"

AfterLease(e) == IF attempts[e] >= MaxAttempts THEN "DEAD_LETTER" ELSE "PENDING"

\* One UPDATE for all claims whose lease is over; available_at is set to now.
RecoverStale ==
    LET stale == {e \in Events : row[e] = "PROCESSING" /\ overdue[e]} IN
    /\ RecoveryRuns /\ stale # {}
    /\ row' = [e \in Events |-> IF e \in stale THEN AfterLease(e) ELSE row[e]]
    /\ due' = [e \in Events |-> due[e] \/ e \in stale]
    /\ overdue' = [e \in Events |-> overdue[e] /\ e \notin stale]
    /\ UNCHANGED <<attempts, effect, publisherVars, failures>>

PublisherStep(w) ==
    \/ Claim(w)
    \/ \E e \in Events : Publish(w, e)
    \/ \E e \in Poison : Raise(w, e)
    \/ Return(w)

OutboxNext ==
    \/ \E e \in Events : Enqueue(e) \/ BecomesDue(e) \/ LeaseExpires(e)
    \/ \E w \in Publishers :
          \/ PublisherStep(w)
          \/ CrashPublisher(w)
          \/ \E e \in Events \ Poison : Raise(w, e) \/ RaiseAfterCommit(w, e)
    \/ RecoverStale

OutboxSpec == OutboxInit /\ [][OutboxNext]_outboxVars

ClaimOf(e) == \E w \in Publishers : Claim(w) /\ e \in batch'[w]

\* Publishers are run again and again, time passes, and recovery is called
\* again and again where it is called at all.  What is due is claimed oldest
\* first and passed over only while another transaction has it locked, so it
\* is not passed over for ever.
FairOutbox ==
    /\ OutboxSpec
    /\ \A w \in Publishers : WF_outboxVars(PublisherStep(w))
    /\ \A e \in Events :
          /\ SF_outboxVars(ClaimOf(e))
          /\ WF_outboxVars(BecomesDue(e)) /\ WF_outboxVars(LeaseExpires(e))
    /\ WF_outboxVars(RecoverStale)

----------------------------------------------------------------------------
\* What is marked published has been recorded in the audit stream or as a
\* notification, whichever of several publishers did it and however often it
\* was retried (process_once).
PublishedTookEffect ==
    \A e \in Events : row[e] = "PUBLISHED" => effect[e] = 1

\* A published event is not handed out again: not by a publisher that lost the
\* confirmation of its commit, nor by one whose claim had been taken away
\* (the status guards of mark_failed and recover_stale).
PublishedIsFinal ==
    [][\A e \in Events : row[e] = "PUBLISHED" => row'[e] = "PUBLISHED"]_outboxVars

\* "Publishing an event must not be lost when the corresponding database
\* transaction commits."  Every event that can be handled is published or set
\* aside for review, whatever crashes, if somebody calls recover_stale.
CommittedIsHandled ==
    \A e \in Events \ Poison :
        row[e] = "PENDING" ~> row[e] \in {"PUBLISHED", "DEAD_LETTER"}

\* "Poison events must eventually move to a review/dead-letter mechanism
\* rather than retry forever."  mark_failed returns an event to PENDING however
\* often it has failed; only recover_stale looks at attempts.
PoisonIsSetAside ==
    \A e \in Poison : row[e] = "PENDING" ~> row[e] = "DEAD_LETTER"
=============================================================================
