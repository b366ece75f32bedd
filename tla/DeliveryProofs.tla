--------------------------- MODULE DeliveryProofs ---------------------------
(***************************************************************************)
(* Theorems about Delivery for any number of deliveries and workers and    *)
(* any lease, batch size, retry policy, retention age and bounds.          *)
(***************************************************************************)
EXTENDS Delivery, FiniteSetTheorems, TLAPS

USE RetryPolicyAssumption, DeliveryAssumption

\* Whether or not anything was tried, an attempt returns a result.
LEMMA AttemptReturns == \A d : attempt(d) \subseteq DeliveryResult
  BY DEF attempt, deliver, Unreachable, DeliveryResult, DeliveryOutcome, NoStatus

USE AttemptReturns

-----------------------------------------------------------------------------
(***************************************************************************)
(* What the operators return.                                              *)
(***************************************************************************)

\* The backoff is a whole number of ticks, however far it has doubled.
LEMMA DelayType == ASSUME NEW n \in Nat PROVE delay_after(n) \in Nat
  BY DEF delay_after

\* An owned attempt leaves the delivery waiting, delivered or failed.
LEMMA VerdictType ==
  ASSUME NEW d, NEW result
  PROVE  Verdict(d, result) \in {"pending", "delivered", "failed"}
  BY DEF Verdict

\* A completion writes a well-formed row.
LEMMA CompletedRowType ==
  ASSUME TypeOK, NEW d \in Deliveries, NEW token, NEW result, NEW now \in Nat
  PROVE  CompletedRow(d, token, result, now) \in WebhookDelivery
  <1>1. delivery[d] \in WebhookDelivery
    BY DEF TypeOK
  <1>2. delay_after(delivery[d].cycle_attempts + 1) \in Nat
    BY <1>1, DelayType DEF WebhookDelivery
  <1>3. Verdict(d, result) \in DeliveryState
    BY VerdictType DEF DeliveryState
  <1>4. CASE Owned(d, token)
    BY <1>1, <1>2, <1>3, <1>4 DEF CompletedRow, WebhookDelivery, Null
  <1>5. CASE ~Owned(d, token)
    BY <1>1, <1>5 DEF CompletedRow, WebhookDelivery
  <1> QED
    BY <1>4, <1>5

\* Acceptance and replay write well-formed rows.
LEMMA QueuedRowType ==
  ASSUME TypeOK, NEW d \in Deliveries
  PROVE  AcceptedRow(d) \in WebhookDelivery /\ RequeuedRow(d) \in WebhookDelivery
  <1>1. delivery[d] \in WebhookDelivery /\ clock \in Nat
    BY DEF TypeOK
  <1>2. AcceptedRow(d) \in WebhookDelivery
    BY <1>1 DEF AcceptedRow, WebhookDelivery, DeliveryState
  <1>3. RequeuedRow(d) \in WebhookDelivery
    BY <1>1 DEF RequeuedRow, WebhookDelivery, DeliveryState, Null
  <1> QED
    BY <1>2, <1>3

\* A claim writes a well-formed row.
LEMMA ClaimedType ==
  ASSUME TypeOK, NEW d \in Deliveries, NEW now \in Nat
  PROVE  Claimed(d, now) \in WebhookDelivery
  <1>1. /\ delivery[d] \in WebhookDelivery
        /\ now + Lease \in Nat
        /\ new_claim_token(d) \in Nat
    BY DEF TypeOK, new_claim_token
  <1> QED
    BY <1>1 DEF Claimed, WebhookDelivery, DeliveryState

\* The audit row is well formed.
LEMMA AttemptRowType ==
  ASSUME TypeOK, NEW d \in Deliveries, NEW token, NEW result \in DeliveryResult
  PROVE  AttemptRow(d, token, result) \in DeliveryAttempt
  <1>1. delivery[d].attempts + 1 \in Nat
    BY DEF TypeOK, WebhookDelivery
  <1>2. result.outcome \in DeliveryOutcome
    BY DEF DeliveryResult
  <1>3. (result.outcome # "succeeded" /\ ~is_retryable(result)) \in BOOLEAN
    OBVIOUS
  <1>4. Owned(d, token) \in BOOLEAN
    BY DEF Owned
  <1> QED
    BY <1>1, <1>2, <1>3, <1>4 DEF AttemptRow, DeliveryAttempt

-----------------------------------------------------------------------------
(***************************************************************************)
(* Type correctness.                                                       *)
(***************************************************************************)

\* A worker that drops its batch is left well typed.
LEMMA RestType ==
  ASSUME TypeOK, NEW w \in Workers, Rest(w)
  PROVE  /\ pc' \in [Workers -> {"idle", "polled", "claimed", "sending"}]
         /\ batch_now' \in [Workers -> Nat]
         /\ claims' \in [Workers -> [Deliveries -> Nat]]
         /\ loaded' \in [Workers -> [Deliveries -> {"linked", "unlinked", "expired"}]]
  BY DEF TypeOK, Rest, NoClaims, AllLinked, Null

\* A worker that is done with one job is left well typed.
LEMMA DropType ==
  ASSUME TypeOK, NEW w \in Workers, NEW d \in Deliveries, Drop(w, d)
  PROVE  /\ pc' \in [Workers -> {"idle", "polled", "claimed", "sending"}]
         /\ batch_now' \in [Workers -> Nat]
         /\ claims' \in [Workers -> [Deliveries -> Nat]]
  BY DEF TypeOK, Drop, Null

\* Every step keeps every variable in its type.
LEMMA TypeStep == TypeOK /\ [Next]_vars => TypeOK'
  <1> SUFFICES ASSUME TypeOK, [Next]_vars PROVE TypeOK'
    OBVIOUS
  <1> USE DEF rows, workerVars, ghosts
  <1>1. CASE Tick
    BY <1>1 DEF Tick, TypeOK
  <1>2. ASSUME NEW d \in Deliveries, add_submission(d) PROVE TypeOK'
    <2>1. AcceptedRow(d) \in WebhookDelivery
      BY QueuedRowType
    <2> QED
      BY <1>2, <2>1 DEF add_submission, TypeOK
  <1>3. ASSUME NEW d \in Deliveries, requeue_failed_delivery(d) PROVE TypeOK'
    <2>1. RequeuedRow(d) \in WebhookDelivery
      BY QueuedRowType
    <2> QED
      BY <1>3, <2>1 DEF requeue_failed_delivery, TypeOK
  <1>4. ASSUME NEW w \in Workers, Poll(w) PROVE TypeOK'
    BY <1>4 DEF Poll, TypeOK
  <1>5. ASSUME NEW w \in Workers, claim_due_deliveries(w) PROVE TypeOK'
    <2>1. \A d \in Deliveries : Claimed(d, batch_now[w]) \in WebhookDelivery
      BY ClaimedType DEF TypeOK
    <2>2. delivery' \in [Deliveries -> WebhookDelivery]
      BY <1>5, <2>1 DEF claim_due_deliveries, TypeOK
    <2>3. claims' \in [Workers -> [Deliveries -> Nat]]
      BY <1>5 DEF claim_due_deliveries, TypeOK, Null, new_claim_token
    <2>4. issued' \in [Deliveries -> Nat]
      BY <1>5 DEF claim_due_deliveries, TypeOK
    <2> QED
      BY <1>5, <2>2, <2>3, <2>4 DEF claim_due_deliveries, TypeOK
  <1>6. ASSUME NEW w \in Workers, NothingDue(w) \/ LoadFails(w) \/ Crash(w) PROVE TypeOK'
    <2>1. Rest(w)
      BY <1>6 DEF NothingDue, LoadFails, Crash
    <2> QED
      BY <1>6, <2>1, RestType DEF NothingDue, LoadFails, Crash, TypeOK
  <1>7. ASSUME NEW w \in Workers, load_submissions(w) PROVE TypeOK'
    BY <1>7 DEF load_submissions, TypeOK
  <1>8. ASSUME NEW w \in Workers, NEW d \in Deliveries, NEW result \in DeliveryResult,
               complete_attempt(w, d, result)
        PROVE  TypeOK'
    <2>1. CompletedRow(d, claims[w][d], result, batch_now[w]) \in WebhookDelivery
      BY CompletedRowType DEF TypeOK
    <2>2. delivery' \in [Deliveries -> WebhookDelivery]
      BY <1>8, <2>1 DEF complete_attempt, TypeOK
    <2>3. history' \in [Deliveries -> SUBSET DeliveryAttempt]
      BY <1>8, AttemptRowType DEF complete_attempt, TypeOK
    <2>4. loaded' \in [Workers -> [Deliveries -> {"linked", "unlinked", "expired"}]]
      BY <1>8 DEF complete_attempt, TypeOK, AllLinked
    <2>5. Drop(w, d)
      BY <1>8 DEF complete_attempt
    <2> QED
      BY <1>8, <2>2, <2>3, <2>4, <2>5, DropType DEF complete_attempt, TypeOK
  <1>9. ASSUME NEW w \in Workers, NEW d \in Deliveries,
               CompletionRefused(w, d) \/ CompletionFails(w, d)
        PROVE  TypeOK'
    <2>1. Drop(w, d) /\ Unrecorded(w, d)
      BY <1>9 DEF CompletionRefused, CompletionFails, Unrecorded
    <2>2. loaded' \in [Workers -> [Deliveries -> {"linked", "unlinked", "expired"}]]
      BY <2>1 DEF Unrecorded, TypeOK
    <2>3. faults' \in Nat
      BY <1>9 DEF CompletionRefused, CompletionFails, TypeOK
    <2> QED
      BY <2>1, <2>2, <2>3, DropType DEF Unrecorded, TypeOK
  <1>10. ASSUME NEW w \in Workers, NEW d \in Deliveries, Refresh(w, d) PROVE TypeOK'
    BY <1>10 DEF Refresh, TypeOK
  <1>11. CASE Sweep
    <2>1. CASE SweepStart
      <3>1. clock - Retention \in Nat
        BY <2>1 DEF SweepStart, cutoff, TypeOK
      <3>2. sweep' \in SweepRun
        BY <2>1, <3>1 DEF SweepStart, cutoff, SweepRun
      <3> QED
        BY <2>1, <3>2 DEF SweepStart, TypeOK
    <2>2. CASE SweepSelect
      <3>1. PICK ids \in SUBSET Deliveries :
              sweep' = [pc |-> "delete", before |-> sweep.before, ids |-> ids,
                        batches |-> sweep.batches + 1]
        BY <2>2 DEF SweepSelect
      <3>2. sweep \in SweepRun
        BY DEF TypeOK
      <3>3. sweep' \in SweepRun
        BY <3>1, <3>2 DEF SweepRun
      <3> QED
        BY <2>2, <3>3 DEF SweepSelect, TypeOK
    <2>3. CASE SweepDelete
      <3>1. sweep' \in SweepRun
        BY <2>3 DEF SweepDelete, NoSweep, SweepRun, TypeOK
      <3> QED
        BY <2>3, <3>1 DEF SweepDelete, TypeOK
    <2>4. CASE SweepStop
      BY <2>4 DEF SweepStop, NoSweep, SweepRun, TypeOK
    <2> QED
      BY <1>11, <2>1, <2>2, <2>3, <2>4 DEF Sweep
  <1>12. CASE UNCHANGED vars
    BY <1>12 DEF vars, TypeOK
  <1> QED
    BY <1>1, <1>2, <1>3, <1>4, <1>5, <1>6, <1>7, <1>8, <1>9, <1>10, <1>11, <1>12
       DEF Next, Activity, WorkerStep, Fault

\* Every reachable state of the queue, its workers and its sweeps is well typed.
THEOREM TypeCorrect == Spec => []TypeOK
  <1>1. Init => TypeOK
    BY DEF Init, TypeOK, Absent, WebhookDelivery, NoClaims, AllLinked, NoSweep,
           SweepRun, Null
  <1> QED
    BY <1>1, TypeStep, PTL DEF Spec

-----------------------------------------------------------------------------
(***************************************************************************)
(* What one step may do to one row, and to the submission behind it.       *)
(***************************************************************************)

\* A row changes in four ways only: it is accepted, claimed while due, completed by a
\* worker that holds some token for it, or replayed.
LEMMA RowStep ==
  ASSUME TypeOK, [Next]_vars, NEW d \in Deliveries
  PROVE  \/ delivery'[d] = delivery[d]
         \/ delivery[d].state = "absent" /\ delivery'[d] = AcceptedRow(d) /\ d \in stored'
         \/ /\ \E now \in Nat : due_condition(d, now) /\ delivery'[d] = Claimed(d, now)
            /\ stored' = stored
            /\ issued'[d] = new_claim_token(d)
         \/ /\ \E w \in Workers, result \in DeliveryResult :
                 /\ claims[w][d] # Null
                 /\ delivery'[d] = CompletedRow(d, claims[w][d], result, batch_now[w])
            /\ stored' = stored
         \/ Replayable(d) /\ delivery'[d] = RequeuedRow(d) /\ stored' = stored
  <1> USE DEF rows, workerVars, ghosts
  <1>1. CASE \/ Tick \/ Sweep \/ UNCHANGED vars
             \/ \E w \in Workers : \/ Poll(w) \/ NothingDue(w) \/ load_submissions(w)
                                   \/ LoadFails(w) \/ Crash(w)
                                   \/ \E e \in Deliveries : \/ CompletionRefused(w, e)
                                                            \/ CompletionFails(w, e)
                                                            \/ Refresh(w, e)
    <2>1. delivery' = delivery
      BY <1>1 DEF Tick, Sweep, SweepStart, SweepSelect, SweepDelete, SweepStop, vars, Poll,
                  NothingDue, load_submissions, LoadFails, Crash, CompletionRefused,
                  CompletionFails, Unrecorded, Refresh
    <2> QED
      BY <2>1
  <1>2. ASSUME NEW e \in Deliveries, add_submission(e)
        PROVE  \/ delivery'[d] = delivery[d]
               \/ delivery[d].state = "absent" /\ delivery'[d] = AcceptedRow(d) /\ d \in stored'
    BY <1>2 DEF add_submission, TypeOK
  <1>3. ASSUME NEW e \in Deliveries, requeue_failed_delivery(e)
        PROVE  \/ delivery'[d] = delivery[d]
               \/ Replayable(d) /\ delivery'[d] = RequeuedRow(d) /\ stored' = stored
    BY <1>3 DEF requeue_failed_delivery, TypeOK
  <1>4. ASSUME NEW w \in Workers, claim_due_deliveries(w)
        PROVE  \/ delivery'[d] = delivery[d]
               \/ /\ \E now \in Nat : due_condition(d, now) /\ delivery'[d] = Claimed(d, now)
                  /\ stored' = stored
                  /\ issued'[d] = new_claim_token(d)
    <2>1. batch_now[w] \in Nat
      BY DEF TypeOK
    <2>2. PICK taken \in SUBSET {e \in Deliveries : due_condition(e, batch_now[w])} :
            /\ delivery' = [e \in Deliveries |->
                              IF e \in taken THEN Claimed(e, batch_now[w]) ELSE delivery[e]]
            /\ issued' = [e \in Deliveries |-> IF e \in taken THEN issued[e] + 1 ELSE issued[e]]
      BY <1>4 DEF claim_due_deliveries
    <2>3. stored' = stored
      BY <1>4 DEF claim_due_deliveries
    <2>4. CASE d \in taken
      <3>1. delivery'[d] = Claimed(d, batch_now[w]) /\ due_condition(d, batch_now[w])
        BY <2>2, <2>4
      <3>2. issued'[d] = new_claim_token(d)
        BY <2>2, <2>4 DEF new_claim_token
      <3> QED
        BY <2>1, <2>3, <3>1, <3>2
    <2>5. CASE d \notin taken
      BY <2>2, <2>5
    <2> QED
      BY <2>4, <2>5
  <1>5. ASSUME NEW w \in Workers, NEW e \in Deliveries, NEW result \in DeliveryResult,
               complete_attempt(w, e, result)
        PROVE  \/ delivery'[d] = delivery[d]
               \/ /\ claims[w][d] # Null
                  /\ delivery'[d] = CompletedRow(d, claims[w][d], result, batch_now[w])
                  /\ stored' = stored
    <2>1. e \in Jobs(w) /\ stored' = stored
      BY <1>5 DEF complete_attempt
    <2>2. delivery' = [delivery EXCEPT ![e] =
                         CompletedRow(e, claims[w][e], result, batch_now[w])]
      BY <1>5 DEF complete_attempt
    <2> QED
      BY <2>1, <2>2 DEF Jobs, TypeOK
  <1> QED
    BY <1>1, <1>2, <1>3, <1>4, <1>5 DEF Next, Activity, WorkerStep, Fault

\* Workers leave the submissions and the sweep alone, whatever they do and however they fail.
LEMMA WorkersLeave ==
  ASSUME NEW w \in Workers,
         \/ WorkerStep(w) \/ Crash(w)
         \/ \E d \in Deliveries : CompletionFails(w, d)
  PROVE  UNCHANGED <<stored, received_at, sweep>>
  <1> USE DEF rows
  <1>1. CASE Poll(w) \/ claim_due_deliveries(w) \/ NothingDue(w)
    BY <1>1 DEF Poll, claim_due_deliveries, NothingDue
  <1>2. CASE load_submissions(w) \/ LoadFails(w) \/ Crash(w)
    BY <1>2 DEF load_submissions, LoadFails, Crash
  <1>3. ASSUME NEW d \in Deliveries,
               \/ \E result \in DeliveryResult : complete_attempt(w, d, result)
               \/ CompletionRefused(w, d) \/ CompletionFails(w, d) \/ Refresh(w, d)
        PROVE  UNCHANGED <<stored, received_at, sweep>>
    BY <1>3 DEF complete_attempt, CompletionRefused, CompletionFails, Unrecorded, Refresh
  <1> QED
    BY <1>1, <1>2, <1>3 DEF WorkerStep

\* Only the sweep takes a submission away, and only one it selected.
LEMMA StoredStep ==
  ASSUME [Next]_vars, NEW d \in stored, d \notin stored'
  PROVE  d \in sweep.ids
  <1> USE DEF rows
  <1>1. CASE \/ Tick \/ UNCHANGED vars \/ SweepStart \/ SweepSelect \/ SweepStop
             \/ \E e \in Deliveries : add_submission(e) \/ requeue_failed_delivery(e)
    BY <1>1 DEF Tick, vars, SweepStart, SweepSelect, SweepStop, add_submission,
                requeue_failed_delivery
  <1>2. CASE SweepDelete
    BY <1>2 DEF SweepDelete
  <1>3. CASE (\E w \in Workers : WorkerStep(w)) \/ Fault
    BY <1>3, WorkersLeave DEF Fault
  <1> QED
    BY <1>1, <1>2, <1>3 DEF Next, Activity, Sweep

-----------------------------------------------------------------------------
(***************************************************************************)
(* The claim columns.                                                      *)
(***************************************************************************)

\* Claim columns and completion time agree after every step.
LEMMA RowConsistentStep ==
  TypeOK /\ RowConsistent /\ [Next]_vars => RowConsistent'
  <1> SUFFICES ASSUME TypeOK, RowConsistent, [Next]_vars, NEW d \in Deliveries
               PROVE  LET row == delivery'[d]
                      IN  /\ row.state = "processing" <=> row.claim_token # Null
                          /\ row.state = "processing" <=> row.claim_expires_at # Null
                          /\ row.state \in TERMINAL_STATES <=> row.completed
    BY DEF RowConsistent
  <1>1. delivery[d] \in WebhookDelivery
    BY DEF TypeOK
  <1>2. LET row == delivery[d]
        IN  /\ row.state = "processing" <=> row.claim_token # Null
            /\ row.state = "processing" <=> row.claim_expires_at # Null
            /\ row.state \in TERMINAL_STATES <=> row.completed
    BY DEF RowConsistent
  <1>3. CASE delivery'[d] = delivery[d]
    BY <1>2, <1>3
  <1>4. CASE delivery[d].state = "absent" /\ delivery'[d] = AcceptedRow(d)
    BY <1>1, <1>2, <1>4 DEF AcceptedRow, WebhookDelivery, TERMINAL_STATES
  <1>5. ASSUME NEW now \in Nat, due_condition(d, now), delivery'[d] = Claimed(d, now)
        PROVE  LET row == delivery'[d]
               IN  /\ row.state = "processing" <=> row.claim_token # Null
                   /\ row.state = "processing" <=> row.claim_expires_at # Null
                   /\ row.state \in TERMINAL_STATES <=> row.completed
    <2>1. new_claim_token(d) # Null /\ now + Lease # Null
      BY DEF new_claim_token, Null, TypeOK
    <2>2. delivery[d].completed = FALSE
      BY <1>1, <1>2, <1>5 DEF due_condition, TERMINAL_STATES, WebhookDelivery
    <2> QED
      BY <1>1, <1>5, <2>1, <2>2 DEF Claimed, WebhookDelivery, TERMINAL_STATES
  <1>6. ASSUME NEW w \in Workers, NEW result \in DeliveryResult,
               delivery'[d] = CompletedRow(d, claims[w][d], result, batch_now[w])
        PROVE  LET row == delivery'[d]
               IN  /\ row.state = "processing" <=> row.claim_token # Null
                   /\ row.state = "processing" <=> row.claim_expires_at # Null
                   /\ row.state \in TERMINAL_STATES <=> row.completed
    <2>1. CASE Owned(d, claims[w][d])
      <3>1. /\ delivery'[d].state = Verdict(d, result)
            /\ delivery'[d].claim_token = Null
            /\ delivery'[d].claim_expires_at = Null
            /\ delivery'[d].completed = (Verdict(d, result) \in TERMINAL_STATES)
        BY <1>6, <2>1 DEF CompletedRow
      <3>2. Verdict(d, result) # "processing"
        BY VerdictType
      <3> QED
        BY <3>1, <3>2
    <2>2. CASE ~Owned(d, claims[w][d])
      BY <1>1, <1>2, <1>6, <2>2 DEF CompletedRow, WebhookDelivery
    <2> QED
      BY <2>1, <2>2
  <1>7. CASE delivery'[d] = RequeuedRow(d)
    BY <1>1, <1>7 DEF RequeuedRow, WebhookDelivery, TERMINAL_STATES
  <1> QED
    BY <1>3, <1>4, <1>5, <1>6, <1>7, RowStep

\* A delivered row stays delivered: nobody owns it, so no completion can move it.
LEMMA DeliveredStays ==
  ASSUME TypeOK, RowConsistent, [Next]_vars, NEW d \in Deliveries,
         delivery[d].state = "delivered"
  PROVE  delivery'[d].state = "delivered"
  <1>1. delivery[d] \in WebhookDelivery
    BY DEF TypeOK
  <1>2. delivery[d].claim_token = Null
    BY DEF RowConsistent
  <1>3. ~Replayable(d) /\ \A now \in Nat : ~due_condition(d, now)
    BY DEF Replayable, due_condition
  <1>4. ASSUME NEW w \in Workers, NEW result \in DeliveryResult, claims[w][d] # Null,
               delivery'[d] = CompletedRow(d, claims[w][d], result, batch_now[w])
        PROVE  delivery'[d].state = "delivered"
    <2>1. ~Owned(d, claims[w][d])
      BY <1>2, <1>4 DEF Owned
    <2> QED
      BY <1>1, <1>4, <2>1 DEF CompletedRow, WebhookDelivery
  <1> QED
    BY <1>3, <1>4, RowStep

\* No row goes back to not having been accepted.
LEMMA AcceptedStays ==
  ASSUME TypeOK, [Next]_vars, NEW d \in Deliveries, delivery[d].state # "absent"
  PROVE  delivery'[d].state # "absent"
  <1>1. delivery[d] \in WebhookDelivery
    BY DEF TypeOK
  <1>2. AcceptedRow(d).state = "pending" /\ RequeuedRow(d).state = "pending"
    BY <1>1 DEF AcceptedRow, RequeuedRow, WebhookDelivery
  <1>3. \A now \in Nat : Claimed(d, now).state = "processing"
    BY <1>1 DEF Claimed, WebhookDelivery
  <1>4. ASSUME NEW token, NEW result, NEW now
        PROVE  CompletedRow(d, token, result, now).state # "absent"
    <2>1. CASE Owned(d, token)
      <3>1. CompletedRow(d, token, result, now).state = Verdict(d, result)
        BY <2>1 DEF CompletedRow
      <3> QED
        BY <3>1, VerdictType
    <2>2. CASE ~Owned(d, token)
      BY <1>1, <2>2 DEF CompletedRow, WebhookDelivery
    <2> QED
      BY <2>1, <2>2
  <1> QED
    BY <1>2, <1>3, <1>4, RowStep

-----------------------------------------------------------------------------
(***************************************************************************)
(* The sweep's selection, and the submissions it leaves.                   *)
(***************************************************************************)

\* A submission exists only for a delivery that was accepted.
LEMMA StoredAcceptedStep ==
  TypeOK /\ StoredAccepted /\ [Next]_vars => StoredAccepted'
  <1> SUFFICES ASSUME TypeOK, StoredAccepted, [Next]_vars, NEW d \in stored'
               PROVE  delivery'[d].state # "absent"
    BY DEF StoredAccepted
  <1> USE DEF rows
  <1>1. ASSUME NEW e \in Deliveries, add_submission(e) PROVE delivery'[d].state # "absent"
    <2>1. AcceptedRow(e).state = "pending"
      BY DEF AcceptedRow, TypeOK, WebhookDelivery
    <2> QED
      BY <1>1, <2>1 DEF add_submission, TypeOK, StoredAccepted
  <1>2. CASE \/ Tick \/ UNCHANGED vars \/ Sweep \/ Fault
             \/ \E e \in Deliveries : requeue_failed_delivery(e)
             \/ \E w \in Workers : WorkerStep(w)
    <2>1. stored' \subseteq stored
      BY <1>2 DEF Tick, vars, Sweep, SweepStart, SweepSelect, SweepDelete, SweepStop,
                  requeue_failed_delivery, WorkerStep, Poll, claim_due_deliveries,
                  NothingDue, load_submissions, LoadFails, complete_attempt,
                  CompletionRefused, Refresh, Fault, Crash, CompletionFails, Unrecorded
    <2> QED
      BY <2>1, AcceptedStays DEF StoredAccepted, TypeOK
  <1> QED
    BY <1>1, <1>2 DEF Next, Activity

\* What a sweep selected stays delivered, and old enough, until the sweep deletes it.
LEMMA SelectedDeliveredStep ==
  TypeOK /\ RowConsistent /\ StoredAccepted /\ SelectedDelivered /\ [Next]_vars
    => SelectedDelivered'
  <1> SUFFICES ASSUME TypeOK, RowConsistent, StoredAccepted, SelectedDelivered,
                      [Next]_vars, NEW d \in sweep'.ids
               PROVE  delivery'[d].state = "delivered" /\ received_at'[d] < sweep'.before
    BY DEF SelectedDelivered
  <1> USE DEF rows, workerVars, ghosts
  <1>1. CASE SweepSelect
    <2>1. PICK ids \in SUBSET {e \in Deliveries : expired_condition(e, sweep.before)} :
            sweep' = [pc |-> "delete", before |-> sweep.before, ids |-> ids,
                      batches |-> sweep.batches + 1]
      BY <1>1 DEF SweepSelect
    <2>2. d \in Deliveries /\ expired_condition(d, sweep.before) /\ sweep'.before = sweep.before
      BY <2>1
    <2>3. delivery[d].state # "absent"
      BY <2>2 DEF expired_condition, StoredAccepted
    <2>4. delivery[d].state = "delivered"
      BY <2>2, <2>3 DEF expired_condition, PROTECTED_DELIVERY_STATES, TypeOK,
                        WebhookDelivery, DeliveryState
    <2>5. delivery' = delivery /\ received_at' = received_at
      BY <1>1 DEF SweepSelect
    <2>6. received_at[d] < sweep.before
      BY <2>2 DEF expired_condition
    <2>7. received_at'[d] < sweep'.before
      BY <2>2, <2>5, <2>6
    <2> QED
      BY <2>4, <2>5, <2>7
  <1>2. CASE SweepStart \/ SweepStop
    <2>1. sweep'.ids = {}
      BY <1>2 DEF SweepStart, SweepStop, NoSweep
    <2> QED
      BY <2>1
  <1>3. CASE SweepDelete
    <2>1. sweep'.ids = {}
      <3>1. sweep \in SweepRun
        BY DEF TypeOK
      <3> QED
        BY <1>3, <3>1 DEF SweepDelete, NoSweep, SweepRun
    <2> QED
      BY <2>1
  <1>4. CASE sweep' = sweep
    <2>1. /\ d \in Deliveries
          /\ delivery[d].state = "delivered"
          /\ received_at[d] < sweep.before
      BY <1>4 DEF SelectedDelivered, TypeOK, SweepRun
    <2>2. received_at'[d] = received_at[d]
      <3>1. ASSUME NEW e \in Deliveries, add_submission(e) PROVE received_at'[d] = received_at[d]
        BY <2>1, <3>1 DEF add_submission, TypeOK
      <3>2. CASE \/ Tick \/ UNCHANGED vars \/ Sweep
                 \/ \E e \in Deliveries : requeue_failed_delivery(e)
        BY <3>2 DEF Tick, vars, Sweep, SweepStart, SweepSelect, SweepDelete, SweepStop,
                    requeue_failed_delivery
      <3>3. CASE (\E w \in Workers : WorkerStep(w)) \/ Fault
        BY <3>3, WorkersLeave DEF Fault
      <3> QED
        BY <3>1, <3>2, <3>3 DEF Next, Activity
    <2> QED
      BY <1>4, <2>1, <2>2, DeliveredStays
  <1>5. Sweep \/ sweep' = sweep
    BY WorkersLeave DEF Next, Activity, Tick, vars, add_submission, requeue_failed_delivery, Fault
  <1> QED
    BY <1>1, <1>2, <1>3, <1>4, <1>5 DEF Sweep

\* No step unlinks a delivery that is not delivered.
LEMMA UnlinkedStep ==
  TypeOK /\ RowConsistent /\ SelectedDelivered /\ UnlinkedOnlyDelivered /\ [Next]_vars
    => UnlinkedOnlyDelivered'
  <1> SUFFICES ASSUME TypeOK, RowConsistent, SelectedDelivered, UnlinkedOnlyDelivered,
                      [Next]_vars, NEW d \in Deliveries,
                      delivery'[d].state \in {"pending", "processing", "failed"}
               PROVE  d \in stored'
    BY DEF UnlinkedOnlyDelivered
  <1>1. delivery[d] \in WebhookDelivery
    BY DEF TypeOK
  <1>2. delivery[d].state # "delivered"
    BY DeliveredStays
  <1>3. CASE delivery[d].state = "absent"
    <2>1. ~Replayable(d) /\ \A now \in Nat : ~due_condition(d, now)
      BY <1>3 DEF Replayable, due_condition
    <2>2. ASSUME NEW w \in Workers, NEW result \in DeliveryResult, claims[w][d] # Null,
                 delivery'[d] = CompletedRow(d, claims[w][d], result, batch_now[w])
          PROVE  FALSE
      <3>1. ~Owned(d, claims[w][d])
        BY <1>3, <2>2 DEF Owned, RowConsistent
      <3> QED
        BY <1>1, <1>3, <2>2, <3>1 DEF CompletedRow, WebhookDelivery
    <2> QED
      BY <1>3, <2>1, <2>2, RowStep
  <1>4. CASE delivery[d].state # "absent"
    <2>1. d \in stored
      BY <1>1, <1>2, <1>4 DEF UnlinkedOnlyDelivered, WebhookDelivery, DeliveryState
    <2>2. d \notin sweep.ids
      BY <1>2 DEF SelectedDelivered
    <2> QED
      BY <2>1, <2>2, StoredStep
  <1> QED
    BY <1>3, <1>4

-----------------------------------------------------------------------------
(***************************************************************************)
(* Tokens.                                                                 *)
(***************************************************************************)

\* Tokens are only ever added to what has been issued.
LEMMA IssuedGrows ==
  ASSUME TypeOK, [Next]_vars, NEW d \in Deliveries
  PROVE  issued'[d] \in Nat /\ issued[d] <= issued'[d]
  <1> USE DEF ghosts
  <1>1. issued[d] \in Nat
    BY DEF TypeOK
  <1>2. ASSUME NEW w \in Workers, claim_due_deliveries(w)
        PROVE  issued'[d] = issued[d] \/ issued'[d] = issued[d] + 1
    BY <1>2 DEF claim_due_deliveries, TypeOK
  <1>3. (\E w \in Workers : claim_due_deliveries(w)) \/ issued' = issued
    BY DEF Next, Activity, Tick, vars, add_submission, requeue_failed_delivery, WorkerStep,
           Poll, NothingDue, load_submissions, LoadFails, complete_attempt,
           CompletionRefused, Refresh, Fault, Crash, CompletionFails, Unrecorded, Sweep,
           SweepStart, SweepSelect, SweepDelete, SweepStop
  <1> QED
    BY <1>1, <1>2, <1>3

\* A worker's token for a delivery is kept, dropped, or the fresh one of a claim, and a
\* fresh token goes to one worker.
LEMMA ClaimsStep ==
  ASSUME TypeOK, [Next]_vars
  PROVE  \/ \A w \in Workers, d \in Deliveries : claims'[w][d] \in {claims[w][d], Null}
         \/ \E v \in Workers :
              \A w \in Workers, d \in Deliveries :
                \/ w # v /\ claims'[w][d] = claims[w][d]
                \/ w = v /\ claims'[w][d] = Null
                \/ /\ w = v /\ claims'[w][d] = new_claim_token(d)
                   /\ issued'[d] = new_claim_token(d)
                   /\ d \in stored
  <1> USE DEF workerVars
  <1>1. ASSUME NEW v \in Workers, claim_due_deliveries(v),
               NEW w \in Workers, NEW d \in Deliveries
        PROVE  \/ w # v /\ claims'[w][d] = claims[w][d]
               \/ w = v /\ claims'[w][d] = Null
               \/ /\ w = v /\ claims'[w][d] = new_claim_token(d)
                  /\ issued'[d] = new_claim_token(d)
                  /\ d \in stored
    <2>1. PICK taken \in SUBSET {e \in Deliveries : due_condition(e, batch_now[v])} :
            /\ issued' = [e \in Deliveries |-> IF e \in taken THEN issued[e] + 1 ELSE issued[e]]
            /\ claims' = [claims EXCEPT ![v] =
                 [e \in Deliveries |-> IF e \in taken THEN new_claim_token(e) ELSE Null]]
      BY <1>1 DEF claim_due_deliveries
    <2>2. CASE w # v
      BY <2>1, <2>2 DEF TypeOK
    <2>3. CASE w = v /\ d \notin taken
      BY <2>1, <2>3 DEF TypeOK
    <2>4. CASE w = v /\ d \in taken
      <3>1. claims'[w][d] = new_claim_token(d)
        BY <2>1, <2>4 DEF TypeOK
      <3>2. issued'[d] = new_claim_token(d)
        BY <2>1, <2>4 DEF new_claim_token
      <3>3. d \in stored
        BY <2>1, <2>4 DEF due_condition
      <3> QED
        BY <2>4, <3>1, <3>2, <3>3
    <2> QED
      BY <2>2, <2>3, <2>4
  <1>2. ASSUME NEW v \in Workers,
               \/ NothingDue(v) \/ LoadFails(v) \/ Crash(v)
               \/ \E e \in Deliveries : \/ \E result \in DeliveryResult : complete_attempt(v, e, result)
                                        \/ CompletionRefused(v, e) \/ CompletionFails(v, e),
               NEW w \in Workers, NEW d \in Deliveries
        PROVE  claims'[w][d] \in {claims[w][d], Null}
    <2>1. Rest(v) \/ \E e \in Deliveries : Drop(v, e)
      BY <1>2 DEF NothingDue, LoadFails, Crash, complete_attempt, CompletionRefused,
                  CompletionFails, Unrecorded
    <2>2. CASE Rest(v)
      BY <2>2 DEF Rest, NoClaims, TypeOK
    <2>3. ASSUME NEW e \in Deliveries, Drop(v, e) PROVE claims'[w][d] \in {claims[w][d], Null}
      BY <2>3 DEF Drop, TypeOK
    <2> QED
      BY <2>1, <2>2, <2>3
  <1>3. CASE \/ Tick \/ UNCHANGED vars \/ Sweep
             \/ \E e \in Deliveries : add_submission(e) \/ requeue_failed_delivery(e)
             \/ \E v \in Workers : \/ Poll(v) \/ load_submissions(v)
                                   \/ \E e \in Deliveries : Refresh(v, e)
    <2>1. claims' = claims
      BY <1>3 DEF Tick, vars, Sweep, SweepStart, SweepSelect, SweepDelete, SweepStop,
                  add_submission, requeue_failed_delivery, Poll, load_submissions, Refresh
    <2> QED
      BY <2>1
  <1> QED
    BY <1>1, <1>2, <1>3 DEF Next, Activity, WorkerStep, Fault

\* A claim takes a token nobody holds, and no other step hands one out.
LEMMA OneOwnerStep == TypeOK /\ OneOwner /\ [Next]_vars => OneOwner'
  <1> SUFFICES ASSUME TypeOK, OneOwner, [Next]_vars, NEW d \in Deliveries
               PROVE  /\ delivery'[d].claim_token <= issued'[d]
                      /\ \A w \in Workers :
                           /\ claims'[w][d] <= issued'[d]
                           /\ \A v \in Workers \ {w} :
                                claims'[w][d] # Null => claims'[w][d] # claims'[v][d]
    BY DEF OneOwner
  <1>1. /\ delivery[d] \in WebhookDelivery
        /\ issued[d] \in Nat /\ issued'[d] \in Nat /\ issued[d] <= issued'[d]
        /\ \A w \in Workers : claims[w][d] \in Nat
    BY IssuedGrows DEF TypeOK
  <1>2. /\ delivery[d].claim_token <= issued[d]
        /\ \A w \in Workers : claims[w][d] <= issued[d]
        /\ \A w \in Workers : \A v \in Workers \ {w} :
             claims[w][d] # Null => claims[w][d] # claims[v][d]
    BY DEF OneOwner
  <1>3. delivery'[d].claim_token <= issued'[d]
    <2>1. delivery[d].claim_token \in Nat
      BY <1>1 DEF WebhookDelivery
    <2>2. /\ AcceptedRow(d).claim_token = delivery[d].claim_token
          /\ RequeuedRow(d).claim_token = Null
          /\ \A now \in Nat : Claimed(d, now).claim_token = new_claim_token(d)
      BY <1>1 DEF AcceptedRow, RequeuedRow, Claimed, WebhookDelivery
    <2>3. ASSUME NEW token, NEW result, NEW now
          PROVE  CompletedRow(d, token, result, now).claim_token
                   \in {Null, delivery[d].claim_token}
      BY <1>1 DEF CompletedRow, WebhookDelivery
    <2>4. \/ delivery'[d].claim_token \in {Null, delivery[d].claim_token}
          \/ delivery'[d].claim_token = issued'[d]
      BY <2>2, <2>3, RowStep
    <2> QED
      BY <1>1, <1>2, <2>1, <2>4 DEF Null
  <1>4. CASE \A w \in Workers, e \in Deliveries : claims'[w][e] \in {claims[w][e], Null}
    BY <1>1, <1>2, <1>3, <1>4 DEF Null
  <1>5. ASSUME NEW u \in Workers,
               \A w \in Workers, e \in Deliveries :
                 \/ w # u /\ claims'[w][e] = claims[w][e]
                 \/ w = u /\ claims'[w][e] = Null
                 \/ /\ w = u /\ claims'[w][e] = new_claim_token(e)
                    /\ issued'[e] = new_claim_token(e)
                    /\ e \in stored
        PROVE  \A w \in Workers :
                 /\ claims'[w][d] <= issued'[d]
                 /\ \A v \in Workers \ {w} :
                      claims'[w][d] # Null => claims'[w][d] # claims'[v][d]
    BY <1>1, <1>2, <1>5 DEF Null, new_claim_token
  <1> QED
    BY <1>3, <1>4, <1>5, ClaimsStep

\* A worker lets go of every claim before it goes back to polling.
LEMMA IdleHoldsNothingStep ==
  TypeOK /\ IdleHoldsNothing /\ [Next]_vars => IdleHoldsNothing'
  <1> SUFFICES ASSUME TypeOK, IdleHoldsNothing, [Next]_vars, NEW w \in Workers,
                      NEW d \in Deliveries, pc'[w] \in {"idle", "polled"}
               PROVE  claims'[w][d] = Null
    BY DEF IdleHoldsNothing
  <1> USE DEF workerVars
  <1>1. ASSUME NEW v \in Workers, Rest(v) PROVE claims'[w][d] = Null
    BY <1>1 DEF Rest, NoClaims, IdleHoldsNothing, TypeOK
  <1>2. ASSUME NEW v \in Workers, NEW e \in Deliveries, pc[v] = "sending", Drop(v, e)
        PROVE  claims'[w][d] = Null
    BY <1>2 DEF Drop, Jobs, IdleHoldsNothing, TypeOK
  <1>3. ASSUME NEW v \in Workers, Poll(v) \/ load_submissions(v) \/ claim_due_deliveries(v)
        PROVE  claims'[w][d] = Null
    BY <1>3 DEF Poll, load_submissions, claim_due_deliveries, IdleHoldsNothing, TypeOK
  <1>4. CASE UNCHANGED <<pc, claims>>
    BY <1>4 DEF IdleHoldsNothing
  <1>5. \/ \E v \in Workers : \/ Rest(v) \/ Poll(v) \/ load_submissions(v)
                              \/ claim_due_deliveries(v)
                              \/ \E e \in Deliveries : pc[v] = "sending" /\ Drop(v, e)
        \/ UNCHANGED <<pc, claims>>
    BY DEF Next, Activity, Tick, vars, add_submission, requeue_failed_delivery, WorkerStep,
           NothingDue, LoadFails, complete_attempt, CompletionRefused, Refresh, Fault, Crash,
           CompletionFails, Unrecorded, Sweep, SweepStart, SweepSelect, SweepDelete, SweepStop
  <1> QED
    BY <1>1, <1>2, <1>3, <1>4, <1>5

\* Only an accepted delivery is ever claimed.
LEMMA ClaimsAcceptedStep ==
  TypeOK /\ StoredAccepted /\ ClaimsAccepted /\ [Next]_vars => ClaimsAccepted'
  <1> SUFFICES ASSUME TypeOK, StoredAccepted, ClaimsAccepted, [Next]_vars,
                      NEW w \in Workers, NEW d \in Deliveries, claims'[w][d] # Null
               PROVE  delivery'[d].state # "absent"
    BY DEF ClaimsAccepted
  <1>1. claims[w][d] # Null \/ d \in stored
    BY ClaimsStep
  <1>2. delivery[d].state # "absent"
    BY <1>1 DEF ClaimsAccepted, StoredAccepted
  <1> QED
    BY <1>2, AcceptedStays

-----------------------------------------------------------------------------
(***************************************************************************)
(* The history.                                                            *)
(***************************************************************************)

\* A recorded attempt takes the next number; no other step touches the numbering.
LEMMA HistoryStep ==
  TypeOK /\ HistoryNumbered /\ [Next]_vars => HistoryNumbered'
  <1> SUFFICES ASSUME TypeOK, HistoryNumbered, [Next]_vars, NEW d \in Deliveries
               PROVE  /\ {a.attempt_number : a \in history'[d]} = 1..delivery'[d].attempts
                      /\ \A a, b \in history'[d] :
                           a.attempt_number = b.attempt_number => a = b
    BY DEF HistoryNumbered
  <1> USE DEF rows
  <1>1. /\ delivery[d] \in WebhookDelivery
        /\ delivery[d].attempts \in Nat
    BY DEF TypeOK, WebhookDelivery
  <1>2. /\ {a.attempt_number : a \in history[d]} = 1..delivery[d].attempts
        /\ \A a, b \in history[d] : a.attempt_number = b.attempt_number => a = b
    BY DEF HistoryNumbered
  <1>3. ASSUME NEW w \in Workers, NEW e \in Deliveries, NEW result \in DeliveryResult,
               complete_attempt(w, e, result), e = d
        PROVE  /\ {a.attempt_number : a \in history'[d]} = 1..delivery'[d].attempts
               /\ \A a, b \in history'[d] : a.attempt_number = b.attempt_number => a = b
    <2> DEFINE new == AttemptRow(d, claims[w][d], result)
    <2>1. history'[d] = history[d] \cup {new}
      BY <1>3 DEF complete_attempt, TypeOK
    <2>2. delivery'[d].attempts = delivery[d].attempts + 1
      <3>1. delivery'[d] = CompletedRow(d, claims[w][d], result, batch_now[w])
        BY <1>3 DEF complete_attempt, TypeOK
      <3> QED
        BY <1>1, <3>1 DEF CompletedRow, WebhookDelivery
    <2>3. new.attempt_number = delivery[d].attempts + 1
      BY DEF AttemptRow
    <2>4. 1..delivery'[d].attempts = (1..delivery[d].attempts) \cup {delivery[d].attempts + 1}
      BY <1>1, <2>2
    <2>5. \A a \in history[d] : a.attempt_number # new.attempt_number
      BY <1>1, <1>2, <2>3
    <2> HIDE DEF new
    <2>6. {a.attempt_number : a \in history'[d]}
            = {a.attempt_number : a \in history[d]} \cup {new.attempt_number}
      BY <2>1
    <2> QED
      BY <1>2, <2>1, <2>3, <2>4, <2>5, <2>6
  <1>4. CASE history'[d] = history[d] /\ delivery'[d].attempts = delivery[d].attempts
    BY <1>2, <1>4
  <1>5. \/ \E w \in Workers, result \in DeliveryResult : complete_attempt(w, d, result)
        \/ history'[d] = history[d]
    <2>1. ASSUME NEW w \in Workers, NEW e \in Deliveries, NEW result \in DeliveryResult,
                 complete_attempt(w, e, result), e # d
          PROVE  history'[d] = history[d]
      BY <2>1 DEF complete_attempt, TypeOK
    <2>2. \/ \E w \in Workers, e \in Deliveries, result \in DeliveryResult :
               complete_attempt(w, e, result)
          \/ history' = history
      BY DEF Next, Activity, Tick, vars, add_submission, requeue_failed_delivery, WorkerStep,
             Poll, claim_due_deliveries, NothingDue, load_submissions, LoadFails,
             CompletionRefused, Refresh, Fault, Crash, CompletionFails, Unrecorded, Sweep,
             SweepStart, SweepSelect, SweepDelete, SweepStop
    <2> QED
      BY <2>1, <2>2
  <1>6. \/ \E w \in Workers, result \in DeliveryResult : complete_attempt(w, d, result)
        \/ delivery'[d].attempts = delivery[d].attempts
    <2>1. /\ AcceptedRow(d).attempts = delivery[d].attempts
          /\ RequeuedRow(d).attempts = delivery[d].attempts
          /\ \A now \in Nat : Claimed(d, now).attempts = delivery[d].attempts
      BY <1>1 DEF AcceptedRow, RequeuedRow, Claimed, WebhookDelivery
    <2>2. ASSUME NEW e \in Deliveries, add_submission(e) \/ requeue_failed_delivery(e)
          PROVE  delivery'[d].attempts = delivery[d].attempts
      BY <2>1, <2>2 DEF add_submission, requeue_failed_delivery, TypeOK
    <2>3. ASSUME NEW w \in Workers, claim_due_deliveries(w)
          PROVE  delivery'[d].attempts = delivery[d].attempts
      <3>1. batch_now[w] \in Nat
        BY DEF TypeOK
      <3>2. delivery'[d] = Claimed(d, batch_now[w]) \/ delivery'[d] = delivery[d]
        BY <2>3 DEF claim_due_deliveries
      <3> QED
        BY <2>1, <3>1, <3>2
    <2>4. ASSUME NEW w \in Workers, NEW e \in Deliveries, NEW result \in DeliveryResult,
                 complete_attempt(w, e, result), e # d
          PROVE  delivery'[d].attempts = delivery[d].attempts
      BY <2>4 DEF complete_attempt, TypeOK
    <2>5. CASE \/ Tick \/ Sweep \/ UNCHANGED vars \/ Fault
               \/ \E w \in Workers : \/ Poll(w) \/ NothingDue(w) \/ load_submissions(w)
                                     \/ LoadFails(w)
                                     \/ \E e \in Deliveries : \/ CompletionRefused(w, e)
                                                              \/ Refresh(w, e)
      <3>1. delivery' = delivery
        BY <2>5 DEF Tick, Sweep, SweepStart, SweepSelect, SweepDelete, SweepStop, vars, Poll,
                    NothingDue, load_submissions, LoadFails, Fault, Crash, CompletionRefused,
                    CompletionFails, Unrecorded, Refresh
      <3> QED
        BY <3>1
    <2> QED
      BY <2>2, <2>3, <2>4, <2>5 DEF Next, Activity, WorkerStep
  <1> QED
    BY <1>3, <1>4, <1>5, <1>6

-----------------------------------------------------------------------------
(***************************************************************************)
(* The theorems.                                                           *)
(***************************************************************************)

\* QueueInv holds at the start and every step keeps it.
THEOREM QueueInvariant == Spec => []QueueInv
  <1>1. Init => QueueInv
    <2> SUFFICES ASSUME Init PROVE QueueInv
      OBVIOUS
    <2>1. TypeOK
      BY DEF Init, TypeOK, Absent, WebhookDelivery, NoClaims, AllLinked, NoSweep, SweepRun, Null
    <2>2. RowConsistent
      BY DEF Init, RowConsistent, Absent, TERMINAL_STATES, Null
    <2>3. OneOwner /\ ClaimsAccepted /\ IdleHoldsNothing
      BY DEF Init, OneOwner, ClaimsAccepted, IdleHoldsNothing, Absent, NoClaims, Null
    <2>4. SelectedDelivered /\ StoredAccepted /\ UnlinkedOnlyDelivered
      BY DEF Init, SelectedDelivered, StoredAccepted, UnlinkedOnlyDelivered, Absent, NoSweep
    <2>5. HistoryNumbered
      BY DEF Init, HistoryNumbered, Absent
    <2> QED
      BY <2>1, <2>2, <2>3, <2>4, <2>5 DEF QueueInv
  <1>2. QueueInv /\ [Next]_vars => QueueInv'
    BY TypeStep, RowConsistentStep, OneOwnerStep, IdleHoldsNothingStep, StoredAcceptedStep,
       ClaimsAcceptedStep, SelectedDeliveredStep, UnlinkedStep, HistoryStep
       DEF QueueInv
  <1> QED
    BY <1>1, <1>2, PTL DEF Spec

\* Retention never deletes the submission of a delivery that is waiting, being sent or
\* replayable, however sweeps, workers, replays and crashes interleave.
THEOREM RetentionSafe == Spec => []UnlinkedOnlyDelivered
  <1>1. QueueInv => UnlinkedOnlyDelivered
    BY DEF QueueInv
  <1> QED
    BY <1>1, QueueInvariant, PTL

\* What a sweep selected stays eligible until it deletes it, so deleting by identifier
\* without looking again is sound.
THEOREM SelectionSafe == Spec => []SelectionStillEligible
  <1>1. QueueInv => SelectionStillEligible
    BY DEF QueueInv, SelectedDelivered, SelectionStillEligible, expired_condition,
           PROTECTED_DELIVERY_STATES
  <1> QED
    BY <1>1, QueueInvariant, PTL

\* Two workers never hold the same claim, so at most one completion is an owner's.
THEOREM ClaimExclusive == Spec => []OneOwner
  <1>1. QueueInv => OneOwner
    BY DEF QueueInv
  <1> QED
    BY <1>1, QueueInvariant, PTL

\* The recorded attempts of a delivery are numbered 1..attempts without gap or repeat.
THEOREM HistoryExact == Spec => []HistoryNumbered
  <1>1. QueueInv => HistoryNumbered
    BY DEF QueueInv
  <1> QED
    BY <1>1, QueueInvariant, PTL

\* No step takes a delivery out of delivered.
THEOREM DeliveredForGood == Spec => DeliveredIsFinal
  <1>1. QueueInv /\ [Next]_vars =>
          [\A d \in Deliveries :
             delivery[d].state = "delivered" => delivery'[d].state = "delivered"]_vars
    BY DeliveredStays DEF QueueInv
  <1> QED
    BY <1>1, QueueInvariant, PTL DEF Spec, DeliveredIsFinal

\* What a worker does when it lets go of a job, seen from the job's row: the row is
\* completed under the worker's own token, or not touched.
LEMMA LettingGo ==
  ASSUME QueueInv, [Next]_vars, NEW w \in Workers, NEW d \in Deliveries,
         claims[w][d] # Null, claims'[w][d] = Null
  PROVE  \/ delivery'[d] = delivery[d]
         \/ \E result \in DeliveryResult :
              delivery'[d] = CompletedRow(d, claims[w][d], result, batch_now[w])
  <1> USE DEF rows, workerVars
  <1>1. TypeOK
    BY DEF QueueInv
  <1>2. ASSUME NEW v \in Workers, NEW e \in Deliveries, NEW result \in DeliveryResult,
               complete_attempt(v, e, result)
        PROVE  v = w /\ e = d
    BY <1>1, <1>2 DEF complete_attempt, Drop, TypeOK
  <1>3. ASSUME NEW result \in DeliveryResult, complete_attempt(w, d, result)
        PROVE  delivery'[d] = CompletedRow(d, claims[w][d], result, batch_now[w])
    BY <1>1, <1>3 DEF complete_attempt, TypeOK
  <1>4. ASSUME NEW v \in Workers, claim_due_deliveries(v) PROVE FALSE
    <2>1. pc[v] = "polled"
      BY <1>4 DEF claim_due_deliveries
    <2>2. v # w
      BY <2>1 DEF QueueInv, IdleHoldsNothing
    <2>3. claims'[w] = claims[w]
      BY <1>1, <1>4, <2>2 DEF claim_due_deliveries, TypeOK
    <2> QED
      BY <2>3
  <1>5. ASSUME NEW e \in Deliveries, add_submission(e) \/ requeue_failed_delivery(e) PROVE FALSE
    BY <1>5 DEF add_submission, requeue_failed_delivery
  <1>6. CASE \/ Tick \/ Sweep \/ UNCHANGED vars \/ Fault
             \/ \E v \in Workers : \/ Poll(v) \/ NothingDue(v) \/ load_submissions(v)
                                   \/ LoadFails(v)
                                   \/ \E e \in Deliveries : \/ CompletionRefused(v, e)
                                                            \/ Refresh(v, e)
    <2>1. delivery' = delivery
      BY <1>6 DEF Tick, Sweep, SweepStart, SweepSelect, SweepDelete, SweepStop, vars, Poll,
                  NothingDue, load_submissions, LoadFails, Fault, Crash, CompletionRefused,
                  CompletionFails, Unrecorded, Refresh
    <2> QED
      BY <2>1
  <1> QED
    BY <1>2, <1>3, <1>4, <1>5, <1>6 DEF Next, Activity, WorkerStep

\* The fence holds: a superseded worker changes nothing of a delivery but its count.
THEOREM Fenced == Spec => SupersededChangesNothing
  <1>1. QueueInv /\ [Next]_vars =>
          [\A w \in Workers, d \in Deliveries :
             claims[w][d] # Null /\ claims'[w][d] = Null
               /\ delivery[d].claim_token # claims[w][d] =>
               delivery'[d] = [delivery[d] EXCEPT !.attempts = delivery'[d].attempts]]_vars
    <2> SUFFICES ASSUME QueueInv, [Next]_vars, NEW w \in Workers, NEW d \in Deliveries,
                        claims[w][d] # Null, claims'[w][d] = Null,
                        delivery[d].claim_token # claims[w][d]
                 PROVE  delivery'[d] = [delivery[d] EXCEPT !.attempts = delivery'[d].attempts]
      OBVIOUS
    <2>1. delivery[d] \in WebhookDelivery
      BY DEF QueueInv, TypeOK
    <2>2. CASE delivery'[d] = delivery[d]
      BY <2>1, <2>2 DEF WebhookDelivery
    <2>3. ASSUME NEW result \in DeliveryResult,
                 delivery'[d] = CompletedRow(d, claims[w][d], result, batch_now[w])
          PROVE  delivery'[d] = [delivery[d] EXCEPT !.attempts = delivery'[d].attempts]
      <3>1. ~Owned(d, claims[w][d])
        BY DEF Owned
      <3>2. delivery'[d] = [delivery[d] EXCEPT !.attempts = delivery[d].attempts + 1]
        BY <2>3, <3>1 DEF CompletedRow
      <3> QED
        BY <2>1, <3>2 DEF WebhookDelivery
    <2> QED
      BY <2>2, <2>3, LettingGo
  <1> QED
    BY <1>1, QueueInvariant, PTL DEF Spec, SupersededChangesNothing

-----------------------------------------------------------------------------
(***************************************************************************)
(* The ledger: what the audit history of a delivery has to do with its     *)
(* state, its allowance and its replays.                                   *)
(***************************************************************************)
OwnedIn(H)     == {a \in H : a.owned}
SuccessesIn(H) == {a \in H : a.owned /\ a.outcome = "succeeded"}

\* The owned attempts are paid for by the replays granted and the current cycle, and an
\* owned success is what a delivered row has and no other.
Balanced(row, H, granted) ==
  /\ IsFiniteSet(H)
  /\ row.cycle_attempts <= MaxAttempts
  /\ row.state \in {"absent", "pending", "processing"} => row.cycle_attempts < MaxAttempts
  /\ Cardinality(OwnedIn(H)) <= MaxAttempts * granted + row.cycle_attempts
  /\ row.state = "delivered" <=> SuccessesIn(H) # {}
  /\ Cardinality(SuccessesIn(H)) <= 1
  /\ row.state = "failed" =>
       row.cycle_attempts >= MaxAttempts \/ \E a \in H : a.owned /\ a.final

Ledger == \A d \in Deliveries : Balanced(delivery[d], history[d], replays[d])

\* What one step may do to a row together with its history and its replays.
LEMMA LedgerStep ==
  ASSUME TypeOK, [Next]_vars, NEW d \in Deliveries
  PROVE  \/ /\ \/ delivery'[d] = delivery[d]
               \/ delivery[d].state = "absent" /\ delivery'[d] = AcceptedRow(d)
               \/ \E now \in Nat : due_condition(d, now) /\ delivery'[d] = Claimed(d, now)
            /\ history'[d] = history[d]
            /\ replays'[d] = replays[d]
         \/ /\ \E w \in Workers, result \in DeliveryResult :
                 /\ claims[w][d] # Null
                 /\ delivery'[d] = CompletedRow(d, claims[w][d], result, batch_now[w])
                 /\ history'[d] = history[d] \cup {AttemptRow(d, claims[w][d], result)}
            /\ replays'[d] = replays[d]
         \/ /\ delivery[d].state = "failed" /\ delivery'[d] = RequeuedRow(d)
            /\ history'[d] = history[d]
            /\ replays'[d] = replays[d] + 1
  <1> USE DEF rows, ghosts
  <1>1. CASE \/ Tick \/ Sweep \/ UNCHANGED vars \/ Fault
             \/ \E w \in Workers : \/ Poll(w) \/ NothingDue(w) \/ load_submissions(w)
                                   \/ LoadFails(w)
                                   \/ \E e \in Deliveries : \/ CompletionRefused(w, e)
                                                            \/ Refresh(w, e)
    <2>1. delivery' = delivery /\ history' = history /\ replays' = replays
      BY <1>1 DEF Tick, Sweep, SweepStart, SweepSelect, SweepDelete, SweepStop, vars, Poll,
                  NothingDue, load_submissions, LoadFails, Fault, Crash, CompletionRefused,
                  CompletionFails, Unrecorded, Refresh
    <2> QED
      BY <2>1
  <1>2. ASSUME NEW e \in Deliveries, add_submission(e)
        PROVE  /\ \/ delivery'[d] = delivery[d]
                  \/ delivery[d].state = "absent" /\ delivery'[d] = AcceptedRow(d)
               /\ history'[d] = history[d] /\ replays'[d] = replays[d]
    BY <1>2 DEF add_submission, TypeOK
  <1>3. ASSUME NEW e \in Deliveries, requeue_failed_delivery(e)
        PROVE  /\ history'[d] = history[d]
               /\ \/ delivery'[d] = delivery[d] /\ replays'[d] = replays[d]
                  \/ /\ delivery[d].state = "failed" /\ delivery'[d] = RequeuedRow(d)
                     /\ replays'[d] = replays[d] + 1
    BY <1>3 DEF requeue_failed_delivery, Replayable, TypeOK
  <1>4. ASSUME NEW w \in Workers, claim_due_deliveries(w)
        PROVE  /\ \/ delivery'[d] = delivery[d]
                  \/ \E now \in Nat : due_condition(d, now) /\ delivery'[d] = Claimed(d, now)
               /\ history'[d] = history[d] /\ replays'[d] = replays[d]
    <2>1. batch_now[w] \in Nat
      BY DEF TypeOK
    <2>2. \/ delivery'[d] = delivery[d]
          \/ due_condition(d, batch_now[w]) /\ delivery'[d] = Claimed(d, batch_now[w])
      BY <1>4 DEF claim_due_deliveries
    <2>3. history' = history /\ replays' = replays
      BY <1>4 DEF claim_due_deliveries
    <2> QED
      BY <2>1, <2>2, <2>3
  <1>5. ASSUME NEW w \in Workers, NEW e \in Deliveries, NEW result \in DeliveryResult,
               complete_attempt(w, e, result)
        PROVE  /\ replays'[d] = replays[d]
               /\ \/ delivery'[d] = delivery[d] /\ history'[d] = history[d]
                  \/ /\ claims[w][d] # Null
                     /\ delivery'[d] = CompletedRow(d, claims[w][d], result, batch_now[w])
                     /\ history'[d] = history[d] \cup {AttemptRow(d, claims[w][d], result)}
    <2>1. e \in Jobs(w) /\ replays' = replays
      BY <1>5 DEF complete_attempt
    <2>2. /\ delivery' = [delivery EXCEPT ![e] = CompletedRow(e, claims[w][e], result, batch_now[w])]
          /\ history' = [history EXCEPT ![e] = @ \cup {AttemptRow(e, claims[w][e], result)}]
      BY <1>5 DEF complete_attempt
    <2>3. CASE e = d
      BY <2>1, <2>2, <2>3 DEF Jobs, TypeOK
    <2>4. CASE e # d
      BY <2>1, <2>2, <2>4 DEF TypeOK
    <2> QED
      BY <2>3, <2>4
  <1> QED
    BY <1>1, <1>2, <1>3, <1>4, <1>5 DEF Next, Activity, WorkerStep

\* An attempt recorded under a claim that held keeps the ledger balanced.
LEMMA OwnedBalanced ==
  ASSUME TypeOK, RowConsistent, NEW d \in Deliveries, NEW token \in Nat, NEW result \in DeliveryResult,
         NEW now \in Nat, Owned(d, token), Balanced(delivery[d], history[d], replays[d])
  PROVE  Balanced(CompletedRow(d, token, result, now),
                  history[d] \cup {AttemptRow(d, token, result)}, replays[d])
  <1> DEFINE row == delivery[d]
             new == CompletedRow(d, token, result, now)
             a   == AttemptRow(d, token, result)
             H   == history[d]
             n   == row.cycle_attempts
             G   == MaxAttempts * replays[d]
  <1>1. /\ row.state = "processing" /\ n \in Nat /\ n < MaxAttempts /\ IsFiniteSet(H)
        /\ SuccessesIn(H) = {}
    BY DEF Owned, RowConsistent, TypeOK, WebhookDelivery, Balanced
  <1>2. /\ new.state = Verdict(d, result) /\ new.cycle_attempts = n + 1
    BY DEF CompletedRow
  <1>3. /\ a.owned /\ a.outcome = result.outcome
        /\ a.final <=> result.outcome # "succeeded" /\ ~is_retryable(result)
    BY DEF AttemptRow
  <1>4. OwnedIn(H \cup {a}) = OwnedIn(H) \cup {a}
    BY <1>3 DEF OwnedIn
  <1>5. IsFiniteSet(H \cup {a}) /\ IsFiniteSet(OwnedIn(H))
    <2>1. OwnedIn(H) \subseteq H
      BY DEF OwnedIn
    <2> QED
      BY <1>1, <2>1, FS_AddElement, FS_Subset
  <1>6. /\ Cardinality(OwnedIn(H)) \in Nat
        /\ Cardinality(OwnedIn(H) \cup {a}) <= Cardinality(OwnedIn(H)) + 1
    <2> HIDE DEF a, H
    <2>1. IsFiniteSet(OwnedIn(H)) => Cardinality(OwnedIn(H)) \in Nat
      BY FS_CardinalityType
    <2>2. IsFiniteSet(OwnedIn(H)) =>
            Cardinality(OwnedIn(H) \cup {a}) \in {Cardinality(OwnedIn(H)), Cardinality(OwnedIn(H)) + 1}
      BY FS_AddElement
    <2> QED
      BY <1>5, <2>1, <2>2
  <1>7. Cardinality(OwnedIn(H \cup {a})) <= G + (n + 1)
    <2>1. Cardinality(OwnedIn(H)) <= G + n /\ G \in Nat
      BY DEF Balanced, TypeOK
    <2>2. Cardinality(OwnedIn(H) \cup {a}) \in Nat
      BY <1>5, FS_AddElement, FS_CardinalityType
    <2> DEFINE c == Cardinality(OwnedIn(H))
               e == Cardinality(OwnedIn(H) \cup {a})
    <2>3. c \in Nat /\ e \in Nat /\ n \in Nat /\ e <= c + 1 /\ c <= G + n
      BY <1>1, <1>6, <2>1, <2>2
    <2>4. G \in Nat
      BY <2>1
    <2>5. e <= G + (n + 1)
      <3> HIDE DEF G, n, H, a, c, e
      <3> QED
        BY <2>3, <2>4
    <2> QED
      BY <1>4, <2>5
  <1>8. /\ result.outcome = "succeeded" => SuccessesIn(H \cup {a}) = {a}
        /\ result.outcome # "succeeded" => SuccessesIn(H \cup {a}) = {}
    BY <1>1, <1>3 DEF SuccessesIn
  <1>9. /\ new.state = "delivered" <=> SuccessesIn(H \cup {a}) # {}
        /\ Cardinality(SuccessesIn(H \cup {a})) <= 1
    <2>1. Verdict(d, result) = "delivered" <=> result.outcome = "succeeded"
      BY DEF Verdict
    <2>2. Cardinality({a}) = 1 /\ Cardinality({}) = 0
      BY FS_Singleton, FS_EmptySet
    <2> HIDE DEF new, H, a
    <2>3. CASE result.outcome = "succeeded"
      <3>1. SuccessesIn(H \cup {a}) = {a} /\ new.state = "delivered"
        BY <1>2, <1>8, <2>1, <2>3
      <3>2. Cardinality(SuccessesIn(H \cup {a})) = 1
        BY <2>2, <3>1, Zenon
      <3>3. SuccessesIn(H \cup {a}) # {}
        BY <3>1, Zenon
      <3> QED
        BY <3>1, <3>2, <3>3
    <2>4. CASE result.outcome # "succeeded"
      <3>1. SuccessesIn(H \cup {a}) = {} /\ new.state # "delivered"
        BY <1>2, <1>8, <2>1, <2>4
      <3>2. Cardinality(SuccessesIn(H \cup {a})) = 0
        BY <2>2, <3>1, Zenon
      <3> QED
        BY <3>1, <3>2
    <2> QED
      BY <2>3, <2>4
  <1>10. new.state = "failed" =>
           new.cycle_attempts >= MaxAttempts \/ \E b \in H \cup {a} : b.owned /\ b.final
    <2>1. Verdict(d, result) = "failed" =>
            result.outcome # "succeeded" /\ (~is_retryable(result) \/ is_exhausted(n + 1))
      BY DEF Verdict
    <2>2. is_exhausted(n + 1) => n + 1 >= MaxAttempts
      BY DEF is_exhausted
    <2> HIDE DEF new, H, a
    <2> QED
      BY <1>2, <1>3, <2>1, <2>2
  <1>11. new.state \in {"absent", "pending", "processing"} => new.cycle_attempts < MaxAttempts
    <2>1. Verdict(d, result) = "pending" => ~is_exhausted(n + 1)
      BY DEF Verdict
    <2>2. Verdict(d, result) \in {"pending", "delivered", "failed"}
      BY VerdictType
    <2> HIDE DEF new
    <2> QED
      BY <1>1, <1>2, <2>1, <2>2 DEF is_exhausted
  <1>12. new.cycle_attempts <= MaxAttempts
    BY <1>1, <1>2
  <1> HIDE DEF new, H, a
  <1>13. Balanced(new, H \cup {a}, replays[d])
    BY <1>2, <1>5, <1>7, <1>9, <1>10, <1>11, <1>12 DEF Balanced
  <1> QED
    BY <1>13 DEF new, H, a

\* An attempt recorded by a superseded worker does not count.
LEMMA SupersededBalanced ==
  ASSUME TypeOK, NEW d \in Deliveries, NEW token \in Nat, NEW result \in DeliveryResult,
         NEW now \in Nat, ~Owned(d, token), Balanced(delivery[d], history[d], replays[d])
  PROVE  Balanced(CompletedRow(d, token, result, now),
                  history[d] \cup {AttemptRow(d, token, result)}, replays[d])
  <1> DEFINE row == delivery[d]
             new == CompletedRow(d, token, result, now)
             a   == AttemptRow(d, token, result)
             H   == history[d]
  <1>1. new.state = row.state /\ new.cycle_attempts = row.cycle_attempts
    BY DEF CompletedRow, TypeOK, WebhookDelivery
  <1>2. a.owned = FALSE
    BY DEF AttemptRow, Owned
  <1>3. OwnedIn(H \cup {a}) = OwnedIn(H) /\ SuccessesIn(H \cup {a}) = SuccessesIn(H)
    BY <1>2 DEF OwnedIn, SuccessesIn
  <1>4. IsFiniteSet(H \cup {a})
    BY FS_AddElement DEF Balanced
  <1>5. row.state = "failed" =>
          row.cycle_attempts >= MaxAttempts \/ \E b \in H \cup {a} : b.owned /\ b.final
    BY DEF Balanced
  <1> HIDE DEF new, a
  <1>6. Balanced(new, H \cup {a}, replays[d])
    BY <1>1, <1>3, <1>4, <1>5 DEF Balanced
  <1> QED
    BY <1>6 DEF new, a

\* A replay grants one more allowance and starts a new cycle.
LEMMA ReplayBalanced ==
  ASSUME TypeOK, NEW d \in Deliveries, delivery[d].state = "failed",
         Balanced(delivery[d], history[d], replays[d])
  PROVE  Balanced(RequeuedRow(d), history[d], replays[d] + 1)
  <1> DEFINE n == delivery[d].cycle_attempts
             r == replays[d]
             G == MaxAttempts * r
             c == Cardinality(OwnedIn(history[d]))
  <1>1. RequeuedRow(d).state = "pending" /\ RequeuedRow(d).cycle_attempts = 0
    BY DEF RequeuedRow, TypeOK, WebhookDelivery
  <1>2. n \in Nat /\ r \in Nat /\ G \in Nat /\ n <= MaxAttempts /\ c <= G + n
    BY DEF TypeOK, WebhookDelivery, Balanced
  <1>3. MaxAttempts * (r + 1) = G + MaxAttempts
    BY <1>2
  <1>4. c \in Nat
    <2>1. OwnedIn(history[d]) \subseteq history[d] /\ IsFiniteSet(history[d])
      BY DEF OwnedIn, Balanced
    <2> QED
      BY <2>1, FS_Subset, FS_CardinalityType
  <1> HIDE DEF G, n, c, r
  <1>5. c <= MaxAttempts * (r + 1) + 0
    BY <1>2, <1>3, <1>4
  <1>6. MaxAttempts > 0
    OBVIOUS
  <1>7. SuccessesIn(history[d]) = {} /\ IsFiniteSet(history[d])
        /\ Cardinality(SuccessesIn(history[d])) <= 1
    BY DEF Balanced
  <1> QED
    BY <1>1, <1>5, <1>6, <1>7 DEF Balanced, c, r

\* The ledger stays balanced through every step.
LEMMA LedgerKept == TypeOK /\ RowConsistent /\ Ledger /\ [Next]_vars => Ledger'
  <1> SUFFICES ASSUME TypeOK, RowConsistent, Ledger, [Next]_vars, NEW d \in Deliveries
               PROVE  Balanced(delivery'[d], history'[d], replays'[d])
    BY DEF Ledger
  <1>1. Balanced(delivery[d], history[d], replays[d]) /\ delivery[d] \in WebhookDelivery
    BY DEF Ledger, TypeOK
  <1>2. CASE delivery'[d] = delivery[d] /\ history'[d] = history[d] /\ replays'[d] = replays[d]
    BY <1>1, <1>2
  <1>3. CASE /\ delivery[d].state = "absent" /\ delivery'[d] = AcceptedRow(d)
             /\ history'[d] = history[d] /\ replays'[d] = replays[d]
    <2>1. /\ delivery'[d].state = "pending"
          /\ delivery'[d].cycle_attempts = delivery[d].cycle_attempts
      BY <1>1, <1>3 DEF AcceptedRow, WebhookDelivery
    <2> QED
      BY <1>1, <1>3, <2>1 DEF Balanced
  <1>4. ASSUME NEW now \in Nat, due_condition(d, now), delivery'[d] = Claimed(d, now),
               history'[d] = history[d], replays'[d] = replays[d]
        PROVE  Balanced(delivery'[d], history'[d], replays'[d])
    <2>1. /\ delivery'[d].state = "processing"
          /\ delivery'[d].cycle_attempts = delivery[d].cycle_attempts
          /\ delivery[d].state \in {"pending", "processing"}
      BY <1>1, <1>4 DEF Claimed, WebhookDelivery, due_condition
    <2> QED
      BY <1>1, <1>4, <2>1 DEF Balanced
  <1>5. ASSUME NEW w \in Workers, NEW result \in DeliveryResult,
               delivery'[d] = CompletedRow(d, claims[w][d], result, batch_now[w]),
               history'[d] = history[d] \cup {AttemptRow(d, claims[w][d], result)},
               replays'[d] = replays[d]
        PROVE  Balanced(delivery'[d], history'[d], replays'[d])
    <2>1. claims[w][d] \in Nat /\ batch_now[w] \in Nat
      BY DEF TypeOK
    <2>2. Balanced(CompletedRow(d, claims[w][d], result, batch_now[w]),
                   history[d] \cup {AttemptRow(d, claims[w][d], result)}, replays[d])
      BY <1>1, <2>1, OwnedBalanced, SupersededBalanced
    <2> QED
      BY <1>5, <2>2
  <1>6. CASE /\ delivery[d].state = "failed" /\ delivery'[d] = RequeuedRow(d)
             /\ history'[d] = history[d] /\ replays'[d] = replays[d] + 1
    <2>1. Balanced(RequeuedRow(d), history[d], replays[d] + 1)
      BY <1>1, <1>6, ReplayBalanced
    <2> QED
      BY <1>6, <2>1
  <1> QED
    BY <1>2, <1>3, <1>4, <1>5, <1>6, LedgerStep

\* The ledger is balanced in every reachable state.
THEOREM LedgerInvariant == Spec => []Ledger
  <1>1. Init => Ledger
    <2> SUFFICES ASSUME Init, NEW d \in Deliveries
                 PROVE  Balanced(delivery[d], history[d], replays[d])
      BY DEF Ledger
    <2>1. /\ delivery[d].state = "absent" /\ delivery[d].cycle_attempts = 0
          /\ history[d] = {} /\ replays[d] = 0
      BY DEF Init, Absent
    <2>2. OwnedIn({}) = {} /\ SuccessesIn({}) = {} /\ IsFiniteSet({}) /\ Cardinality({}) = 0
      BY FS_EmptySet DEF OwnedIn, SuccessesIn
    <2>3. MaxAttempts * 0 + 0 = 0 /\ MaxAttempts > 0
      OBVIOUS
    <2> QED
      BY <2>1, <2>2, <2>3 DEF Balanced
  <1>2. QueueInv => TypeOK /\ RowConsistent
    BY DEF QueueInv
  <1> QED
    BY <1>1, <1>2, LedgerKept, QueueInvariant, PTL DEF Spec

\* Claim columns, lease and completion time agree with the state of every row.
THEOREM RowsAgree == Spec => []RowConsistent
  <1>1. QueueInv => RowConsistent
    BY DEF QueueInv
  <1> QED
    BY <1>1, QueueInvariant, PTL

\* Owned attempts never exceed one allowance for each cycle, and what still waits to be
\* sent has some of its allowance left, whatever superseded workers record meanwhile.
THEOREM AllowanceHolds == Spec => []AllowanceKept
  <1>1. ASSUME TypeOK, Ledger PROVE AllowanceKept
    <2> SUFFICES ASSUME NEW d \in Deliveries
                 PROVE  /\ delivery[d].state \in {"pending", "processing"} =>
                             ~is_exhausted(delivery[d].cycle_attempts)
                        /\ Cardinality({a \in history[d] : a.owned}) <= MaxAttempts * (replays[d] + 1)
      BY DEF AllowanceKept
    <2> DEFINE n == delivery[d].cycle_attempts
               r == replays[d]
               G == MaxAttempts * r
               c == Cardinality(OwnedIn(history[d]))
    <2>1. Balanced(delivery[d], history[d], replays[d])
      BY <1>1 DEF Ledger
    <2>2. n \in Nat /\ r \in Nat /\ G \in Nat /\ n <= MaxAttempts /\ c <= G + n
      BY <1>1, <2>1 DEF TypeOK, WebhookDelivery, Balanced
    <2>3. MaxAttempts * (r + 1) = G + MaxAttempts
      BY <2>2
    <2>4. c \in Nat
      <3>1. OwnedIn(history[d]) \subseteq history[d] /\ IsFiniteSet(history[d])
        BY <2>1 DEF OwnedIn, Balanced
      <3> QED
        BY <3>1, FS_Subset, FS_CardinalityType
    <2>5. delivery[d].state \in {"pending", "processing"} => ~is_exhausted(n)
      BY <2>1, <2>2 DEF Balanced, is_exhausted
    <2> HIDE DEF G, n, c, r
    <2>6. c <= MaxAttempts * (r + 1)
      BY <2>2, <2>3, <2>4
    <2> QED
      BY <2>5, <2>6 DEF c, r, n, OwnedIn
  <1> QED
    BY <1>1, TypeCorrect, LedgerInvariant, PTL

\* Delivered means exactly one owned success, and failed means a refusal or a spent
\* allowance: no state is reached that the history does not explain.
THEOREM VerdictsExplained == Spec => []VerdictJustified
  <1>1. ASSUME Ledger PROVE VerdictJustified
    BY <1>1 DEF Ledger, Balanced, VerdictJustified, SuccessesIn, is_exhausted
  <1> QED
    BY <1>1, LedgerInvariant, PTL

-----------------------------------------------------------------------------
(***************************************************************************)
(* The account of requests.  Every step moves a worker from a claim to a   *)
(* request, from a request to a record, or lets it go.                     *)
(***************************************************************************)

\* A worker at a place, with a job for a delivery.
HoldsAt(place, d, w) == pc[w] = place /\ claims[w][d] # Null

\* The invariant, for one delivery: only finitely many workers have ever claimed it.
Accounted(d) ==
  /\ IsFiniteSet(WorkersAt("sending", d))
  /\ IsFiniteSet(WorkersAt("claimed", d))
  /\ delivery[d].attempts + Cardinality(WorkersAt("sending", d)) <= tried[d]
  /\ tried[d] + Cardinality(WorkersAt("claimed", d)) <= issued[d]

\* The workers at a place are the ones that hold the job there.
LEMMA MembersAt ==
  ASSUME NEW d \in Deliveries, NEW place
  PROVE  /\ WorkersAt(place, d) = {w \in Workers : HoldsAt(place, d, w)}
         /\ WorkersAt(place, d)' = {w \in Workers : HoldsAt(place, d, w)'}
  BY DEF WorkersAt, HoldsAt, Jobs

\* A finite set that loses elements, gains one or loses a known one.
LEMMA Counts ==
  ASSUME NEW S, IsFiniteSet(S)
  PROVE  /\ Cardinality(S) \in Nat
         /\ \A T \in SUBSET S : /\ IsFiniteSet(T) /\ Cardinality(T) \in Nat
                                /\ Cardinality(T) <= Cardinality(S)
         /\ \A v : \A T \in SUBSET (S \cup {v}) :
              /\ IsFiniteSet(T) /\ Cardinality(T) \in Nat
              /\ Cardinality(T) <= Cardinality(S) + 1
         /\ \A v \in S : \A T \in SUBSET (S \ {v}) :
              /\ IsFiniteSet(T) /\ Cardinality(T) \in Nat
              /\ Cardinality(T) + 1 <= Cardinality(S)
  <1>1. Cardinality(S) \in Nat
    BY FS_CardinalityType
  <1>2. ASSUME NEW A, IsFiniteSet(A), NEW T \in SUBSET A
        PROVE  /\ IsFiniteSet(T) /\ Cardinality(T) \in Nat
               /\ Cardinality(T) <= Cardinality(A)
    BY <1>2, FS_Subset, FS_CardinalityType
  <1>3. ASSUME NEW v
        PROVE  IsFiniteSet(S \cup {v}) /\ Cardinality(S \cup {v}) \in {Cardinality(S), Cardinality(S) + 1}
    BY FS_AddElement
  <1>4. ASSUME NEW v \in S
        PROVE  IsFiniteSet(S \ {v}) /\ Cardinality(S \ {v}) = Cardinality(S) - 1
    BY FS_RemoveElement
  <1>5. ASSUME NEW v, NEW T \in SUBSET (S \cup {v})
        PROVE  /\ IsFiniteSet(T) /\ Cardinality(T) \in Nat
               /\ Cardinality(T) <= Cardinality(S) + 1
    <2> DEFINE A == S \cup {v}
    <2>1. IsFiniteSet(A) /\ T \in SUBSET A
      BY <1>3
    <2>2. Cardinality(A) \in {Cardinality(S), Cardinality(S) + 1}
      BY <1>3
    <2> HIDE DEF A
    <2>3. IsFiniteSet(T) /\ Cardinality(T) \in Nat /\ Cardinality(T) <= Cardinality(A)
      BY <2>1, <1>2
    <2> QED
      BY <1>1, <2>2, <2>3
  <1>6. ASSUME NEW v \in S, NEW T \in SUBSET (S \ {v})
        PROVE  /\ IsFiniteSet(T) /\ Cardinality(T) \in Nat
               /\ Cardinality(T) + 1 <= Cardinality(S)
    <2> DEFINE A == S \ {v}
    <2>1. IsFiniteSet(A) /\ T \in SUBSET A
      BY <1>4
    <2>2. Cardinality(A) = Cardinality(S) - 1
      BY <1>4
    <2> HIDE DEF A
    <2>3. IsFiniteSet(T) /\ Cardinality(T) \in Nat /\ Cardinality(T) <= Cardinality(A)
      BY <2>1, <1>2
    <2> QED
      BY <1>1, <2>2, <2>3
  <1> QED
    BY <1>1, <1>2, <1>5, <1>6

\* What a step does to the account of one delivery.
Letting(d) ==
  /\ delivery'[d].attempts = delivery[d].attempts /\ tried'[d] = tried[d]
  /\ issued'[d] = issued[d]
  /\ \A w \in Workers : \A place \in {"claimed", "sending"} :
       HoldsAt(place, d, w)' => HoldsAt(place, d, w)

Claiming(v, d) ==
  /\ delivery'[d].attempts = delivery[d].attempts /\ tried'[d] = tried[d]
  /\ issued'[d] = issued[d] + 1
  /\ \A w \in Workers : /\ HoldsAt("sending", d, w)' => HoldsAt("sending", d, w)
                        /\ HoldsAt("claimed", d, w)' => HoldsAt("claimed", d, w) \/ w = v

Sending(v, d) ==
  /\ delivery'[d].attempts = delivery[d].attempts /\ tried'[d] = tried[d] + 1
  /\ issued'[d] = issued[d]
  /\ HoldsAt("claimed", d, v)
  /\ \A w \in Workers : /\ HoldsAt("sending", d, w)' => HoldsAt("sending", d, w) \/ w = v
                        /\ HoldsAt("claimed", d, w)' => HoldsAt("claimed", d, w) /\ w # v

Recording(v, d) ==
  /\ delivery'[d].attempts = delivery[d].attempts + 1 /\ tried'[d] = tried[d]
  /\ issued'[d] = issued[d]
  /\ HoldsAt("sending", d, v)
  /\ \A w \in Workers : /\ HoldsAt("sending", d, w)' => HoldsAt("sending", d, w) /\ w # v
                        /\ HoldsAt("claimed", d, w)' => HoldsAt("claimed", d, w)

\* Each of them keeps it balanced.
LEMMA AccountKept ==
  ASSUME TypeOK, NEW d \in Deliveries, Accounted(d),
         Letting(d) \/ \E v \in Workers : Claiming(v, d) \/ Sending(v, d) \/ Recording(v, d)
  PROVE  Accounted(d)'
  <1> DEFINE S == WorkersAt("sending", d)
             C == WorkersAt("claimed", d)
             S1 == WorkersAt("sending", d)'
             C1 == WorkersAt("claimed", d)'
  <1>1. /\ S = {w \in Workers : HoldsAt("sending", d, w)}
        /\ C = {w \in Workers : HoldsAt("claimed", d, w)}
        /\ S1 = {w \in Workers : HoldsAt("sending", d, w)'}
        /\ C1 = {w \in Workers : HoldsAt("claimed", d, w)'}
    BY MembersAt
  <1>2. /\ delivery[d].attempts \in Nat /\ tried[d] \in Nat /\ issued[d] \in Nat
    BY DEF TypeOK, WebhookDelivery
  <1>3. /\ IsFiniteSet(S) /\ IsFiniteSet(C)
        /\ delivery[d].attempts + Cardinality(S) <= tried[d]
        /\ tried[d] + Cardinality(C) <= issued[d]
    BY DEF Accounted
  <1> HIDE DEF S, C, S1, C1
  <1>4. Cardinality(S) \in Nat /\ Cardinality(C) \in Nat
    BY <1>3, Counts
  <1> SUFFICES /\ IsFiniteSet(S1) /\ IsFiniteSet(C1)
               /\ delivery'[d].attempts + Cardinality(S1) <= tried'[d]
               /\ tried'[d] + Cardinality(C1) <= issued'[d]
    BY DEF Accounted, S1, C1
  <1>5. CASE Letting(d)
    <2>1. S1 \in SUBSET S /\ C1 \in SUBSET C
      BY <1>1, <1>5 DEF Letting
    <2>2. /\ IsFiniteSet(S1) /\ Cardinality(S1) \in Nat /\ Cardinality(S1) <= Cardinality(S)
          /\ IsFiniteSet(C1) /\ Cardinality(C1) \in Nat /\ Cardinality(C1) <= Cardinality(C)
      BY <1>3, <2>1, Counts
    <2>3. /\ delivery'[d].attempts = delivery[d].attempts /\ tried'[d] = tried[d]
          /\ issued'[d] = issued[d]
      BY <1>5 DEF Letting
    <2> QED
      BY <1>2, <1>3, <1>4, <2>2, <2>3
  <1>6. ASSUME NEW v \in Workers, Claiming(v, d)
        PROVE  /\ IsFiniteSet(S1) /\ IsFiniteSet(C1)
               /\ delivery'[d].attempts + Cardinality(S1) <= tried'[d]
               /\ tried'[d] + Cardinality(C1) <= issued'[d]
    <2>1. S1 \in SUBSET S /\ C1 \in SUBSET (C \cup {v})
      BY <1>1, <1>6 DEF Claiming
    <2>2. /\ IsFiniteSet(S1) /\ Cardinality(S1) \in Nat /\ Cardinality(S1) <= Cardinality(S)
          /\ IsFiniteSet(C1) /\ Cardinality(C1) \in Nat /\ Cardinality(C1) <= Cardinality(C) + 1
      BY <1>3, <2>1, Counts
    <2>3. /\ delivery'[d].attempts = delivery[d].attempts /\ tried'[d] = tried[d]
          /\ issued'[d] = issued[d] + 1
      BY <1>6 DEF Claiming
    <2> QED
      BY <1>2, <1>3, <1>4, <2>2, <2>3
  <1>7. ASSUME NEW v \in Workers, Sending(v, d)
        PROVE  /\ IsFiniteSet(S1) /\ IsFiniteSet(C1)
               /\ delivery'[d].attempts + Cardinality(S1) <= tried'[d]
               /\ tried'[d] + Cardinality(C1) <= issued'[d]
    <2>1. S1 \in SUBSET (S \cup {v}) /\ v \in C /\ C1 \in SUBSET (C \ {v})
      BY <1>1, <1>7 DEF Sending
    <2>2. /\ IsFiniteSet(S1) /\ Cardinality(S1) \in Nat /\ Cardinality(S1) <= Cardinality(S) + 1
          /\ IsFiniteSet(C1) /\ Cardinality(C1) \in Nat /\ Cardinality(C1) + 1 <= Cardinality(C)
      BY <1>3, <2>1, Counts
    <2>3. /\ delivery'[d].attempts = delivery[d].attempts /\ tried'[d] = tried[d] + 1
          /\ issued'[d] = issued[d]
      BY <1>7 DEF Sending
    <2> QED
      BY <1>2, <1>3, <1>4, <2>2, <2>3
  <1>8. ASSUME NEW v \in Workers, Recording(v, d)
        PROVE  /\ IsFiniteSet(S1) /\ IsFiniteSet(C1)
               /\ delivery'[d].attempts + Cardinality(S1) <= tried'[d]
               /\ tried'[d] + Cardinality(C1) <= issued'[d]
    <2>1. v \in S /\ S1 \in SUBSET (S \ {v}) /\ C1 \in SUBSET C
      BY <1>1, <1>8 DEF Recording
    <2>2. /\ IsFiniteSet(S1) /\ Cardinality(S1) \in Nat /\ Cardinality(S1) + 1 <= Cardinality(S)
          /\ IsFiniteSet(C1) /\ Cardinality(C1) \in Nat /\ Cardinality(C1) <= Cardinality(C)
      BY <1>3, <2>1, Counts
    <2>3. /\ delivery'[d].attempts = delivery[d].attempts + 1 /\ tried'[d] = tried[d]
          /\ issued'[d] = issued[d]
      BY <1>8 DEF Recording
    <2> QED
      BY <1>2, <1>3, <1>4, <2>2, <2>3
  <1> QED
    BY <1>5, <1>6, <1>7, <1>8

\* And every step is one of them.
LEMMA AccountStep ==
  ASSUME TypeOK, [Next]_vars, NEW d \in Deliveries
  PROVE  Letting(d) \/ \E v \in Workers : Claiming(v, d) \/ Sending(v, d) \/ Recording(v, d)
  <1> USE DEF rows, workerVars, ghosts
  <1>0. /\ delivery \in [Deliveries -> WebhookDelivery] /\ delivery[d] \in WebhookDelivery
        /\ claims \in [Workers -> [Deliveries -> Nat]]
        /\ pc \in [Workers -> {"idle", "polled", "claimed", "sending"}]
    BY DEF TypeOK
  <1>1. CASE \/ Tick \/ Sweep \/ UNCHANGED vars
             \/ \E v \in Workers, e \in Deliveries : Refresh(v, e)
    <2>1. UNCHANGED <<delivery, claims, pc, tried, issued>>
      BY <1>1 DEF Tick, Sweep, SweepStart, SweepSelect, SweepDelete, SweepStop, vars, Refresh
    <2> QED
      BY <2>1 DEF Letting, HoldsAt
  <1>2. ASSUME NEW e \in Deliveries, add_submission(e) \/ requeue_failed_delivery(e)
        PROVE  Letting(d)
    <2>1. /\ AcceptedRow(d).attempts = delivery[d].attempts
          /\ RequeuedRow(d).attempts = delivery[d].attempts
      BY <1>0 DEF AcceptedRow, RequeuedRow, WebhookDelivery
    <2>2. delivery'[d] \in {delivery[d], AcceptedRow(d), RequeuedRow(d)}
      BY <1>0, <1>2 DEF add_submission, requeue_failed_delivery
    <2>3. delivery'[d].attempts = delivery[d].attempts
      BY <2>1, <2>2
    <2>4. UNCHANGED <<claims, pc, tried, issued>>
      BY <1>2 DEF add_submission, requeue_failed_delivery
    <2> QED
      BY <2>3, <2>4 DEF Letting, HoldsAt
  <1>3. ASSUME NEW v \in Workers, Poll(v) \/ NothingDue(v) \/ LoadFails(v) \/ Crash(v)
        PROVE  Letting(d)
    <2>1. UNCHANGED <<delivery, tried, issued>>
      BY <1>3 DEF Poll, NothingDue, LoadFails, Crash
    <2>2. pc'[v] \in {"polled", "idle"}
      BY <1>0, <1>3 DEF Poll, NothingDue, LoadFails, Crash, Rest
    <2>3. \A w \in Workers \ {v} : pc'[w] = pc[w] /\ claims'[w] = claims[w]
      BY <1>0, <1>3 DEF Poll, NothingDue, LoadFails, Crash, Rest
    <2> QED
      BY <2>1, <2>2, <2>3 DEF Letting, HoldsAt
  <1>4. ASSUME NEW v \in Workers, claim_due_deliveries(v)
        PROVE  Letting(d) \/ Claiming(v, d)
    <2>1. PICK taken \in SUBSET {e \in Deliveries : due_condition(e, batch_now[v])} :
            /\ delivery' = [e \in Deliveries |->
                              IF e \in taken THEN Claimed(e, batch_now[v]) ELSE delivery[e]]
            /\ issued' = [e \in Deliveries |-> IF e \in taken THEN issued[e] + 1 ELSE issued[e]]
            /\ claims' = [claims EXCEPT ![v] =
                 [e \in Deliveries |-> IF e \in taken THEN new_claim_token(e) ELSE Null]]
      BY <1>4 DEF claim_due_deliveries
    <2>2. pc' = [pc EXCEPT ![v] = "claimed"] /\ tried' = tried
      BY <1>4 DEF claim_due_deliveries
    <2>3. pc'[v] = "claimed" /\ \A w \in Workers \ {v} : pc'[w] = pc[w] /\ claims'[w] = claims[w]
      BY <1>0, <2>1, <2>2
    <2>4. CASE d \in taken
      <3>1. delivery'[d].attempts = delivery[d].attempts
        BY <1>0, <2>1, <2>4 DEF Claimed, WebhookDelivery
      <3>2. issued'[d] = issued[d] + 1
        BY <2>1, <2>4
      <3> QED
        BY <2>2, <2>3, <3>1, <3>2 DEF Claiming, HoldsAt
    <2>5. CASE d \notin taken
      <3>1. delivery'[d] = delivery[d] /\ issued'[d] = issued[d]
        BY <2>1, <2>5
      <3>2. claims'[v][d] = Null
        BY <1>0, <2>1, <2>5
      <3> QED
        BY <2>2, <2>3, <3>1, <3>2 DEF Letting, HoldsAt
    <2> QED
      BY <2>4, <2>5
  <1>5. ASSUME NEW v \in Workers, load_submissions(v)
        PROVE  Letting(d) \/ Sending(v, d)
    <2>1. /\ pc[v] = "claimed" /\ pc' = [pc EXCEPT ![v] = "sending"]
          /\ tried' = [e \in Deliveries |-> IF e \in Jobs(v) THEN tried[e] + 1 ELSE tried[e]]
          /\ UNCHANGED <<delivery, claims, issued>>
      BY <1>5 DEF load_submissions
    <2>2. pc'[v] = "sending" /\ \A w \in Workers \ {v} : pc'[w] = pc[w]
      BY <1>0, <2>1
    <2>3. CASE d \in Jobs(v)
      <3>1. claims[v][d] # Null /\ tried'[d] = tried[d] + 1
        BY <2>1, <2>3 DEF Jobs
      <3> QED
        BY <2>1, <2>2, <3>1 DEF Sending, HoldsAt
    <2>4. CASE d \notin Jobs(v)
      <3>1. claims[v][d] = Null /\ tried'[d] = tried[d]
        BY <2>1, <2>4 DEF Jobs
      <3> QED
        BY <2>1, <2>2, <3>1 DEF Letting, HoldsAt
    <2> QED
      BY <2>3, <2>4
  <1>6. ASSUME NEW v \in Workers, NEW e \in Deliveries, pc[v] = "sending", Drop(v, e)
        PROVE  /\ \A w \in Workers : \A place \in {"claimed", "sending"} :
                    HoldsAt(place, d, w)' => HoldsAt(place, d, w)
               /\ ~HoldsAt("sending", e, v)'
    <2>1. \A w \in Workers \ {v} : pc'[w] = pc[w] /\ claims'[w] = claims[w]
      BY <1>0, <1>6 DEF Drop
    <2>2. pc'[v] \in {"idle", "sending"} /\ claims'[v][e] = Null
      BY <1>0, <1>6 DEF Drop
    <2>3. claims'[v][d] # Null => claims'[v][d] = claims[v][d]
      BY <1>0, <1>6 DEF Drop
    <2> QED
      BY <1>6, <2>1, <2>2, <2>3 DEF HoldsAt
  <1>7. ASSUME NEW v \in Workers, NEW e \in Deliveries,
               CompletionRefused(v, e) \/ CompletionFails(v, e)
        PROVE  Letting(d)
    <2>1. pc[v] = "sending" /\ Drop(v, e) /\ UNCHANGED <<delivery, tried, issued>>
      BY <1>7 DEF CompletionRefused, CompletionFails, Unrecorded
    <2> QED
      BY <1>6, <2>1 DEF Letting
  <1>8. ASSUME NEW v \in Workers, NEW e \in Deliveries, NEW result \in DeliveryResult,
               complete_attempt(v, e, result)
        PROVE  Letting(d) \/ Recording(v, d)
    <2>1. /\ pc[v] = "sending" /\ claims[v][e] # Null /\ Drop(v, e)
          /\ UNCHANGED <<tried, issued>>
          /\ delivery' = [delivery EXCEPT ![e] =
                            CompletedRow(e, claims[v][e], result, batch_now[v])]
      BY <1>8 DEF complete_attempt, Jobs
    <2>2. /\ \A w \in Workers : \A place \in {"claimed", "sending"} :
               HoldsAt(place, d, w)' => HoldsAt(place, d, w)
          /\ ~HoldsAt("sending", e, v)'
      BY <1>6, <2>1
    <2>3. CASE e = d
      <3>1. delivery'[d] = CompletedRow(d, claims[v][d], result, batch_now[v])
        BY <1>0, <2>1, <2>3
      <3>2. delivery'[d].attempts = delivery[d].attempts + 1
        BY <1>0, <3>1 DEF CompletedRow, WebhookDelivery
      <3>3. HoldsAt("sending", d, v)
        BY <2>1, <2>3 DEF HoldsAt
      <3> QED
        BY <2>1, <2>2, <2>3, <3>2, <3>3 DEF Recording
    <2>4. CASE e # d
      <3>1. delivery'[d] = delivery[d]
        BY <1>0, <2>1, <2>4
      <3> QED
        BY <2>1, <2>2, <3>1 DEF Letting
    <2> QED
      BY <2>3, <2>4
  <1> QED
    BY <1>1, <1>2, <1>3, <1>4, <1>5, <1>7, <1>8 DEF Next, Activity, WorkerStep, Fault

\* Each claim is attempted and each attempt recorded at most once, for any number of
\* workers and however they fail; only what cannot be sent has rows without a request.
THEOREM AttemptsInAccount == Spec => []AttemptsAccounted
  <1> DEFINE AllAccounted == \A d \in Deliveries : Accounted(d)
  <1>1. Init => AllAccounted
    <2> SUFFICES ASSUME Init, NEW d \in Deliveries PROVE Accounted(d)
      OBVIOUS
    <2>1. WorkersAt("sending", d) = {} /\ WorkersAt("claimed", d) = {}
      BY DEF Init, WorkersAt
    <2>2. IsFiniteSet({}) /\ Cardinality({}) = 0
      BY FS_EmptySet
    <2>3. delivery[d].attempts = 0 /\ tried[d] = 0 /\ issued[d] = 0
      BY DEF Init, Absent
    <2> QED
      BY <2>1, <2>2, <2>3 DEF Accounted
  <1>2. TypeOK /\ AllAccounted /\ [Next]_vars => AllAccounted'
    BY AccountStep, AccountKept
  <1>3. TypeOK /\ AllAccounted => AttemptsAccounted
    <2> SUFFICES ASSUME TypeOK, AllAccounted, NEW d \in Deliveries
                 PROVE  /\ delivery[d].attempts + Cardinality(WorkersAt("sending", d)) <= tried[d]
                        /\ tried[d] + Cardinality(WorkersAt("claimed", d)) <= issued[d]
                        /\ delivery[d].attempts > Sent(d) => d \in Unsendable
      BY DEF AttemptsAccounted
    <2>1. Accounted(d)
      OBVIOUS
    <2>2. /\ delivery[d].attempts \in Nat /\ tried[d] \in Nat
          /\ Cardinality(WorkersAt("sending", d)) \in Nat
      BY <2>1, FS_CardinalityType DEF Accounted, TypeOK, WebhookDelivery
    <2>3. d \notin Unsendable => delivery[d].attempts <= Sent(d)
      BY <2>1, <2>2 DEF Accounted, Sent
    <2>4. Sent(d) \in Nat
      BY <2>2 DEF Sent
    <2> QED
      BY <2>1, <2>2, <2>3, <2>4 DEF Accounted
  <1> HIDE DEF AllAccounted
  <1> QED
    BY <1>1, <1>2, <1>3, TypeCorrect, PTL DEF Spec

-----------------------------------------------------------------------------
(***************************************************************************)
(* Workers on time.  Under TimelySpec, with a lease longer than a batch    *)
(* takes, no claim is ever superseded.                                     *)
(***************************************************************************)

\* No batch is older than the time it was given, and none is from the future.
OnTime ==
  \A w \in Workers : pc[w] # "idle" => batch_now[w] <= clock /\ clock <= batch_now[w] + Deadline

\* Whoever holds a job still owns it, under the lease it was given.
ClaimsHeld ==
  \A w \in Workers, d \in Deliveries :
    claims[w][d] # Null => /\ delivery[d].state = "processing"
                           /\ delivery[d].claim_token = claims[w][d]
                           /\ delivery[d].claim_expires_at = batch_now[w] + Lease

\* The workers that have a request for a delivery out.
InFlight(d) == {w \in Workers : pc[w] = "sending" /\ claims[w][d] # Null}

\* An attempt that was started and is not yet recorded is under way.
AttemptsCounted ==
  faults = 0 => \A d \in Deliveries : tried[d] = delivery[d].attempts + Cardinality(InFlight(d))

\* A step on time is a step.
LEMMA TimelyIsNext == [TimelyNext]_vars => [Next]_vars
  BY DEF TimelyNext, TimelyTick, Next

\* Only a tick moves the clock, only a poll starts a batch, and a worker that goes idle
\* has let go of it.
LEMMA OnTimeStep == TypeOK /\ OnTime /\ [TimelyNext]_vars => OnTime'
  <1> SUFFICES ASSUME TypeOK, OnTime, [TimelyNext]_vars, NEW w \in Workers, pc'[w] # "idle"
               PROVE  batch_now'[w] <= clock' /\ clock' <= batch_now'[w] + Deadline
    BY DEF OnTime
  <1> USE DEF rows, workerVars, ghosts
  <1>0. clock \in Nat /\ batch_now[w] \in Nat
    BY DEF TypeOK
  <1>1. CASE TimelyTick
    BY <1>0, <1>1 DEF TimelyTick, Timely, Tick, OnTime
  <1>2. ASSUME NEW v \in Workers, Poll(v)
        PROVE  batch_now'[w] <= clock' /\ clock' <= batch_now'[w] + Deadline
    BY <1>0, <1>2 DEF Poll, OnTime, TypeOK
  <1>3. CASE clock' = clock /\ pc[w] # "idle" /\ batch_now'[w] = batch_now[w]
    BY <1>3 DEF OnTime
  <1>4. CASE Activity /\ ~\E v \in Workers : Poll(v)
    <2>1. clock' = clock
      BY <1>4 DEF Activity, add_submission, requeue_failed_delivery, WorkerStep,
             claim_due_deliveries, NothingDue, load_submissions, LoadFails, complete_attempt,
             CompletionRefused, Refresh, Fault, Crash, CompletionFails, Unrecorded, Sweep,
             SweepStart, SweepSelect, SweepDelete, SweepStop
    <2>2. ASSUME NEW v \in Workers, Rest(v)
          PROVE  pc[w] # "idle" /\ batch_now'[w] = batch_now[w]
      BY <2>2 DEF Rest, TypeOK
    <2>3. ASSUME NEW v \in Workers, NEW e \in Deliveries, Drop(v, e), pc[v] # "idle"
          PROVE  pc[w] # "idle" /\ batch_now'[w] = batch_now[w]
      BY <2>3 DEF Drop, TypeOK
    <2>4. ASSUME NEW v \in Workers, claim_due_deliveries(v) \/ load_submissions(v)
          PROVE  pc[w] # "idle" /\ batch_now'[w] = batch_now[w]
      BY <2>4 DEF claim_due_deliveries, load_submissions, TypeOK
    <2>5. \/ \E v \in Workers : Rest(v) \/ claim_due_deliveries(v) \/ load_submissions(v)
          \/ \E v \in Workers, e \in Deliveries : Drop(v, e) /\ pc[v] # "idle"
          \/ pc' = pc /\ batch_now' = batch_now
      BY <1>4 DEF Activity, add_submission, requeue_failed_delivery, WorkerStep,
             NothingDue, LoadFails, complete_attempt,
             CompletionRefused, Refresh, Fault, Crash, CompletionFails, Unrecorded, Sweep,
             SweepStart, SweepSelect, SweepDelete, SweepStop
    <2>6. pc[w] # "idle" /\ batch_now'[w] = batch_now[w]
      BY <2>2, <2>3, <2>4, <2>5
    <2> QED
      BY <1>3, <2>1, <2>6
  <1>5. CASE UNCHANGED vars
    BY <1>3, <1>5 DEF vars
  <1> QED
    BY <1>1, <1>2, <1>4, <1>5 DEF TimelyNext

\* A job is held by one worker.
LEMMA OneHolder ==
  ASSUME OneOwner, ClaimsHeld, NEW d \in Deliveries, NEW w \in Workers, NEW v \in Workers,
         claims[w][d] # Null, claims[v][d] # Null
  PROVE  w = v
  BY DEF OneOwner, ClaimsHeld

\* Nothing that is held is due at the instant of any batch.
LEMMA HeldNotDue ==
  ASSUME Deadline < Lease, TypeOK, IdleHoldsNothing, OnTime, ClaimsHeld,
         NEW w \in Workers, NEW v \in Workers, NEW d \in Deliveries,
         claims[w][d] # Null, pc[v] # "idle"
  PROVE  ~due_condition(d, batch_now[v])
  <1>1. /\ delivery[d].state = "processing"
        /\ delivery[d].claim_expires_at = batch_now[w] + Lease
    BY DEF ClaimsHeld
  <1>2. /\ clock \in Nat /\ batch_now[w] \in Nat /\ batch_now[v] \in Nat
    BY DEF TypeOK
  <1>3. pc[w] # "idle"
    BY DEF IdleHoldsNothing
  <1>4. batch_now[v] <= clock /\ clock <= batch_now[w] + Deadline
    BY <1>3 DEF OnTime
  <1>5. ~(batch_now[w] + Lease <= batch_now[v])
    BY <1>2, <1>4
  <1> QED
    BY <1>1, <1>5 DEF due_condition

\* No step takes a held job away from its worker.
LEMMA ClaimsHeldStep ==
  ASSUME Deadline < Lease, QueueInv, OnTime, ClaimsHeld, [TimelyNext]_vars
  PROVE  ClaimsHeld'
  <1> SUFFICES ASSUME NEW w \in Workers, NEW d \in Deliveries, claims'[w][d] # Null
               PROVE  /\ delivery'[d].state = "processing"
                      /\ delivery'[d].claim_token = claims'[w][d]
                      /\ delivery'[d].claim_expires_at = batch_now'[w] + Lease
    BY DEF ClaimsHeld
  <1> USE DEF rows, workerVars, ghosts
  <1>0. TypeOK /\ OneOwner /\ IdleHoldsNothing /\ delivery[d] \in WebhookDelivery
    BY DEF QueueInv, TypeOK
  <1>1. CASE /\ delivery'[d] = delivery[d] /\ claims'[w][d] = claims[w][d]
             /\ batch_now'[w] = batch_now[w]
    BY <1>1 DEF ClaimsHeld
  <1>2. ASSUME NEW e \in Deliveries, add_submission(e) \/ requeue_failed_delivery(e)
        PROVE  /\ delivery'[d] = delivery[d] /\ claims'[w][d] = claims[w][d]
               /\ batch_now'[w] = batch_now[w]
    <2>1. claims' = claims /\ batch_now' = batch_now
      BY <1>2 DEF add_submission, requeue_failed_delivery
    <2>2. delivery[d].state = "processing"
      BY <2>1 DEF ClaimsHeld
    <2>3. e # d
      BY <1>2, <2>2 DEF add_submission, requeue_failed_delivery, Replayable
    <2> QED
      BY <1>0, <1>2, <2>1, <2>3 DEF add_submission, requeue_failed_delivery, TypeOK
  <1>3. ASSUME NEW v \in Workers, Poll(v)
        PROVE  /\ delivery'[d] = delivery[d] /\ claims'[w][d] = claims[w][d]
               /\ batch_now'[w] = batch_now[w]
    <2>1. claims' = claims /\ delivery' = delivery
      BY <1>3 DEF Poll
    <2>2. w # v
      BY <1>0, <1>3, <2>1 DEF Poll, IdleHoldsNothing
    <2> QED
      BY <1>0, <1>3, <2>1, <2>2 DEF Poll, TypeOK
  <1>4. ASSUME NEW v \in Workers, claim_due_deliveries(v)
        PROVE  /\ delivery'[d].state = "processing"
               /\ delivery'[d].claim_token = claims'[w][d]
               /\ delivery'[d].claim_expires_at = batch_now'[w] + Lease
    <2>1. PICK taken \in SUBSET {e \in Deliveries : due_condition(e, batch_now[v])} :
            /\ delivery' = [e \in Deliveries |->
                              IF e \in taken THEN Claimed(e, batch_now[v]) ELSE delivery[e]]
            /\ claims' = [claims EXCEPT ![v] =
                 [e \in Deliveries |-> IF e \in taken THEN new_claim_token(e) ELSE Null]]
      BY <1>4 DEF claim_due_deliveries
    <2>2. batch_now' = batch_now /\ pc[v] # "idle"
      BY <1>4 DEF claim_due_deliveries
    <2>3. CASE w = v
      <3>1. d \in taken /\ claims'[w][d] = new_claim_token(d)
        BY <1>0, <2>1, <2>3 DEF TypeOK
      <3>2. delivery'[d] = Claimed(d, batch_now[w])
        BY <2>1, <2>3, <3>1
      <3> QED
        BY <1>0, <2>2, <3>1, <3>2 DEF Claimed, WebhookDelivery
    <2>4. CASE w # v
      <3>1. claims'[w][d] = claims[w][d]
        BY <1>0, <2>1, <2>4 DEF TypeOK
      <3>2. ~due_condition(d, batch_now[v])
        BY <1>0, <2>2, <3>1, HeldNotDue
      <3>3. delivery'[d] = delivery[d]
        BY <2>1, <3>2
      <3> QED
        BY <1>1, <2>2, <3>1, <3>3
    <2> QED
      BY <2>3, <2>4
  <1>5. ASSUME NEW v \in Workers, Rest(v), delivery' = delivery
        PROVE  /\ delivery'[d] = delivery[d] /\ claims'[w][d] = claims[w][d]
               /\ batch_now'[w] = batch_now[w]
    BY <1>0, <1>5 DEF Rest, NoClaims, TypeOK
  <1>6. ASSUME NEW v \in Workers, NEW e \in Deliveries, Drop(v, e), e \in Jobs(v),
               delivery' = [delivery EXCEPT ![e] = delivery'[e]]
        PROVE  /\ delivery'[d] = delivery[d] /\ claims'[w][d] = claims[w][d]
               /\ batch_now'[w] = batch_now[w]
    <2>1. /\ claims' = [claims EXCEPT ![v][e] = Null]
          /\ batch_now' = [batch_now EXCEPT ![v] = IF Jobs(v) = {e} THEN 0 ELSE @]
      BY <1>6 DEF Drop
    <2>2. claims'[w][d] = claims[w][d] /\ ~(w = v /\ d = e)
      BY <1>0, <2>1 DEF TypeOK
    <2>3. claims[v][e] # Null
      BY <1>6 DEF Jobs
    <2>4. d # e
      BY <1>0, <2>2, <2>3, OneHolder
    <2>5. delivery'[d] = delivery[d]
      BY <1>0, <1>6, <2>4 DEF TypeOK
    <2>6. w = v => d \in Jobs(v)
      BY <2>2 DEF Jobs
    <2>7. batch_now'[w] = batch_now[w]
      BY <1>0, <2>1, <2>4, <2>6 DEF TypeOK
    <2> QED
      BY <2>2, <2>5, <2>7
  <1>7. ASSUME NEW v \in Workers, NEW e \in Deliveries, NEW result \in DeliveryResult,
               complete_attempt(v, e, result)
        PROVE  Drop(v, e) /\ e \in Jobs(v) /\ delivery' = [delivery EXCEPT ![e] = delivery'[e]]
    BY <1>0, <1>7 DEF complete_attempt, TypeOK
  <1>8. ASSUME NEW v \in Workers, NEW e \in Deliveries,
               CompletionRefused(v, e) \/ CompletionFails(v, e)
        PROVE  Drop(v, e) /\ e \in Jobs(v) /\ delivery' = [delivery EXCEPT ![e] = delivery'[e]]
    BY <1>0, <1>8 DEF CompletionRefused, CompletionFails, Unrecorded, TypeOK
  <1>9. ASSUME NEW v \in Workers, NothingDue(v) \/ LoadFails(v) \/ Crash(v)
        PROVE  Rest(v) /\ delivery' = delivery
    BY <1>9 DEF NothingDue, LoadFails, Crash
  <1>10. CASE \/ TimelyTick \/ Sweep \/ UNCHANGED vars
              \/ \E v \in Workers : load_submissions(v) \/ \E e \in Deliveries : Refresh(v, e)
    <2>1. delivery' = delivery /\ claims' = claims /\ batch_now' = batch_now
      BY <1>10 DEF TimelyTick, Tick, Sweep, SweepStart, SweepSelect, SweepDelete, SweepStop, vars,
                   load_submissions, Refresh
    <2> QED
      BY <1>1, <2>1
  <1> QED
    BY <1>1, <1>2, <1>3, <1>4, <1>5, <1>6, <1>7, <1>8, <1>9, <1>10
       DEF TimelyNext, Activity, WorkerStep, Fault

\* The job of a worker on time has its submission, so nothing is lost or refused.
LEMMA HeldStored ==
  ASSUME QueueInv, ClaimsHeld, NEW w \in Workers
  PROVE  Jobs(w) \subseteq stored
  BY DEF QueueInv, UnlinkedOnlyDelivered, ClaimsHeld, Jobs

\* At most one request for a delivery is out.
LEMMA FlightsSingle ==
  ASSUME QueueInv, ClaimsHeld, NEW d \in Deliveries
  PROVE  /\ InFlight(d) = {} \/ \E w \in Workers : InFlight(d) = {w}
         /\ Cardinality(InFlight(d)) \in {0, 1}
  <1>1. ASSUME NEW w \in InFlight(d), NEW v \in InFlight(d) PROVE w = v
    BY <1>1, OneHolder DEF InFlight, QueueInv
  <1>2. InFlight(d) = {} \/ \E w \in Workers : InFlight(d) = {w}
    BY <1>1 DEF InFlight
  <1>3. CASE InFlight(d) = {}
    BY <1>3, FS_EmptySet
  <1>4. ASSUME NEW w \in Workers, InFlight(d) = {w} PROVE Cardinality(InFlight(d)) = 1
    BY <1>4, FS_Singleton
  <1> QED
    BY <1>2, <1>3, <1>4

\* Loading the batch sends a request for each of its jobs, recording one takes it out of
\* flight, and where nothing fails no other step does either.
LEMMA AttemptsCountedStep ==
  ASSUME QueueInv, ClaimsHeld, AttemptsCounted, [TimelyNext]_vars
  PROVE  AttemptsCounted'
  <1> SUFFICES ASSUME faults' = 0, NEW d \in Deliveries
               PROVE  tried'[d] = delivery'[d].attempts + Cardinality(InFlight(d)')
    BY DEF AttemptsCounted
  <1> USE DEF rows, workerVars, ghosts
  <1>0. /\ TypeOK /\ delivery[d] \in WebhookDelivery /\ tried[d] \in Nat
        /\ delivery[d].attempts \in Nat /\ faults \in Nat
    BY DEF QueueInv, TypeOK, WebhookDelivery
  <1>1. ~Fault
    BY <1>0 DEF Fault, Crash, CompletionFails
  <1>2. faults = 0
    BY <1>1 DEF TimelyNext, TimelyTick, Tick, Activity, add_submission, requeue_failed_delivery,
           WorkerStep, Poll, claim_due_deliveries, NothingDue, load_submissions, LoadFails,
           complete_attempt, CompletionRefused, Refresh, Sweep, SweepStart, SweepSelect,
           SweepDelete, SweepStop, vars
  <1>3. tried[d] = delivery[d].attempts + Cardinality(InFlight(d))
    BY <1>2 DEF AttemptsCounted
  <1>4. CASE /\ tried'[d] = tried[d] /\ delivery'[d].attempts = delivery[d].attempts
             /\ \A w \in Workers : pc'[w] = "sending" /\ claims'[w][d] # Null
                                   <=> pc[w] = "sending" /\ claims[w][d] # Null
    <2>1. InFlight(d)' = InFlight(d)
      BY <1>4 DEF InFlight
    <2> QED
      BY <1>3, <1>4, <2>1
  <1>5. ASSUME NEW v \in Workers, load_submissions(v)
        PROVE  tried'[d] = delivery'[d].attempts + Cardinality(InFlight(d)')
    <2>1. /\ delivery' = delivery /\ claims' = claims /\ pc[v] = "claimed"
          /\ pc' = [pc EXCEPT ![v] = "sending"]
          /\ tried'[d] = IF claims[v][d] # Null THEN tried[d] + 1 ELSE tried[d]
      BY <1>5 DEF load_submissions, Jobs
    <2>2. CASE claims[v][d] = Null
      <3>1. \A w \in Workers : pc'[w] = "sending" /\ claims'[w][d] # Null
                               <=> pc[w] = "sending" /\ claims[w][d] # Null
        BY <1>0, <2>1, <2>2 DEF TypeOK
      <3> QED
        BY <1>4, <2>1, <2>2, <3>1
    <2>3. CASE claims[v][d] # Null
      <3>1. \A w \in Workers : claims[w][d] # Null => w = v
        BY <2>3, OneHolder DEF QueueInv
      <3>2. InFlight(d) = {} /\ InFlight(d)' = {v}
        BY <1>0, <2>1, <2>3, <3>1 DEF InFlight, TypeOK
      <3>3. Cardinality(InFlight(d)) = 0 /\ Cardinality(InFlight(d)') = 1
        BY <3>2, FS_EmptySet, FS_Singleton
      <3> QED
        BY <1>0, <1>3, <2>1, <2>3, <3>3
    <2> QED
      BY <2>2, <2>3
  <1>6. ASSUME NEW v \in Workers, NEW e \in Deliveries, NEW result \in DeliveryResult,
               complete_attempt(v, e, result)
        PROVE  tried'[d] = delivery'[d].attempts + Cardinality(InFlight(d)')
    <2>1. /\ tried' = tried /\ pc[v] = "sending" /\ claims[v][e] # Null
          /\ pc' = [pc EXCEPT ![v] = IF Jobs(v) = {e} THEN "idle" ELSE @]
          /\ claims' = [claims EXCEPT ![v][e] = Null]
          /\ delivery' = [delivery EXCEPT ![e] =
                            CompletedRow(e, claims[v][e], result, batch_now[v])]
      BY <1>6 DEF complete_attempt, Drop, Jobs
    <2>2. CASE e = d
      <3>1. delivery'[d].attempts = delivery[d].attempts + 1
        <4>1. delivery'[d] = CompletedRow(d, claims[v][d], result, batch_now[v])
          BY <1>0, <2>1, <2>2 DEF TypeOK
        <4> QED
          BY <1>0, <4>1 DEF CompletedRow, WebhookDelivery
      <3>2. \A w \in Workers : claims[w][d] # Null => w = v
        BY <2>1, <2>2, OneHolder DEF QueueInv
      <3>3. InFlight(d) = {v}
        BY <2>1, <2>2, <3>2 DEF InFlight
      <3>4. InFlight(d)' = {}
        BY <1>0, <2>1, <2>2, <3>2 DEF InFlight, TypeOK
      <3>5. Cardinality(InFlight(d)) = 1 /\ Cardinality(InFlight(d)') = 0
        BY <3>3, <3>4, FS_EmptySet, FS_Singleton
      <3> QED
        BY <1>0, <1>3, <2>1, <3>1, <3>5
    <2>3. CASE e # d
      <3>1. delivery'[d] = delivery[d] /\ tried'[d] = tried[d]
        BY <1>0, <2>1, <2>3 DEF TypeOK
      <3>2. claims[v][d] # Null => Jobs(v) # {e}
        BY <2>3 DEF Jobs
      <3>3. \A w \in Workers : claims'[w][d] = claims[w][d]
        BY <1>0, <2>1, <2>3 DEF TypeOK
      <3>4. \A w \in Workers : pc'[w] = pc[w] \/ (w = v /\ claims[v][d] = Null)
        BY <1>0, <2>1, <3>2 DEF TypeOK
      <3> QED
        BY <1>4, <3>1, <3>3, <3>4
    <2> QED
      BY <2>2, <2>3
  <1>7. ASSUME NEW v \in Workers, NEW e \in Deliveries, CompletionRefused(v, e) PROVE FALSE
    BY <1>7, HeldStored DEF CompletionRefused, Unrecorded, ForeignKeyHolds
  <1>8. ASSUME NEW v \in Workers, claim_due_deliveries(v)
        PROVE  /\ tried'[d] = tried[d] /\ delivery'[d].attempts = delivery[d].attempts
               /\ \A w \in Workers : pc'[w] = "sending" /\ claims'[w][d] # Null
                                     <=> pc[w] = "sending" /\ claims[w][d] # Null
    <2>1. \/ delivery'[d] = delivery[d]
          \/ delivery'[d] = Claimed(d, batch_now[v])
      BY <1>8 DEF claim_due_deliveries
    <2>2. delivery'[d].attempts = delivery[d].attempts
      BY <1>0, <2>1 DEF Claimed, WebhookDelivery
    <2>3. \A w \in Workers \ {v} : pc'[w] = pc[w] /\ claims'[w] = claims[w]
      BY <1>0, <1>8 DEF claim_due_deliveries, TypeOK
    <2>4. pc[v] = "polled" /\ pc'[v] = "claimed" /\ tried' = tried
      BY <1>0, <1>8 DEF claim_due_deliveries, TypeOK
    <2> QED
      BY <2>2, <2>3, <2>4
  <1>9. ASSUME NEW v \in Workers, Poll(v) \/ NothingDue(v) \/ LoadFails(v)
        PROVE  /\ tried'[d] = tried[d] /\ delivery'[d].attempts = delivery[d].attempts
               /\ \A w \in Workers : pc'[w] = "sending" /\ claims'[w][d] # Null
                                     <=> pc[w] = "sending" /\ claims[w][d] # Null
    <2>1. tried' = tried /\ delivery' = delivery /\ pc[v] # "sending"
      BY <1>9 DEF Poll, NothingDue, LoadFails
    <2>2. pc'[v] # "sending" /\ \A w \in Workers \ {v} : pc'[w] = pc[w] /\ claims'[w] = claims[w]
      BY <1>0, <1>9 DEF Poll, NothingDue, LoadFails, Rest, TypeOK
    <2> QED
      BY <2>1, <2>2
  <1>10. ASSUME NEW e \in Deliveries, add_submission(e) \/ requeue_failed_delivery(e)
         PROVE  tried' = tried /\ delivery'[d].attempts = delivery[d].attempts
                /\ pc' = pc /\ claims' = claims
    <2>1. /\ AcceptedRow(d).attempts = delivery[d].attempts
          /\ RequeuedRow(d).attempts = delivery[d].attempts
      BY <1>0 DEF AcceptedRow, RequeuedRow, WebhookDelivery
    <2>2. delivery'[d] \in {delivery[d], AcceptedRow(d), RequeuedRow(d)}
      BY <1>0, <1>10 DEF add_submission, requeue_failed_delivery, TypeOK
    <2> QED
      BY <1>10, <2>1, <2>2 DEF add_submission, requeue_failed_delivery
  <1>11. CASE \/ TimelyTick \/ Sweep \/ UNCHANGED vars
              \/ \E v \in Workers, e \in Deliveries : Refresh(v, e)
    <2>1. delivery' = delivery /\ claims' = claims /\ pc' = pc /\ tried' = tried
      BY <1>11 DEF TimelyTick, Tick, Sweep, SweepStart, SweepSelect, SweepDelete, SweepStop, vars,
                   Refresh
    <2> QED
      BY <1>4, <2>1
  <1> QED
    BY <1>1, <1>4, <1>5, <1>6, <1>7, <1>8, <1>9, <1>10, <1>11 DEF TimelyNext, Activity, WorkerStep

\* Workers that are on time never lose a claim, with any lease longer than a batch takes.
THEOREM TimelyInvariant ==
  ASSUME Deadline < Lease
  PROVE  TimelySpec => [](QueueInv /\ OnTime /\ ClaimsHeld /\ AttemptsCounted)
  <1>1. Init => OnTime /\ ClaimsHeld /\ AttemptsCounted
    <2> SUFFICES ASSUME Init PROVE OnTime /\ ClaimsHeld /\ AttemptsCounted
      OBVIOUS
    <2>1. OnTime /\ ClaimsHeld
      BY DEF Init, OnTime, ClaimsHeld, NoClaims
    <2>2. \A d \in Deliveries : tried[d] = 0 /\ delivery[d].attempts = 0 /\ InFlight(d) = {}
      BY DEF Init, Absent, InFlight
    <2>3. AttemptsCounted
      BY <2>2, FS_EmptySet DEF AttemptsCounted
    <2> QED
      BY <2>1, <2>3
  <1>2. QueueInv /\ OnTime /\ ClaimsHeld /\ AttemptsCounted /\ [TimelyNext]_vars
          => OnTime' /\ ClaimsHeld' /\ AttemptsCounted'
    BY OnTimeStep, ClaimsHeldStep, AttemptsCountedStep DEF QueueInv
  <1>3. TimelySpec => Spec
    BY TimelyIsNext, PTL DEF TimelySpec, Spec
  <1> QED
    BY <1>1, <1>2, <1>3, QueueInvariant, PTL DEF TimelySpec

\* With a lease longer than a batch takes, a delivery is never in flight twice.
THEOREM SentByOne ==
  ASSUME Deadline < Lease
  PROVE  TimelySpec => []NoDoubleSend
  <1>1. ASSUME QueueInv, ClaimsHeld PROVE NoDoubleSend
    <2> SUFFICES ASSUME NEW d \in Deliveries PROVE Cardinality(WorkersAt("sending", d)) <= 1
      BY DEF NoDoubleSend
    <2>1. WorkersAt("sending", d) = InFlight(d)
      BY DEF WorkersAt, InFlight, Jobs
    <2>2. Cardinality(InFlight(d)) \in {0, 1}
      BY <1>1, FlightsSingle
    <2> QED
      BY <2>1, <2>2
  <1> QED
    BY <1>1, TimelyInvariant, PTL

\* With workers on time and nothing failing, every request made is recorded, or still in
\* flight.
THEOREM RequestsRecorded ==
  ASSUME Deadline < Lease
  PROVE  TimelySpec => []EveryRequestRecorded
  <1>1. ASSUME QueueInv, ClaimsHeld, AttemptsCounted PROVE EveryRequestRecorded
    <2> SUFFICES ASSUME faults = 0, NEW d \in Deliveries
                 PROVE  Sent(d) <= delivery[d].attempts + Cardinality(WorkersAt("sending", d))
      BY DEF EveryRequestRecorded
    <2>1. WorkersAt("sending", d) = InFlight(d) /\ Cardinality(InFlight(d)) \in Nat
      BY <1>1, FlightsSingle DEF WorkersAt, InFlight, Jobs
    <2>2. /\ tried[d] = delivery[d].attempts + Cardinality(InFlight(d))
          /\ delivery[d].attempts \in Nat
      BY <1>1 DEF AttemptsCounted, QueueInv, TypeOK, WebhookDelivery
    <2>3. Sent(d) \in {0, tried[d]}
      BY DEF Sent
    <2> QED
      BY <2>1, <2>2, <2>3
  <1> QED
    BY <1>1, TimelyInvariant, PTL

\* With workers on time, no batch is abandoned for a submission that is gone.
THEOREM BatchesLoad ==
  ASSUME Deadline < Lease
  PROVE  TimelySpec => []LoadedBatchComplete
  <1>1. QueueInv /\ ClaimsHeld => LoadedBatchComplete
    BY HeldStored DEF LoadedBatchComplete
  <1> QED
    BY <1>1, TimelyInvariant, PTL

-----------------------------------------------------------------------------
(***************************************************************************)
(* The queue implements the outbox.                                        *)
(***************************************************************************)

\* A step that leaves every row's debt, count and submission alone is a stutter of
\* the outbox.
LEMMA OutboxStutter ==
  ASSUME \A d \in Deliveries : /\ OwedStatus'[d] = OwedStatus[d]
                               /\ delivery'[d].attempts = delivery[d].attempts,
         stored' = stored
  PROVE  UNCHANGED Promise!vars
  <1>1. OwedStatus' = OwedStatus
    BY DEF OwedStatus
  <1>2. [d \in Deliveries |-> delivery[d].attempts]' = [d \in Deliveries |-> delivery[d].attempts]
    OBVIOUS
  <1> QED
    BY <1>1, <1>2 DEF Promise!vars

\* Acceptance, replay and every completion are steps of the outbox.
LEMMA OutboxRowStep ==
  ASSUME QueueInv, [Next]_vars, NEW d \in Deliveries,
         delivery' = [delivery EXCEPT ![d] = delivery'[d]],
         \/ add_submission(d)
         \/ requeue_failed_delivery(d)
         \/ \E w \in Workers, result \in DeliveryResult : complete_attempt(w, d, result)
  PROVE  Promise!Next
  <1> USE DEF rows
  <1>1. TypeOK /\ delivery[d] \in WebhookDelivery
    BY DEF QueueInv, TypeOK
  <1> DEFINE recorded == [e \in Deliveries |-> delivery[e].attempts]
  <1>2. OwedStatus' = [OwedStatus EXCEPT ![d] = OwedStatus'[d]]
    BY <1>1 DEF OwedStatus, TypeOK
  <1>3. recorded' = [recorded EXCEPT ![d] = delivery'[d].attempts]
    BY <1>1 DEF TypeOK
  <1>4. /\ OwedStatus[d] = IF delivery[d].state \in {"pending", "processing"}
                           THEN "owed" ELSE delivery[d].state
        /\ OwedStatus'[d] = IF delivery'[d].state \in {"pending", "processing"}
                            THEN "owed" ELSE delivery'[d].state
    BY DEF OwedStatus
  <1>5. CASE add_submission(d)
    <2>1. delivery'[d].state = "pending" /\ delivery'[d].attempts = delivery[d].attempts
      BY <1>1, <1>5 DEF add_submission, AcceptedRow, TypeOK, WebhookDelivery
    <2>2. delivery[d].state = "absent" /\ stored' = stored \cup {d}
      BY <1>5 DEF add_submission
    <2>3. recorded' = recorded
      BY <1>3, <2>1
    <2>4. Promise!Accept(d)
      BY <1>2, <1>4, <2>1, <2>2, <2>3 DEF Promise!Accept
    <2> QED
      BY <2>4 DEF Promise!Next
  <1>6. CASE requeue_failed_delivery(d)
    <2>1. delivery'[d].state = "pending" /\ delivery'[d].attempts = delivery[d].attempts
      BY <1>1, <1>6 DEF requeue_failed_delivery, RequeuedRow, TypeOK, WebhookDelivery
    <2>2. delivery[d].state = "failed" /\ d \in stored /\ stored' = stored
      BY <1>6 DEF requeue_failed_delivery, Replayable
    <2>3. recorded' = recorded
      BY <1>3, <2>1
    <2>4. Promise!Replay(d)
      BY <1>2, <1>4, <2>1, <2>2, <2>3 DEF Promise!Replay
    <2> QED
      BY <2>4 DEF Promise!Next
  <1>7. ASSUME NEW w \in Workers, NEW result \in DeliveryResult, complete_attempt(w, d, result)
        PROVE  Promise!Next
    <2>1. /\ delivery'[d] = CompletedRow(d, claims[w][d], result, batch_now[w])
          /\ stored' = stored
          /\ claims[w][d] # Null
      BY <1>1, <1>7 DEF complete_attempt, TypeOK, Jobs
    <2>2. delivery'[d].attempts = delivery[d].attempts + 1
      BY <1>1, <2>1 DEF CompletedRow, WebhookDelivery
    <2>3. recorded' = [recorded EXCEPT ![d] = recorded[d] + 1]
      BY <1>3, <2>2
    <2>4. delivery[d].state # "absent"
      BY <2>1 DEF QueueInv, ClaimsAccepted
    <2>5. CASE OwedStatus'[d] = OwedStatus[d]
      <3>1. OwedStatus' = OwedStatus
        BY <1>2, <2>5 DEF OwedStatus
      <3>2. Promise!Record(d)
        BY <1>4, <2>1, <2>3, <2>4, <3>1 DEF Promise!Record
      <3> QED
        BY <3>2 DEF Promise!Next
    <2>6. CASE OwedStatus'[d] # OwedStatus[d]
      <3>1. Owned(d, claims[w][d])
        <4> SUFFICES ASSUME ~Owned(d, claims[w][d]) PROVE FALSE
          OBVIOUS
        <4>1. delivery'[d].state = delivery[d].state
          BY <1>1, <2>1 DEF CompletedRow, WebhookDelivery
        <4> QED
          BY <1>4, <2>6, <4>1
      <3>2. delivery[d].state = "processing"
        BY <2>1, <3>1 DEF Owned, QueueInv, RowConsistent
      <3>3. d \in stored
        BY <3>2 DEF QueueInv, UnlinkedOnlyDelivered
      <3>4. delivery'[d].state \in {"pending", "delivered", "failed"}
        BY <2>1, <3>1, VerdictType DEF CompletedRow
      <3>5. OwedStatus'[d] \in {"delivered", "failed"} /\ OwedStatus[d] = "owed"
        BY <1>4, <2>6, <3>2, <3>4
      <3>6. Promise!Settle(d)
        BY <1>2, <2>1, <2>3, <3>3, <3>5 DEF Promise!Settle
      <3> QED
        BY <3>6 DEF Promise!Next
    <2> QED
      BY <2>5, <2>6
  <1> QED
    BY <1>5, <1>6, <1>7

\* Every step of the queue is a step of the outbox or a stutter of it.
LEMMA OutboxStep == QueueInv /\ [Next]_vars => [Promise!Next]_(Promise!vars)
  <1> SUFFICES ASSUME QueueInv, [Next]_vars PROVE Promise!Next \/ UNCHANGED Promise!vars
    OBVIOUS
  <1> USE DEF rows
  <1>1. TypeOK
    BY DEF QueueInv
  <1>2. ASSUME NEW d \in Deliveries,
               \/ add_submission(d) \/ requeue_failed_delivery(d)
               \/ \E w \in Workers, result \in DeliveryResult : complete_attempt(w, d, result)
        PROVE  Promise!Next
    <2>1. delivery' = [delivery EXCEPT ![d] = delivery'[d]]
      BY <1>1, <1>2 DEF add_submission, requeue_failed_delivery, complete_attempt, TypeOK
    <2> QED
      BY <1>2, <2>1, OutboxRowStep
  <1>3. ASSUME NEW w \in Workers, claim_due_deliveries(w) PROVE UNCHANGED Promise!vars
    <2>1. ASSUME NEW d \in Deliveries
          PROVE  OwedStatus'[d] = OwedStatus[d] /\ delivery'[d].attempts = delivery[d].attempts
      <3>1. delivery[d] \in WebhookDelivery
        BY <1>1 DEF TypeOK
      <3>2. \/ delivery'[d] = delivery[d]
            \/ due_condition(d, batch_now[w]) /\ delivery'[d] = Claimed(d, batch_now[w])
        BY <1>3 DEF claim_due_deliveries
      <3>3. /\ Claimed(d, batch_now[w]).state = "processing"
            /\ Claimed(d, batch_now[w]).attempts = delivery[d].attempts
        BY <3>1 DEF Claimed, WebhookDelivery
      <3>4. due_condition(d, batch_now[w]) => delivery[d].state \in {"pending", "processing"}
        BY DEF due_condition
      <3> QED
        BY <3>2, <3>3, <3>4 DEF OwedStatus
    <2>2. stored' = stored
      BY <1>3 DEF claim_due_deliveries
    <2> QED
      BY <2>1, <2>2, OutboxStutter
  <1>4. CASE SweepDelete
    <2>1. delivery' = delivery /\ stored' = stored \ sweep.ids
      BY <1>4 DEF SweepDelete
    <2>2. OwedStatus' = OwedStatus
      BY <2>1 DEF OwedStatus
    <2>3. sweep.ids \in SUBSET Deliveries
      BY <1>1 DEF TypeOK, SweepRun
    <2>4. \A d \in sweep.ids : OwedStatus[d] = "delivered"
      BY <2>3 DEF OwedStatus, QueueInv, SelectedDelivered
    <2>5. Promise!Forget(sweep.ids)
      BY <2>1, <2>2, <2>4 DEF Promise!Forget
    <2> QED
      BY <2>3, <2>5 DEF Promise!Next
  <1>5. CASE \/ Tick \/ SweepStart \/ SweepSelect \/ SweepStop \/ UNCHANGED vars \/ Fault
             \/ \E w \in Workers : \/ Poll(w) \/ NothingDue(w) \/ load_submissions(w)
                                   \/ LoadFails(w)
                                   \/ \E d \in Deliveries : \/ CompletionRefused(w, d)
                                                            \/ Refresh(w, d)
    <2>1. delivery' = delivery /\ stored' = stored
      BY <1>5 DEF Tick, SweepStart, SweepSelect, SweepStop, vars, Poll, NothingDue,
                  load_submissions, LoadFails, Fault, Crash, CompletionRefused,
                  CompletionFails, Unrecorded, Refresh
    <2> QED
      BY <2>1, OutboxStutter DEF OwedStatus
  <1> QED
    BY <1>2, <1>3, <1>4, <1>5 DEF Next, Activity, WorkerStep, Sweep

\* Every behaviour of the queue, its workers, replays and sweeps is one the outbox allows.
THEOREM ImplementsOutbox == Spec => KeepsPromise
  <1>1. Init => Promise!Init
    BY DEF Init, Promise!Init, OwedStatus, Absent
  <1> QED
    BY <1>1, OutboxStep, QueueInvariant, PTL DEF Spec, KeepsPromise, Promise!Spec

=============================================================================
