------------------------------ MODULE Delivery ------------------------------
(***************************************************************************)
(* The transactional outbox after its rows are committed: the delivery     *)
(* queue in storage.py, the workers of worker.py that drain it, the manual *)
(* replay of api/deliveries.py and the retention sweep of cli.py, all      *)
(* against one PostgreSQL database.                                        *)
(*                                                                         *)
(* One action is one committed transaction, or one step of a process       *)
(* between two transactions.  A worker's claim is a lease: it may crash,   *)
(* stall past its lease and be superseded, or fail to record a request it  *)
(* made.  Nothing bounds how long any process waits between two of its     *)
(* steps except in TimelySpec, which adds the operator's promise that a    *)
(* batch is finished well within its lease.                                *)
(***************************************************************************)
EXTENDS Webhooks, FiniteSets

CONSTANTS Deliveries,        \* identifiers of submissions and their deliveries
          Workers,           \* worker processes
          Results,           \* the answers destinations give, a subset of DeliveryResult
          Unsendable,        \* deliveries no request can be sent for
          Lease,             \* worker_lease_seconds, in ticks
          Deadline,          \* attempt_deadline_seconds, in ticks (TimelySpec only)
          BatchSize,         \* worker_batch_size
          Retention,         \* submission_retention_days, in ticks
          SweepBatch,        \* retention.DEFAULT_BATCH_SIZE
          MaxBatches,        \* retention.MAX_BATCHES
          MaxClock,          \* bound: the last instant of a behaviour
          MaxReplays,        \* bound: manual replays of one delivery
          MaxFaults          \* bound: crashes and failed writes altogether

ASSUME DeliveryAssumption ==
         /\ Results \subseteq DeliveryResult
         /\ Unsendable \subseteq Deliveries
         /\ Lease \in Nat \ {0}
         /\ Deadline \in Nat
         /\ BatchSize \in Nat \ {0}
         /\ Retention \in Nat \ {0}
         /\ SweepBatch \in Nat \ {0}
         /\ MaxBatches \in Nat
         /\ MaxClock \in Nat
         /\ MaxReplays \in Nat
         /\ MaxFaults \in Nat

VARIABLES
  clock,        \* the instant utcnow() returns
  delivery,     \* the webhook_deliveries table
  stored,       \* the submissions that exist; the delivery of any other is unlinked
  received_at,  \* Submission.received_at
  history,      \* the delivery_attempts table, per delivery
  pc,           \* where each worker is in process_batch
  batch_now,    \* the instant a worker's batch is measured from
  claims,       \* the jobs of a worker's batch and the token each was claimed under
  loaded,       \* what a worker's session holds of each job's submission_id
  sweep,        \* the retention sweep of the cleanup command
  issued,       \* how many tokens have been generated for each delivery
  replays,      \* how many times each delivery has been replayed
  tried,        \* how many attempts have been started for each delivery
  faults        \* crashes and failed writes so far

rows       == <<delivery, stored, received_at, history>>
workerVars == <<pc, batch_now, claims, loaded>>
ghosts     == <<issued, replays, tried, faults>>
vars       == <<clock, rows, workerVars, sweep, ghosts>>

-----------------------------------------------------------------------------
(***************************************************************************)
(* The rows.  Null is SQL's NULL: tokens and leases are never 0.           *)
(***************************************************************************)
Null == 0

DeliveryState   == {"pending", "processing", "delivered", "failed"}
TERMINAL_STATES == {"delivered", "failed"}

\* Mutants: a sweep that takes replayable failures, or what a worker is sending.
FailedUnprotected     == {"pending", "processing"}
ProcessingUnprotected == {"pending", "failed"}
PROTECTED_DELIVERY_STATES == {"pending", "processing", "failed"}

\* A row of webhook_deliveries; "absent" before its submission is accepted.
\* completed stands for completed_at being set.
WebhookDelivery ==
  [state : DeliveryState \cup {"absent"}, next_attempt_at : Nat,
   claim_expires_at : Nat, claim_token : Nat, attempts : Nat,
   cycle_attempts : Nat, completed : BOOLEAN]

\* A row of delivery_attempts.  owned is not a column: it records, for the
\* properties, whether the attempt was completed under a claim that held.
DeliveryAttempt ==
  [attempt_number : Nat, outcome : DeliveryOutcome, final : BOOLEAN, owned : BOOLEAN]

Absent ==
  [state |-> "absent", next_attempt_at |-> 0, claim_expires_at |-> Null,
   claim_token |-> Null, attempts |-> 0, cycle_attempts |-> 0, completed |-> FALSE]

Jobs(w)   == {d \in Deliveries : claims[w][d] # Null}
NoClaims  == [d \in Deliveries |-> Null]
AllLinked == [d \in Deliveries |-> "linked"]
SweepRun  == [pc : {"idle", "select", "delete"}, before : Nat,
              ids : SUBSET Deliveries, batches : Nat]
NoSweep   == [pc |-> "idle", before |-> 0, ids |-> {}, batches |-> 0]

Init ==
  /\ clock = 0
  /\ delivery = [d \in Deliveries |-> Absent]
  /\ stored = {}
  /\ received_at = [d \in Deliveries |-> 0]
  /\ history = [d \in Deliveries |-> {}]
  /\ pc = [w \in Workers |-> "idle"]
  /\ batch_now = [w \in Workers |-> 0]
  /\ claims = [w \in Workers |-> NoClaims]
  /\ loaded = [w \in Workers |-> AllLinked]
  /\ sweep = NoSweep
  /\ issued = [d \in Deliveries |-> 0]
  /\ replays = [d \in Deliveries |-> 0]
  /\ tried = [d \in Deliveries |-> 0]
  /\ faults = 0

Tick ==
  /\ clock < MaxClock
  /\ clock' = clock + 1
  /\ UNCHANGED <<rows, workerVars, sweep, ghosts>>

-----------------------------------------------------------------------------
(***************************************************************************)
(* Acceptance: _add_submission commits the submission and the delivery it  *)
(* owes in one transaction, due at once.                                   *)
(***************************************************************************)
AcceptedRow(d) == [delivery[d] EXCEPT !.state = "pending", !.next_attempt_at = clock]

add_submission(d) ==
  /\ delivery[d].state = "absent"
  /\ delivery' = [delivery EXCEPT ![d] = AcceptedRow(d)]
  /\ stored' = stored \cup {d}
  /\ received_at' = [received_at EXCEPT ![d] = clock]
  /\ UNCHANGED <<clock, history, workerVars, sweep, ghosts>>

-----------------------------------------------------------------------------
(***************************************************************************)
(* The worker.                                                             *)
(***************************************************************************)
\* Mutants: a claim that ignores leases, and one that never recovers a lapsed lease.
DueWhileLeased(d, now) ==
  /\ d \in stored
  /\ \/ delivery[d].state = "pending" /\ delivery[d].next_attempt_at <= now
     \/ delivery[d].state = "processing"
DueOnlyPending(d, now) ==
  d \in stored /\ delivery[d].state = "pending" /\ delivery[d].next_attempt_at <= now

due_condition(d, now) ==
  /\ d \in stored
  /\ \/ delivery[d].state = "pending" /\ delivery[d].next_attempt_at <= now
     \/ delivery[d].state = "processing" /\ delivery[d].claim_expires_at <= now

\* run_worker starts a tick: the batch's single instant is read.
Poll(w) ==
  /\ pc[w] = "idle"
  /\ pc' = [pc EXCEPT ![w] = "polled"]
  /\ batch_now' = [batch_now EXCEPT ![w] = clock]
  /\ UNCHANGED <<clock, rows, claims, loaded, sweep, ghosts>>

\* Mutant: a token that is not fresh.
ConstantToken(d) == 1

\* A token nobody has held for this delivery before.
new_claim_token(d) == issued[d] + 1

\* The row a claim leaves behind.
Claimed(d, now) ==
  [delivery[d] EXCEPT !.state = "processing", !.claim_expires_at = now + Lease,
                      !.claim_token = new_claim_token(d)]

\* claim_due_deliveries.  SKIP LOCKED passes over rows another transaction
\* holds, so any of the due rows may be left for the next poll.
claim_due_deliveries(w) ==
  /\ pc[w] = "polled"
  /\ \E taken \in SUBSET {d \in Deliveries : due_condition(d, batch_now[w])} :
       /\ taken # {}
       /\ Cardinality(taken) <= BatchSize
       /\ delivery' = [d \in Deliveries |->
                         IF d \in taken THEN Claimed(d, batch_now[w]) ELSE delivery[d]]
       /\ issued' = [d \in Deliveries |-> IF d \in taken THEN issued[d] + 1 ELSE issued[d]]
       /\ claims' = [claims EXCEPT ![w] =
                       [d \in Deliveries |-> IF d \in taken THEN new_claim_token(d) ELSE Null]]
  /\ pc' = [pc EXCEPT ![w] = "claimed"]
  /\ UNCHANGED <<clock, stored, received_at, history, batch_now, loaded, sweep,
                 replays, tried, faults>>

\* The worker drops its batch and goes back to polling.
Rest(w) ==
  /\ pc' = [pc EXCEPT ![w] = "idle"]
  /\ batch_now' = [batch_now EXCEPT ![w] = 0]
  /\ claims' = [claims EXCEPT ![w] = NoClaims]
  /\ loaded' = [loaded EXCEPT ![w] = AllLinked]

\* Nothing was due at the batch's instant: process_batch returns 0.
NothingDue(w) ==
  /\ pc[w] = "polled"
  /\ \A d \in Deliveries : ~due_condition(d, batch_now[w])
  /\ Rest(w)
  /\ UNCHANGED <<clock, rows, sweep, ghosts>>

\* load_submissions, and the attempts that start once it has answered.
load_submissions(w) ==
  /\ pc[w] = "claimed"
  /\ Jobs(w) \subseteq stored
  /\ pc' = [pc EXCEPT ![w] = "sending"]
  /\ tried' = [d \in Deliveries |-> IF d \in Jobs(w) THEN tried[d] + 1 ELSE tried[d]]
  /\ UNCHANGED <<clock, rows, batch_now, claims, loaded, sweep, issued, replays, faults>>

\* rows[submission_id] raises KeyError when a submission is gone: run_worker
\* logs the failed batch and every job of it keeps its lease.
LoadFails(w) ==
  /\ pc[w] = "claimed"
  /\ ~(Jobs(w) \subseteq stored)
  /\ Rest(w)
  /\ UNCHANGED <<clock, rows, sweep, ghosts>>

(***************************************************************************)
(* _attempt.  A delivery keeps the destination, secret and payload it was  *)
(* created with, so one that the HTTP client cannot build a request from,  *)
(* or that makes deliver raise, is Unsendable for good: each attempt at it *)
(* ends as a network error before anything is sent.                        *)
(***************************************************************************)
attempt(d) == IF d \in Unsendable THEN {deliver(Unreachable)} ELSE Results

\* How many requests went out for a delivery.
Sent(d) == IF d \in Unsendable THEN 0 ELSE tried[d]

-----------------------------------------------------------------------------
(***************************************************************************)
(* complete_attempt.  The row is read and written under its lock, so the   *)
(* whole of it is one step.  Ownership is the exact claim.                 *)
(***************************************************************************)
\* Mutant: ownership judged by the state instead of the claim.
OwnedIfProcessing(d, token) == token # Null /\ delivery[d].state = "processing"

Owned(d, token) == token # Null /\ delivery[d].claim_token = token

\* Mutants: the outcome stored as the state; the allowance measured on the lifetime total.
VerdictIsOutcome(d, result) ==
  IF is_retryable(result) /\ ~is_exhausted(delivery[d].cycle_attempts + 1)
  THEN "pending" ELSE result.outcome
VerdictByLifetime(d, result) ==
  IF result.outcome = "succeeded" THEN "delivered"
  ELSE IF is_retryable(result) /\ ~is_exhausted(delivery[d].attempts + 1)
       THEN "pending" ELSE "failed"

\* The state an owned attempt leaves the delivery in.
Verdict(d, result) ==
  IF result.outcome = "succeeded" THEN "delivered"
  ELSE IF is_retryable(result) /\ ~is_exhausted(delivery[d].cycle_attempts + 1)
       THEN "pending" ELSE "failed"

\* Mutants: the last writer wins, whoever owns the claim; only failures are counted.
LastWriterWins(d, token, result, now) ==
  [delivery[d] EXCEPT !.state = Verdict(d, result), !.claim_expires_at = Null,
                      !.claim_token = Null, !.attempts = @ + 1, !.cycle_attempts = @ + 1,
                      !.completed = Verdict(d, result) \in TERMINAL_STATES]
SuccessUncounted(d, token, result, now) ==
  [delivery[d] EXCEPT !.state = Verdict(d, result), !.claim_expires_at = Null,
                      !.claim_token = Null, !.cycle_attempts = @ + 1,
                      !.completed = Verdict(d, result) \in TERMINAL_STATES,
                      !.attempts = IF result.outcome = "succeeded" THEN @ ELSE @ + 1]

\* The columns a completion writes.  A superseded worker writes attempts only.
CompletedRow(d, token, result, now) ==
  LET row     == delivery[d]
      verdict == Verdict(d, result)
  IN  IF Owned(d, token)
      THEN [state            |-> verdict,
            next_attempt_at  |-> IF verdict = "pending"
                                 THEN now + delay_after(row.cycle_attempts + 1)
                                 ELSE row.next_attempt_at,
            claim_expires_at |-> Null,
            claim_token      |-> Null,
            attempts         |-> row.attempts + 1,
            cycle_attempts   |-> row.cycle_attempts + 1,
            completed        |-> verdict \in TERMINAL_STATES]
      ELSE [row EXCEPT !.attempts = row.attempts + 1]

\* Mutant: attempts numbered within their cycle.
AttemptRowOfCycle(d, token, result) ==
  [attempt_number |-> delivery[d].cycle_attempts + 1, outcome |-> result.outcome,
   final |-> result.outcome # "succeeded" /\ ~is_retryable(result),
   owned |-> Owned(d, token)]

\* The audit row, numbered from the lifetime total.
AttemptRow(d, token, result) ==
  [attempt_number |-> delivery[d].attempts + 1, outcome |-> result.outcome,
   final |-> result.outcome # "succeeded" /\ ~is_retryable(result),
   owned |-> Owned(d, token)]

\* Mutant: a job stays in its batch and is dealt with again.
KeepsJob(w, d) == UNCHANGED <<pc, batch_now, claims>>

\* The job leaves the batch; the worker rests after the last one.
Drop(w, d) ==
  LET last == Jobs(w) = {d}
  IN  /\ pc' = [pc EXCEPT ![w] = IF last THEN "idle" ELSE @]
      /\ batch_now' = [batch_now EXCEPT ![w] = IF last THEN 0 ELSE @]
      /\ claims' = [claims EXCEPT ![w][d] = Null]

\* The insert names the submission the session loaded with the job, and the
\* foreign key refuses one that has been deleted since.
ForeignKeyHolds(w, d) == loaded[w][d] = "linked" => d \in stored

complete_attempt(w, d, result) ==
  /\ pc[w] = "sending"
  /\ d \in Jobs(w)
  /\ loaded[w][d] # "expired"
  /\ ForeignKeyHolds(w, d)
  /\ delivery' = [delivery EXCEPT ![d] =
                    CompletedRow(d, claims[w][d], result, batch_now[w])]
  /\ history' = [history EXCEPT ![d] = @ \cup {AttemptRow(d, claims[w][d], result)}]
  /\ Drop(w, d)
  /\ loaded' = [loaded EXCEPT ![w] = IF Jobs(w) = {d} THEN AllLinked
                                     ELSE [@ EXCEPT ![d] = "linked"]]
  /\ UNCHANGED <<clock, stored, received_at, sweep, ghosts>>

\* The write failed: process_batch rolls back, which expires every object of
\* the session, logs the failure and goes on with the next job.
Unrecorded(w, d) ==
  /\ pc[w] = "sending"
  /\ d \in Jobs(w)
  /\ loaded[w][d] # "expired"
  /\ Drop(w, d)
  /\ loaded' = [loaded EXCEPT ![w] =
                  [e \in Deliveries |-> IF e \in Jobs(w) \ {d} THEN "expired" ELSE "linked"]]
  /\ UNCHANGED <<clock, rows, sweep, issued, replays, tried>>

\* The foreign key refused the attempt.
CompletionRefused(w, d) ==
  /\ ~ForeignKeyHolds(w, d)
  /\ Unrecorded(w, d)
  /\ UNCHANGED faults

\* The database failed the transaction for a reason of its own.
CompletionFails(w, d) ==
  /\ faults < MaxFaults
  /\ Unrecorded(w, d)
  /\ faults' = faults + 1

\* The first attribute read after a rollback loads the row again.
Refresh(w, d) ==
  /\ pc[w] = "sending"
  /\ d \in Jobs(w)
  /\ loaded[w][d] = "expired"
  /\ loaded' = [loaded EXCEPT ![w][d] = IF d \in stored THEN "linked" ELSE "unlinked"]
  /\ UNCHANGED <<clock, rows, pc, batch_now, claims, sweep, ghosts>>

\* The worker process dies; whatever it claimed keeps its lease.
Crash(w) ==
  /\ pc[w] # "idle"
  /\ faults < MaxFaults
  /\ faults' = faults + 1
  /\ Rest(w)
  /\ UNCHANGED <<clock, rows, sweep, issued, replays, tried>>

-----------------------------------------------------------------------------
(***************************************************************************)
(* requeue_failed_delivery: one conditional update.                        *)
(***************************************************************************)
\* Mutant: a replay that keeps the completion time.
RequeuedStillCompleted(d) ==
  [delivery[d] EXCEPT !.state = "pending", !.cycle_attempts = 0, !.next_attempt_at = clock]

\* The row a replay leaves behind: only the queueing state is reset.
RequeuedRow(d) ==
  [delivery[d] EXCEPT !.state = "pending", !.cycle_attempts = 0, !.next_attempt_at = clock,
                      !.claim_expires_at = Null, !.claim_token = Null, !.completed = FALSE]

\* Mutant: any finished delivery may be replayed.
ReplayableIfFinished(d) == delivery[d].state \in TERMINAL_STATES /\ d \in stored

\* The WHERE clause of the update.
Replayable(d) == delivery[d].state = "failed" /\ d \in stored

requeue_failed_delivery(d) ==
  /\ Replayable(d)
  /\ replays[d] < MaxReplays
  /\ delivery' = [delivery EXCEPT ![d] = RequeuedRow(d)]
  /\ replays' = [replays EXCEPT ![d] = @ + 1]
  /\ UNCHANGED <<clock, stored, received_at, history, workerVars, sweep, issued, tried, faults>>

-----------------------------------------------------------------------------
(***************************************************************************)
(* The retention sweep.  Eligible identifiers are read in one statement    *)
(* and deleted by identifier in another, without looking again.            *)
(***************************************************************************)
\* Mutant: age alone makes a submission eligible.
ExpiredByAge(d, before) == d \in stored /\ received_at[d] < before

expired_condition(d, before) ==
  /\ d \in stored
  /\ received_at[d] < before
  /\ delivery[d].state \notin PROTECTED_DELIVERY_STATES

\* RetentionPolicy.cutoff; the cleanup command stops before it when no age is set.
cutoff(now) == now - Retention

\* cli cleanup: the cutoff is computed once for the whole run.
SweepStart ==
  /\ sweep.pc = "idle"
  /\ Retention <= clock
  /\ sweep' = [pc |-> "select", before |-> cutoff(clock), ids |-> {}, batches |-> 0]
  /\ UNCHANGED <<clock, rows, workerVars, ghosts>>

SweepSelect ==
  /\ sweep.pc = "select"
  /\ sweep.batches < MaxBatches
  /\ LET eligible == {d \in Deliveries : expired_condition(d, sweep.before)} IN
     \E ids \in SUBSET eligible :
       /\ ids # {}
       /\ \/ Cardinality(ids) = SweepBatch
          \/ Cardinality(ids) < SweepBatch /\ ids = eligible
       /\ sweep' = [pc |-> "delete", before |-> sweep.before, ids |-> ids,
                     batches |-> sweep.batches + 1]
  /\ UNCHANGED <<clock, rows, workerVars, ghosts>>

\* DELETE by identifier; ON DELETE SET NULL unlinks the delivery and its attempts.
SweepDelete ==
  /\ sweep.pc = "delete"
  /\ stored' = stored \ sweep.ids
  /\ sweep' = IF Cardinality(sweep.ids) < SweepBatch
              THEN NoSweep
              ELSE [sweep EXCEPT !.pc = "select", !.ids = {}]
  /\ UNCHANGED <<clock, delivery, received_at, history, workerVars, ghosts>>

\* Nothing left, the batch ceiling, or the operator interrupts the command.
SweepStop ==
  /\ sweep.pc # "idle"
  /\ sweep' = NoSweep
  /\ UNCHANGED <<clock, rows, workerVars, ghosts>>

-----------------------------------------------------------------------------
WorkerStep(w) ==
  \/ Poll(w)
  \/ claim_due_deliveries(w)
  \/ NothingDue(w)
  \/ load_submissions(w)
  \/ LoadFails(w)
  \/ \E d \in Deliveries : \/ \E result \in attempt(d) : complete_attempt(w, d, result)
                           \/ CompletionRefused(w, d)
                           \/ Refresh(w, d)

Fault ==
  \E w \in Workers : Crash(w) \/ \E d \in Deliveries : CompletionFails(w, d)

Sweep == SweepStart \/ SweepSelect \/ SweepDelete \/ SweepStop

Activity ==
  \/ \E d \in Deliveries : add_submission(d) \/ requeue_failed_delivery(d)
  \/ \E w \in Workers : WorkerStep(w)
  \/ Fault
  \/ Sweep

Next == Tick \/ Activity

Spec == Init /\ [][Next]_vars

-----------------------------------------------------------------------------
(***************************************************************************)
(* TimelySpec: the operator's sizing of the lease.  Time does not pass     *)
(* while a worker has been on one batch for Deadline ticks, nor while a    *)
(* worker that is free leaves a due delivery unpolled.                     *)
(***************************************************************************)
Timely ==
  /\ \A w \in Workers : pc[w] # "idle" => clock < batch_now[w] + Deadline
  /\ (\E w \in Workers : pc[w] = "idle") => \A d \in Deliveries : ~due_condition(d, clock)

TimelyTick == Tick /\ Timely

TimelyNext == TimelyTick \/ Activity

(***************************************************************************)
(* A running worker keeps taking steps (run_worker survives every          *)
(* exception, deliver is bounded by its deadline) and time passes.         *)
(* Nothing is assumed of submitters, operators, faults or sweeps.          *)
(***************************************************************************)
TimelySpec ==
  /\ Init /\ [][TimelyNext]_vars
  /\ WF_vars(TimelyTick)
  /\ \A w \in Workers : WF_vars(WorkerStep(w))

-----------------------------------------------------------------------------
(***************************************************************************)
(* Properties.                                                             *)
(***************************************************************************)

\* Every variable has its type.
TypeOK ==
  /\ clock \in Nat
  /\ delivery \in [Deliveries -> WebhookDelivery]
  /\ stored \in SUBSET Deliveries
  /\ received_at \in [Deliveries -> Nat]
  /\ history \in [Deliveries -> SUBSET DeliveryAttempt]
  /\ pc \in [Workers -> {"idle", "polled", "claimed", "sending"}]
  /\ batch_now \in [Workers -> Nat]
  /\ claims \in [Workers -> [Deliveries -> Nat]]
  /\ loaded \in [Workers -> [Deliveries -> {"linked", "unlinked", "expired"}]]
  /\ sweep \in SweepRun
  /\ issued \in [Deliveries -> Nat]
  /\ replays \in [Deliveries -> Nat]
  /\ tried \in [Deliveries -> Nat]
  /\ faults \in Nat

\* Retention never takes the payload of a delivery that could still be sent:
\* an accepted delivery has lost its submission only if it was delivered.
\* due_condition, load_submissions and requeue_failed_delivery all lean on it.
UnlinkedOnlyDelivered ==
  \A d \in Deliveries :
    delivery[d].state \in {"pending", "processing", "failed"} => d \in stored

\* Whatever a sweep read as eligible is still eligible when it deletes it by
\* identifier: nothing a worker, a replay or a late completion does in between
\* makes a selected submission needed again (delete_expired_submissions).
SelectionStillEligible ==
  \A d \in sweep.ids \cap stored : expired_condition(d, sweep.before)

\* The claim columns agree: a delivery holds a token and a lease exactly while it
\* is processing, and carries a completion time exactly when it is finished (the
\* check constraint of models.WebhookDelivery).
RowConsistent ==
  \A d \in Deliveries :
    LET row == delivery[d]
    IN  /\ row.state = "processing" <=> row.claim_token # Null
        /\ row.state = "processing" <=> row.claim_expires_at # Null
        /\ row.state \in TERMINAL_STATES <=> row.completed

\* However often leases run out and workers die, one claim is held by one worker:
\* no two workers hold the same token for a delivery, and every token in use was
\* issued, so the exact-token test of complete_attempt names at most one owner.
OneOwner ==
  \A d \in Deliveries :
    /\ delivery[d].claim_token <= issued[d]
    /\ \A w \in Workers :
         /\ claims[w][d] <= issued[d]
         /\ \A v \in Workers \ {w} : claims[w][d] # Null => claims[w][d] # claims[v][d]

\* Whatever a sweep selected has been delivered; submissions and claims exist for
\* accepted deliveries only.
SelectedDelivered ==
  \A d \in sweep.ids : delivery[d].state = "delivered" /\ received_at[d] < sweep.before

StoredAccepted == \A d \in stored : delivery[d].state # "absent"

ClaimsAccepted ==
  \A w \in Workers, d \in Deliveries : claims[w][d] # Null => delivery[d].state # "absent"

\* A worker that is not working on a batch holds no claims.
IdleHoldsNothing ==
  \A w \in Workers, d \in Deliveries : pc[w] \in {"idle", "polled"} => claims[w][d] = Null

\* The history and the job agree about how many attempts happened: the recorded
\* attempts of a delivery carry exactly the numbers 1..attempts, each once, across
\* replays and superseded workers (complete_attempt).
HistoryNumbered ==
  \A d \in Deliveries :
    /\ {a.attempt_number : a \in history[d]} = 1..delivery[d].attempts
    /\ \A a, b \in history[d] : a.attempt_number = b.attempt_number => a = b

\* Only owners draw on the allowance, and every replay grants exactly one more:
\* a delivery waiting to be sent has some left, and its owned attempts never exceed
\* MaxAttempts for each cycle it was given.
AllowanceKept ==
  \A d \in Deliveries :
    /\ delivery[d].state \in {"pending", "processing"} =>
         ~is_exhausted(delivery[d].cycle_attempts)
    /\ Cardinality({a \in history[d] : a.owned}) <= MaxAttempts * (replays[d] + 1)

\* A terminal state is always backed by the history: delivered by exactly one owned
\* success, failed by an owned final refusal or a spent allowance, and by no owned
\* success ever.
VerdictJustified ==
  \A d \in Deliveries :
    LET successes == {a \in history[d] : a.owned /\ a.outcome = "succeeded"}
    IN  /\ delivery[d].state = "delivered" <=> successes # {}
        /\ Cardinality(successes) <= 1
        /\ delivery[d].state = "failed" =>
             \/ is_exhausted(delivery[d].cycle_attempts)
             \/ \E a \in history[d] : a.owned /\ a.final

\* The inductive invariant of the queue: what a sweep may delete and a late worker may
\* change rests on rows, claims and selections agreeing with each other.
QueueInv ==
  /\ TypeOK
  /\ RowConsistent
  /\ OneOwner
  /\ IdleHoldsNothing
  /\ StoredAccepted
  /\ ClaimsAccepted
  /\ SelectedDelivered
  /\ UnlinkedOnlyDelivered
  /\ HistoryNumbered

\* delivered is the last word: no late failure of a superseded worker, no replay and
\* no reclaim ever takes a delivery out of it.
DeliveredIsFinal ==
  [][\A d \in Deliveries :
       delivery[d].state = "delivered" => delivery'[d].state = "delivered"]_vars

\* The fence: when a worker lets go of a job it no longer owns, whether it recorded
\* the request, failed to, or died, the delivery keeps its state, lease, schedule
\* and cycle; only the lifetime count may move.
SupersededChangesNothing ==
  [][\A w \in Workers, d \in Deliveries :
       claims[w][d] # Null /\ claims'[w][d] = Null /\ delivery[d].claim_token # claims[w][d] =>
         delivery'[d] = [delivery[d] EXCEPT !.attempts = delivery'[d].attempts]]_vars

\* The workers at one place of process_batch with a job for this delivery.
WorkersAt(place, d) == {w \in Workers : pc[w] = place /\ d \in Jobs(w)}

\* models.DeliveryAttempt: "One row per request that genuinely went out", read from the
\* request to the row.  Where no process dies and no write fails, every request that
\* went out is counted once its worker has dealt with it.
EveryRequestRecorded ==
  faults = 0 =>
    \A d \in Deliveries :
      Sent(d) <= delivery[d].attempts + Cardinality(WorkersAt("sending", d))

\* Whatever crashes, fails, stalls past its lease or is replayed, each claim is attempted
\* at most once and each attempt is recorded at most once: what is on record and under
\* way never exceeds the attempts started, nor those, with the ones about to start, the
\* claims made (process_batch).  An attempt is not always a request: there are more rows
\* than requests for a delivery nothing can be sent for, and for no other.
AttemptsAccounted ==
  \A d \in Deliveries :
    /\ delivery[d].attempts + Cardinality(WorkersAt("sending", d)) <= tried[d]
    /\ tried[d] + Cardinality(WorkersAt("claimed", d)) <= issued[d]
    /\ delivery[d].attempts > Sent(d) => d \in Unsendable

\* storage.load_submissions: "Nothing due can have lost its submission", so a batch
\* is never abandoned for a submission that is gone.
LoadedBatchComplete ==
  \A w \in Workers : pc[w] = "claimed" => Jobs(w) \subseteq stored

\* With a lease that outlasts an attempt and workers on time, a delivery is never in
\* flight from two workers at once (the warning of run_worker).
NoDoubleSend ==
  \A d \in Deliveries :
    Cardinality(WorkersAt("sending", d)) <= 1

\* With workers on time, every accepted delivery ends delivered or failed, whatever
\* crashes and failed writes it meets on the way (transactional outbox).  Stated for
\* what is accepted at the start, so that MaxClock leaves it time to end.
EverySubmissionSettles ==
  \A d \in Deliveries :
    delivery[d].state \in {"pending", "processing"} /\ received_at[d] = 0 ~>
      delivery[d].state \in TERMINAL_STATES

(***************************************************************************)
(* The queue implements the outbox: a delivery is owed while it is pending *)
(* or processing, whoever holds it and however often it is reclaimed.      *)
(***************************************************************************)
OwedStatus ==
  [d \in Deliveries |->
     IF delivery[d].state \in {"pending", "processing"} THEN "owed" ELSE delivery[d].state]

Promise == INSTANCE Outbox WITH status   <- OwedStatus,
                                payload  <- stored,
                                recorded <- [d \in Deliveries |-> delivery[d].attempts]

\* Every step of workers, replays, sweeps and faults is a step the outbox allows or
\* leaves what it promises alone (claim_due_deliveries, complete_attempt,
\* requeue_failed_delivery and delete_expired_submissions together).
KeepsPromise == Promise!Spec

=============================================================================
