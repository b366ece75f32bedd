------------------------------ MODULE Webhooks ------------------------------
(***************************************************************************)
(* The pure decisions of webhooks.py and delivery.py: what a destination's *)
(* answer means, whether it is worth another attempt, how long to wait for *)
(* it and when to stop.  Times are whole ticks.                            *)
(***************************************************************************)
EXTENDS Integers

CONSTANTS MaxAttempts,      \* webhook_max_attempts: requests allowed in one cycle
          InitialBackoff,   \* webhook_retry_initial_seconds, in ticks
          MaxBackoff        \* webhook_retry_max_seconds, in ticks

\* The bounds config.py puts on the three settings.
ASSUME RetryPolicyAssumption ==
         /\ MaxAttempts \in Nat \ {0}
         /\ InitialBackoff \in Nat \ {0}
         /\ MaxBackoff \in Nat \ {0}

(***************************************************************************)
(* DeliveryOutcome and DeliveryResult.  NoStatus is a response_status of   *)
(* None: no answer came back.                                              *)
(***************************************************************************)
DeliveryOutcome == {"succeeded", "timeout", "network_error", "http_error"}

NoStatus == 0

DeliveryResult == [outcome : DeliveryOutcome, response_status : Nat]

\* What the network may do with one request: answer, or fail in one of two ways.
Answer(status) == [kind |-> "answer", status |-> status]
TimedOut       == [kind |-> "timeout", status |-> NoStatus]
Unreachable    == [kind |-> "network", status |-> NoStatus]

(***************************************************************************)
(* deliver: the result of a request, from what the network did with it.    *)
(* Redirects are not followed, so a 3xx is an answer like any other.       *)
(***************************************************************************)
deliver(reply) ==
  CASE reply.kind = "timeout" ->
         [outcome |-> "timeout", response_status |-> NoStatus]
    [] reply.kind = "network" ->
         [outcome |-> "network_error", response_status |-> NoStatus]
    [] reply.kind = "answer" /\ reply.status \in 200..299 ->
         [outcome |-> "succeeded", response_status |-> reply.status]
    [] reply.kind = "answer" /\ reply.status \notin 200..299 ->
         [outcome |-> "http_error", response_status |-> reply.status]

RETRYABLE_STATUSES == {408, 425, 429}

is_retryable(result) ==
  \/ result.outcome \in {"timeout", "network_error"}
  \/ /\ result.outcome = "http_error"
     /\ result.response_status # NoStatus
     /\ \/ result.response_status >= 500
        \/ result.response_status \in RETRYABLE_STATUSES

(***************************************************************************)
(* RetryPolicy.  The delay doubles from the initial one and is capped.     *)
(***************************************************************************)
delay_after(attempts_made) ==
  LET exponent == IF attempts_made > 1 THEN attempts_made - 1 ELSE 0
      seconds  == InitialBackoff * 2^exponent
  IN  IF seconds \in 0..MaxBackoff THEN seconds ELSE MaxBackoff

\* Mutant: one attempt too many.
ExhaustedLate(attempts_made) == attempts_made > MaxAttempts

is_exhausted(attempts_made) == attempts_made >= MaxAttempts

=============================================================================
