------------------------------- MODULE Outbox -------------------------------
(***************************************************************************)
(* What the outbox promises, without workers, leases, clocks or sweeps:    *)
(* an accepted submission owes one delivery; the debt is settled only by a *)
(* request that is on record, stays settled if it was delivered, may be    *)
(* replayed if it failed; and the payload is kept until it was delivered.  *)
(***************************************************************************)
EXTENDS Naturals

CONSTANT Deliveries

VARIABLES status,     \* "absent", "owed", "delivered" or "failed"
          payload,    \* the deliveries whose submission is kept
          recorded    \* how many requests are on record for each

vars == <<status, payload, recorded>>

Init ==
  /\ status = [d \in Deliveries |-> "absent"]
  /\ payload = {}
  /\ recorded = [d \in Deliveries |-> 0]

Accept(d) ==
  /\ status[d] = "absent"
  /\ status' = [status EXCEPT ![d] = "owed"]
  /\ payload' = payload \cup {d}
  /\ UNCHANGED recorded

\* A request is put on record and changes nothing else: the delivery is to be
\* retried, or the request came from a worker that had been superseded.
Record(d) ==
  /\ status[d] # "absent"
  /\ recorded' = [recorded EXCEPT ![d] = @ + 1]
  /\ UNCHANGED <<status, payload>>

\* The request that settles the debt is put on record in the same step.
Settle(d) ==
  /\ status[d] = "owed"
  /\ d \in payload
  /\ \E verdict \in {"delivered", "failed"} : status' = [status EXCEPT ![d] = verdict]
  /\ recorded' = [recorded EXCEPT ![d] = @ + 1]
  /\ UNCHANGED payload

Replay(d) ==
  /\ status[d] = "failed"
  /\ d \in payload
  /\ status' = [status EXCEPT ![d] = "owed"]
  /\ UNCHANGED <<payload, recorded>>

Forget(old) ==
  /\ \A d \in old : status[d] = "delivered"
  /\ payload' = payload \ old
  /\ UNCHANGED <<status, recorded>>

Next ==
  \/ \E d \in Deliveries : Accept(d) \/ Record(d) \/ Settle(d) \/ Replay(d)
  \/ \E old \in SUBSET Deliveries : Forget(old)

Spec == Init /\ [][Next]_vars

=============================================================================
