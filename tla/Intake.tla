------------------------------- MODULE Intake -------------------------------
(***************************************************************************)
(* The public side of one endpoint: the submit handler of                  *)
(* api/submissions.py and store_submission of storage.py, run by any       *)
(* number of requests at once while operators change the endpoint          *)
(* (Endpoints) and retention deletes what is old.                          *)
(*                                                                         *)
(* A submission is named by the request that stored it.  Each statement    *)
(* sees what was committed before it (READ COMMITTED), so the look-up, the *)
(* insert and the query for the owed delivery are steps of their own.      *)
(* What the limiters decide is RateLimit's subject: here a request may be  *)
(* refused before it stores anything.                                      *)
(***************************************************************************)
EXTENDS Endpoints, Ingestion

CONSTANTS Requests,       \* POSTs to the endpoint
          Keys,           \* Idempotency-Key values
          NoKey,          \* the header was absent
          KeyOf,          \* the key each request carries
          ItemsOf,        \* the form each request carries
          NoRequest

ASSUME IntakeAssumption ==
         /\ NoKey \notin Keys
         /\ KeyOf \in [Requests -> Keys \cup {NoKey}]
         /\ \A r \in Requests : IsForm(ItemsOf[r])
         /\ NoRequest \notin Requests

VARIABLES
  pc,        \* where each request is in the handler
  config,    \* the endpoint's configuration as each request read it
  found,     \* the submission a request is answered with
  queued,    \* what the answer says about a webhook delivery
  stored,    \* the submissions that exist
  target,    \* the destination and secret snapshotted with each delivery
  delivery,  \* the delivery each submission owes
  fresh      \* the submissions stored while a request is being handled

requestVars == <<pc, config, found, queued>>
tableVars   == <<stored, target, delivery>>
vars        == <<endpointVars, requestVars, tableVars, fresh>>

Handling == {"resolved", "insert", "collided", "owed"}
Ended    == {"accepted", "conflict", "refused", "failed", "lost"}

NoTarget == <<NoUrl, NoSecret>>

\* Computed for every keyed request, and stored beside its key.
FingerprintOf == [r \in Requests |-> payload_fingerprint(fields(ItemsOf[r]))]

Init ==
  /\ EndpointInit
  /\ pc = [r \in Requests |-> "new"]
  /\ config = [r \in Requests |-> NoEndpoint]
  /\ found = [r \in Requests |-> NoRequest]
  /\ queued = [r \in Requests |-> FALSE]
  /\ stored = {}
  /\ target = [r \in Requests |-> NoTarget]
  /\ delivery = [r \in Requests |-> "none"]
  /\ fresh = [r \in Requests |-> {}]

-----------------------------------------------------------------------------
(***************************************************************************)
(* Before the store.                                                       *)
(***************************************************************************)
\* The request's own bookkeeping ends with it.
Forgets(r) ==
  /\ fresh' = [fresh EXCEPT ![r] = {}]
  /\ config' = [config EXCEPT ![r] = NoEndpoint]

\* The endpoint's three columns are read off the row together, before any commit.
get_endpoint(r) ==
  /\ pc[r] = "new"
  /\ endpoint.exists
  /\ config' = [config EXCEPT ![r] = endpoint]
  /\ pc' = [pc EXCEPT ![r] = "resolved"]
  /\ UNCHANGED <<endpointVars, found, queued, tableVars, fresh>>

\* 429 from a limiter, 404, 409, 415, 400 or 422: nothing was stored.  What the
\* limiters say and what the headers hold is not this module's subject.
Refused(r) ==
  /\ pc[r] \in {"new", "resolved"}
  /\ pc' = [pc EXCEPT ![r] = "refused"]
  /\ Forgets(r)
  /\ UNCHANGED <<endpointVars, found, queued, tableVars>>

-----------------------------------------------------------------------------
(***************************************************************************)
(* store_submission.                                                       *)
(***************************************************************************)
Spent(r) == {s \in stored : KeyOf[r] # NoKey /\ KeyOf[s] = KeyOf[r]}

\* _settle: the earlier submission answers only for the same content.
Replays(r, s) == FingerprintOf[s] = FingerprintOf[r]

settle(r, s) ==
  /\ pc' = [pc EXCEPT ![r] = IF Replays(r, s) THEN "owed" ELSE "conflict"]
  /\ found' = [found EXCEPT ![r] = IF Replays(r, s) THEN s ELSE NoRequest]
  /\ IF Replays(r, s) THEN UNCHANGED <<config, fresh>> ELSE Forgets(r)
  /\ UNCHANGED <<endpointVars, queued, tableVars>>

\* Only an active endpoint and a form that can be built get this far.
Built(r) == config[r].is_active /\ Acceptable(ItemsOf[r])

\* The fast path.
find_by_idempotency_key(r) ==
  /\ pc[r] = "resolved"
  /\ Built(r)
  /\ KeyOf[r] # NoKey
  /\ \/ \E s \in Spent(r) : settle(r, s)
     \/ /\ Spent(r) = {}
        /\ pc' = [pc EXCEPT ![r] = "insert"]
        /\ UNCHANGED <<endpointVars, config, found, queued, tableVars, fresh>>

ReadyToCommit(r) ==
  \/ pc[r] = "insert"
  \/ pc[r] = "resolved" /\ Built(r) /\ KeyOf[r] = NoKey

\* Mutant: the look-up is trusted and nothing constrains the insert.
KeyUnconstrained(r) == TRUE

\* The unique constraint on (endpoint_id, idempotency_key); NULL keys never collide.
KeyFree(r) == Spent(r) = {}

\* The WebhookTarget of the configuration the request read.
WebhookTarget(r) == <<config[r].webhook_url, config[r].webhook_secret>>

\* The submission and the delivery it owes are committed together.
store_submission(r) ==
  LET owes == config[r].webhook_url # NoUrl IN
  /\ ReadyToCommit(r)
  /\ KeyFree(r)
  /\ stored' = stored \cup {r}
  /\ delivery' = [delivery EXCEPT ![r] = IF owes THEN "owed" ELSE "none"]
  /\ target' = [target EXCEPT ![r] = IF owes THEN WebhookTarget(r) ELSE NoTarget]
  /\ found' = [found EXCEPT ![r] = r]
  /\ queued' = [queued EXCEPT ![r] = owes]
  /\ pc' = [pc EXCEPT ![r] = "accepted"]
  /\ fresh' = [q \in Requests |-> IF q # r /\ pc[q] \in Handling
                                  THEN fresh[q] \cup {r} ELSE {}]
  /\ config' = [config EXCEPT ![r] = NoEndpoint]
  /\ UNCHANGED endpointVars

\* The commit is refused by the constraint and rolled back.
Collides(r) ==
  /\ ReadyToCommit(r)
  /\ ~KeyFree(r)
  /\ pc' = [pc EXCEPT ![r] = "collided"]
  /\ UNCHANGED <<endpointVars, config, found, queued, tableVars, fresh>>

\* The winner is looked up after the rollback.  If nobody holds the key any more, the
\* IntegrityError is raised again.
FindWinner(r) ==
  /\ pc[r] = "collided"
  /\ IF Spent(r) = {}
     THEN /\ pc' = [pc EXCEPT ![r] = "failed"]
          /\ Forgets(r)
          /\ UNCHANGED <<endpointVars, found, queued, tableVars>>
     ELSE \E s \in Spent(r) : settle(r, s)

\* Mutant: the answer describes the endpoint instead of the submission.
OwesByConfig(r) == config[r].webhook_url # NoUrl

\* A delivery that is still linked to the submission.
OwesDelivery(r) == found[r] \in stored /\ delivery[found[r]] # "none"

\* _replayed: the delivery is looked up in a statement of its own.
replayed(r) ==
  /\ pc[r] = "owed"
  /\ queued' = [queued EXCEPT ![r] = OwesDelivery(r)]
  /\ pc' = [pc EXCEPT ![r] = "accepted"]
  /\ Forgets(r)
  /\ UNCHANGED <<endpointVars, found, tableVars>>

\* The process dies or the database goes away: closing the session rolls back.
Dies(r) ==
  /\ pc[r] \in Handling
  /\ pc' = [pc EXCEPT ![r] = "lost"]
  /\ Forgets(r)
  /\ UNCHANGED <<endpointVars, found, queued, tableVars>>

-----------------------------------------------------------------------------
(***************************************************************************)
(* What the worker and retention do to a submission, seen from here.  A    *)
(* delivery is owed until it is delivered, failed ones included.           *)
(***************************************************************************)
Delivered(s) ==
  /\ delivery[s] = "owed"
  /\ delivery' = [delivery EXCEPT ![s] = "delivered"]
  /\ UNCHANGED <<endpointVars, requestVars, stored, target, fresh>>

\* Mutant: a retention age of nothing.
ExpiredAtOnce(s) == s \in stored /\ delivery[s] # "owed"

\* The retention age is days and a request takes seconds: what was stored while a
\* request is being handled has not expired before the request ends.
Expired(s) ==
  /\ s \in stored
  /\ delivery[s] # "owed"
  /\ \A r \in Requests : s \notin fresh[r]

delete_expired_submissions(s) ==
  /\ Expired(s)
  /\ stored' = stored \ {s}
  /\ UNCHANGED <<endpointVars, requestVars, target, delivery, fresh>>

-----------------------------------------------------------------------------
RequestStep(r) ==
  \/ get_endpoint(r)
  \/ Refused(r)
  \/ find_by_idempotency_key(r)
  \/ store_submission(r)
  \/ Collides(r)
  \/ FindWinner(r)
  \/ replayed(r)
  \/ Dies(r)
  \/ Delivered(r)
  \/ delete_expired_submissions(r)

Management == EndpointNext /\ UNCHANGED <<requestVars, tableVars, fresh>>

Next == Management \/ \E r \in Requests : RequestStep(r)

Spec == Init /\ [][Next]_vars

-----------------------------------------------------------------------------
(***************************************************************************)
(* Properties.                                                             *)
(***************************************************************************)

\* Every variable has its type.
TypeOK ==
  /\ EndpointTypeOK
  /\ pc \in [Requests -> {"new"} \cup Handling \cup Ended]
  /\ config \in [Requests -> Endpoint]
  /\ found \in [Requests -> Requests \cup {NoRequest}]
  /\ queued \in [Requests -> BOOLEAN]
  /\ stored \subseteq Requests
  /\ target \in [Requests -> (Urls \cup {NoUrl}) \X Nat]
  /\ delivery \in [Requests -> {"none", "owed", "delivered"}]
  /\ fresh \in [Requests -> SUBSET Requests]

\* Every delivery is addressed and signed with a pair an operator was given: however
\* PATCHes interleave with a submission, no payload goes to one destination signed
\* with the secret of another (submit reads the columns once, update_endpoint mints).
SignedForItsReceiver ==
  /\ \A s \in Requests : target[s] # NoTarget => target[s] \in told
  /\ endpoint.webhook_url # NoUrl => <<endpoint.webhook_url, endpoint.webhook_secret>> \in told

\* Unless the deployment allows it, no create, PATCH or submission, however they race,
\* leaves the endpoint or a delivery with a destination that names the server's own
\* network by a literal: localhost, or an address in a notation ipaddress parses, with or
\* without a trailing dot and mapped into IPv6 or not.  Nothing is claimed of numbers only
\* the resolver understands, nor of names that resolve inside; those pass the check
\* (validate_webhook_url; docs/reference/limitations.md calls it partial).
NoInternalLiteral ==
  AllowPrivateTargets \/
    \A url \in {endpoint.webhook_url} \cup {target[s][1] : s \in Requests} :
      url # NoUrl /\ IsLiteral(url.host) => ~LeadsInside(url.host)

\* The commit that lost the race for a key always finds the winner, so the re-raised
\* IntegrityError of store_submission is never the answer to an ordinary retry.
CollisionResolved == \A r \in Requests : pc[r] # "failed"

\* What an answer says about the delivery is true of the submission it names, whatever
\* happened to the endpoint since: queued only if one was owed, and not queued, while
\* the submission is still there, only if none was (StoredSubmission.delivery_queued).
QueuedMeansOwed ==
  \A r \in Requests :
    pc[r] = "accepted" =>
      /\ queued[r] => delivery[found[r]] # "none"
      /\ ~queued[r] /\ found[r] \in stored => delivery[found[r]] = "none"

Alike == {pair \in Requests \X Requests : SameContent(ItemsOf[pair[1]], ItemsOf[pair[2]])}

Promise == INSTANCE KeyedStore WITH Same    <- Alike,
                                    live    <- stored,
                                    answer  <- found,
                                    clashed <- {r \in Requests : pc[r] = "conflict"}

\* However look-ups, inserts, collisions and crashes of any number of requests
\* interleave, the store behaves as if each request were resolved in one step: at most
\* one live submission per key, the same answer to every retry, and a refusal of every
\* reuse for other content (store_submission).
KeepsKeys == Promise!Spec

=============================================================================
