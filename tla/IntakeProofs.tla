---------------------------- MODULE IntakeProofs ----------------------------
(***************************************************************************)
(* Theorems about Intake and the Endpoints and Destinations it extends,    *)
(* for any number of requests, operators, keys, forms and destinations.    *)
(***************************************************************************)
EXTENDS Intake, IngestionProofs

USE DestinationAssumption, EndpointAssumption, IntakeAssumption DEF NoSecret

-----------------------------------------------------------------------------
(***************************************************************************)
(* Destinations.                                                           *)
(***************************************************************************)

\* A literal that validate_webhook_url lets through does not lead inside, whichever of its
\* forms it is written in.
LEMMA LiteralsJudged ==
  ASSUME ~AllowPrivateTargets, NEW url \in Urls, ~Rejected(url), IsLiteral(url.host)
  PROVE  ~LeadsInside(url.host)
  <1> DEFINE host == url.host
  <1>1. IsHost(host) /\ host # NoHost /\ ~is_internal_host(host)
    BY DEF Rejected
  <1>2. CASE host.form = "name" /\ host = Name(host.labels, host.dots)
    <2>1. stripped(host) = Name(host.labels, 0)
      BY <1>2 DEF stripped, Name
    <2> QED
      BY <1>1, <1>2, <2>1 DEF is_internal_host, LeadsInside, Name
  <1>3. CASE host.form = "v4" /\ host = V4(host.scope, host.dots)
    <2>1. stripped(host) = V4(host.scope, 0)
      BY <1>3 DEF stripped, V4
    <2> QED
      BY <1>1, <1>3, <2>1 DEF is_internal_host, unmapped, LeadsInside, V4
  <1>4. CASE host.form = "v6" /\ host = V6(host.scope)
    <2>1. stripped(host) = V6(host.scope)
      BY <1>4 DEF stripped, V6
    <2> QED
      BY <1>1, <1>4, <2>1 DEF is_internal_host, unmapped, LeadsInside, V6
  <1>5. CASE host.form = "mapped" /\ host = Mapped(host.ipv4_mapped.scope)
    <2>1. stripped(host) = Mapped(host.ipv4_mapped.scope)
      BY <1>5 DEF stripped, Mapped
    <2> QED
      BY <1>1, <1>5, <2>1 DEF is_internal_host, unmapped, LeadsInside, Mapped
  <1> QED
    BY <1>1, <1>2, <1>3, <1>4, <1>5 DEF IsHost, IsLiteral

-----------------------------------------------------------------------------
(***************************************************************************)
(* The endpoint.                                                           *)
(***************************************************************************)

\* Whoever is between the locked read and the commit holds the lock, and the row is
\* still what it read.
RowLocked ==
  \A o \in Operators :
    op[o].pc = "locked" => lock = o /\ op[o].read = endpoint /\ endpoint.exists

\* The endpoint's destination is paired with the secret a response carried.
DestinationTold ==
  endpoint.webhook_url # NoUrl => <<endpoint.webhook_url, endpoint.webhook_secret>> \in told

\* Only destinations that passed validation were ever paired with a secret.
ToldPermitted == \A pair \in told : ~Rejected(pair[1])

EndpointInv ==
  /\ EndpointTypeOK
  /\ RowLocked
  /\ DestinationTold
  /\ ToldPermitted

\* The endpoint a behaviour starts with was validated when it was created.
LEMMA EndpointInvInit == EndpointInit => EndpointInv
  <1> SUFFICES ASSUME EndpointInit PROVE EndpointInv
    OBVIOUS
  <1>1. op \in [Operators -> Operation] /\ \A o \in Operators : op[o].pc = "ready"
    BY DEF EndpointInit, Ready, Operation, NoEndpoint, NoPayload, Endpoint, UpdateEndpointRequest
  <1>2. CASE endpoint = NoEndpoint /\ minted = 0 /\ told = {}
    BY <1>1, <1>2 DEF EndpointInit, EndpointInv, EndpointTypeOK, RowLocked, DestinationTold,
                      ToldPermitted, NoEndpoint, Endpoint
  <1>3. CASE endpoint \in Created /\ minted = 1 /\ told = {<<endpoint.webhook_url, 1>>}
    <2>1. PICK payload \in PostBodies :
            /\ payload.webhook_url # NoUrl
            /\ ~Rejected(payload.webhook_url)
            /\ endpoint = [exists |-> TRUE, is_active |-> payload.is_active,
                           webhook_url |-> payload.webhook_url, webhook_secret |-> 1]
      BY <1>3 DEF Created
    <2>2. payload.is_active \in BOOLEAN /\ payload.webhook_url \in Urls
      BY <2>1 DEF CreateEndpointRequest
    <2>3. endpoint \in Endpoint
      BY <2>1, <2>2 DEF Endpoint
    <2>4. told = {<<payload.webhook_url, 1>>} /\ endpoint.webhook_secret = 1
      BY <1>3, <2>1
    <2>5. EndpointTypeOK
      BY <1>1, <1>3, <2>2, <2>3, <2>4 DEF EndpointInit, EndpointTypeOK
    <2>6. DestinationTold /\ ToldPermitted
      BY <2>1, <2>4 DEF DestinationTold, ToldPermitted
    <2> QED
      BY <1>1, <2>5, <2>6 DEF EndpointInv, RowLocked
  <1> QED
    BY <1>2, <1>3 DEF EndpointInit

\* A management request that ends is left well typed.
LEMMA DoneType == Done \in Operation
  BY DEF Done, Operation, NoEndpoint, NoPayload, Endpoint, UpdateEndpointRequest

\* A PATCH that holds the lock writes a well-formed row, and one whose destination is the
\* old one with its secret or a new one with a new secret.
LEMMA PatchedPair ==
  ASSUME EndpointInv, NEW o \in Operators, op[o].pc = "locked"
  PROVE  /\ PatchedEndpoint(o) \in Endpoint
         /\ ~DestinationChanges(o) =>
              /\ PatchedEndpoint(o).webhook_url = endpoint.webhook_url
              /\ PatchedEndpoint(o).webhook_secret = endpoint.webhook_secret
         /\ DestinationChanges(o) =>
              /\ op[o].payload.webhook_url \in Urls \cup {NoUrl}
              /\ PatchedEndpoint(o).webhook_url = op[o].payload.webhook_url
              /\ PatchedEndpoint(o).webhook_url # endpoint.webhook_url
              /\ PatchedEndpoint(o).webhook_url # NoUrl =>
                   PatchedEndpoint(o).webhook_secret = minted + 1
  <1>1. /\ op[o].read = endpoint
        /\ endpoint \in Endpoint
        /\ op[o].payload \in UpdateEndpointRequest
        /\ minted + 1 \in Nat
    BY DEF EndpointInv, EndpointTypeOK, RowLocked, Operation
  <1>2. op[o].payload.is_active \in BOOLEAN \cup {Unset}
        /\ op[o].payload.webhook_url \in Urls \cup {NoUrl, Unset}
    BY <1>1 DEF UpdateEndpointRequest
  <1>3. /\ endpoint.is_active \in BOOLEAN
        /\ endpoint.webhook_url \in Urls \cup {NoUrl}
        /\ endpoint.webhook_secret \in Nat
    BY <1>1 DEF Endpoint
  <1>4. /\ PatchedEndpoint(o).webhook_secret = PatchedSecret(o)
        /\ PatchedEndpoint(o).webhook_url = IF DestinationChanges(o) THEN op[o].payload.webhook_url
                                            ELSE endpoint.webhook_url
    BY <1>1 DEF PatchedEndpoint
  <1>5. DestinationChanges(o) => op[o].payload.webhook_url \notin {Unset, endpoint.webhook_url}
    BY <1>1 DEF DestinationChanges
  <1>6. PatchedSecret(o) \in Nat
    BY <1>1, <1>3 DEF PatchedSecret, new_signing_secret
  <1>7. PatchedEndpoint(o) \in Endpoint
    BY <1>1, <1>2, <1>3, <1>5, <1>6 DEF PatchedEndpoint, Endpoint
  <1> QED
    BY <1>1, <1>2, <1>4, <1>5, <1>7 DEF PatchedSecret, new_signing_secret

\* What one management request does to the endpoint's side.
LEMMA EndpointStep ==
  ASSUME EndpointInv, EndpointNext
  PROVE  /\ EndpointInv'
         /\ told \subseteq told'
         /\ endpoint.exists /\ endpoint'.webhook_secret # endpoint.webhook_secret =>
              endpoint'.webhook_url # endpoint.webhook_url
  <1> DEFINE Kept == /\ EndpointInv'
                     /\ told \subseteq told'
                     /\ endpoint.exists /\ endpoint'.webhook_secret # endpoint.webhook_secret =>
                          endpoint'.webhook_url # endpoint.webhook_url
  <1>1. ASSUME NEW o \in Operators, NEW payload \in PostBodies, create_endpoint(o, payload)
        PROVE  Kept
    <2>1. payload.is_active \in BOOLEAN /\ payload.webhook_url \in Urls \cup {NoUrl}
      BY DEF CreateEndpointRequest
    <2>2. endpoint' \in Endpoint /\ minted' \in Nat
      BY <1>1, <2>1 DEF create_endpoint, Endpoint, EndpointInv, EndpointTypeOK, new_signing_secret
    <2>3. op' \in [Operators -> Operation]
      BY <1>1, DoneType DEF create_endpoint, EndpointInv, EndpointTypeOK
    <2>4. told' \subseteq (Urls \X Nat)
      BY <1>1, <2>1 DEF create_endpoint, EndpointInv, EndpointTypeOK, new_signing_secret
    <2>5. EndpointTypeOK'
      BY <1>1, <2>2, <2>3, <2>4 DEF create_endpoint, EndpointInv, EndpointTypeOK
    <2>6. RowLocked'
      BY <1>1 DEF create_endpoint, EndpointInv, EndpointTypeOK, RowLocked, Done
    <2>7. DestinationTold' /\ ToldPermitted'
      BY <1>1 DEF create_endpoint, EndpointInv, DestinationTold, ToldPermitted, Permitted
    <2> QED
      BY <1>1, <2>5, <2>6, <2>7 DEF create_endpoint, EndpointInv
  <1>2. ASSUME NEW o \in Operators, ManagementRefused(o)
        PROVE  Kept
    <2>1. EndpointTypeOK'
      BY <1>2, DoneType DEF ManagementRefused, EndpointInv, EndpointTypeOK
    <2>2. RowLocked'
      BY <1>2 DEF ManagementRefused, EndpointInv, EndpointTypeOK, RowLocked, Done
    <2> QED
      BY <1>2, <2>1, <2>2 DEF ManagementRefused, EndpointInv, DestinationTold, ToldPermitted
  <1>3. ASSUME NEW o \in Operators, NEW payload \in PatchBodies, get_endpoint_for_update(o, payload)
        PROVE  Kept
    <2>1. [pc |-> "locked", read |-> endpoint, payload |-> payload] \in Operation
      BY DEF EndpointInv, EndpointTypeOK, Operation
    <2>2. EndpointTypeOK'
      BY <1>3, <2>1 DEF get_endpoint_for_update, EndpointInv, EndpointTypeOK
    <2>3. RowLocked'
      BY <1>3 DEF get_endpoint_for_update, RowAvailable, EndpointInv, EndpointTypeOK, RowLocked
    <2> QED
      BY <1>3, <2>2, <2>3 DEF get_endpoint_for_update, EndpointInv, DestinationTold, ToldPermitted
  <1>4. ASSUME NEW o \in Operators, update_endpoint(o)
        PROVE  Kept
    <2>1. op[o].pc = "locked" /\ lock = o
      BY <1>4 DEF update_endpoint, EndpointInv, RowLocked
    <2> DEFINE url == op[o].payload.webhook_url
    <2>2. CASE ~DestinationChanges(o)
      <3>1. told' = told /\ minted' = minted /\ endpoint' = PatchedEndpoint(o)
        BY <1>4, <2>2 DEF update_endpoint
      <3>2. EndpointTypeOK'
        BY <1>4, <2>1, <3>1, DoneType, PatchedPair DEF update_endpoint, EndpointInv, EndpointTypeOK
      <3>3. RowLocked'
        BY <1>4, <2>1 DEF update_endpoint, EndpointInv, EndpointTypeOK, RowLocked, Done
      <3> QED
        BY <2>1, <2>2, <3>1, <3>2, <3>3, PatchedPair DEF EndpointInv, DestinationTold, ToldPermitted
    <2>3. CASE DestinationChanges(o)
      <3>1. /\ url \in Urls \cup {NoUrl}
            /\ endpoint' = PatchedEndpoint(o)
            /\ endpoint'.webhook_url = url
            /\ url # endpoint.webhook_url
            /\ url # NoUrl => endpoint'.webhook_secret = minted + 1 /\ ~Rejected(url)
        BY <1>4, <2>1, <2>3, PatchedPair DEF update_endpoint, Permitted
      <3>2. told' = IF url # NoUrl THEN told \cup {<<url, minted + 1>>} ELSE told
        BY <1>4, <2>3 DEF update_endpoint, new_signing_secret
      <3>3. minted' \in Nat /\ minted + 1 \in Nat
        BY <1>4, <2>3 DEF update_endpoint, EndpointInv, EndpointTypeOK
      <3>4. EndpointTypeOK'
        BY <1>4, <2>1, <3>1, <3>2, <3>3, DoneType, PatchedPair
           DEF update_endpoint, EndpointInv, EndpointTypeOK
      <3>5. RowLocked'
        BY <1>4, <2>1 DEF update_endpoint, EndpointInv, EndpointTypeOK, RowLocked, Done
      <3>6. DestinationTold' /\ ToldPermitted'
        BY <3>1, <3>2 DEF EndpointInv, DestinationTold, ToldPermitted
      <3> QED
        BY <3>1, <3>2, <3>4, <3>5, <3>6 DEF EndpointInv
    <2> QED
      BY <2>2, <2>3
  <1>5. ASSUME NEW o \in Operators, PatchRollsBack(o)
        PROVE  Kept
    <2>1. EndpointTypeOK'
      BY <1>5, DoneType DEF PatchRollsBack, EndpointInv, EndpointTypeOK
    <2>2. RowLocked'
      BY <1>5 DEF PatchRollsBack, EndpointInv, EndpointTypeOK, RowLocked, Done
    <2> QED
      BY <1>5, <2>1, <2>2 DEF PatchRollsBack, EndpointInv, DestinationTold, ToldPermitted
  <1> QED
    BY <1>1, <1>2, <1>3, <1>4, <1>5 DEF EndpointNext

-----------------------------------------------------------------------------
(***************************************************************************)
(* Type correctness of the whole.                                          *)
(***************************************************************************)

\* A request that ends is left well typed.
LEMMA ForgetsType ==
  ASSUME TypeOK, NEW r \in Requests, Forgets(r)
  PROVE  config' \in [Requests -> Endpoint] /\ fresh' \in [Requests -> SUBSET Requests]
  BY DEF TypeOK, Forgets, NoEndpoint, Endpoint

\* Every step of a request keeps every variable of its side in its type.
LEMMA RequestType ==
  ASSUME TypeOK, NEW r \in Requests, RequestStep(r)
  PROVE  TypeOK'
  <1> USE DEF requestVars, tableVars
  <1> DEFINE pcs == {"new"} \cup Handling \cup Ended
  <1>0. UNCHANGED endpointVars => EndpointTypeOK'
    BY DEF TypeOK, EndpointTypeOK, endpointVars
  <1>1. CASE get_endpoint(r)
    <2>1. config' \in [Requests -> Endpoint]
      BY <1>1 DEF get_endpoint, TypeOK, EndpointTypeOK
    <2> QED
      BY <1>0, <1>1, <2>1 DEF get_endpoint, TypeOK, Handling
  <1>2. CASE Refused(r)
    BY <1>0, <1>2, ForgetsType DEF Refused, TypeOK, Ended
  <1>3. ASSUME NEW s \in Requests, settle(r, s) PROVE TypeOK'
    <2>1. config' \in [Requests -> Endpoint] /\ fresh' \in [Requests -> SUBSET Requests]
      BY <1>3, ForgetsType DEF settle, TypeOK
    <2>2. pc' \in [Requests -> pcs] /\ found' \in [Requests -> Requests \cup {NoRequest}]
      BY <1>3 DEF settle, TypeOK, Handling, Ended
    <2> QED
      BY <1>0, <1>3, <2>1, <2>2 DEF settle, TypeOK
  <1>4. CASE find_by_idempotency_key(r)
    <2>1. CASE \E s \in Spent(r) : settle(r, s)
      BY <1>3, <2>1 DEF Spent, TypeOK
    <2>2. CASE pc' = [pc EXCEPT ![r] = "insert"]
               /\ UNCHANGED <<endpointVars, config, found, queued, tableVars, fresh>>
      BY <1>0, <2>2 DEF TypeOK, Handling
    <2> QED
      BY <1>4, <2>1, <2>2 DEF find_by_idempotency_key
  <1>5. CASE store_submission(r)
    <2>1. config[r] \in Endpoint
      BY DEF TypeOK
    <2>2. WebhookTarget(r) \in (Urls \cup {NoUrl}) \X Nat /\ NoTarget \in (Urls \cup {NoUrl}) \X Nat
      BY <2>1 DEF WebhookTarget, NoTarget, Endpoint
    <2>3. target' \in [Requests -> (Urls \cup {NoUrl}) \X Nat]
      BY <1>5, <2>2 DEF store_submission, TypeOK
    <2>4. config' \in [Requests -> Endpoint]
      BY <1>5 DEF store_submission, TypeOK, NoEndpoint, Endpoint
    <2>5. fresh' \in [Requests -> SUBSET Requests]
      BY <1>5 DEF store_submission, TypeOK
    <2>6. delivery' \in [Requests -> {"none", "owed", "delivered"}]
      BY <1>5 DEF store_submission, TypeOK
    <2>7. queued' \in [Requests -> BOOLEAN]
      <3>1. (config[r].webhook_url # NoUrl) \in BOOLEAN
        OBVIOUS
      <3> QED
        BY <1>5, <3>1 DEF store_submission, TypeOK
    <2>8. pc' \in [Requests -> pcs] /\ found' \in [Requests -> Requests \cup {NoRequest}]
          /\ stored' \subseteq Requests
      BY <1>5 DEF store_submission, TypeOK, Ended
    <2> QED
      BY <1>0, <1>5, <2>3, <2>4, <2>5, <2>6, <2>7, <2>8 DEF store_submission, TypeOK
  <1>6. CASE Collides(r)
    BY <1>0, <1>6 DEF Collides, TypeOK, Handling
  <1>7. CASE FindWinner(r)
    <2>1. CASE Spent(r) = {}
      BY <1>0, <1>7, <2>1, ForgetsType DEF FindWinner, TypeOK, Ended
    <2>2. CASE Spent(r) # {}
      BY <1>3, <1>7, <2>2 DEF FindWinner, Spent, TypeOK
    <2> QED
      BY <2>1, <2>2
  <1>8. CASE replayed(r)
    <2>1. OwesDelivery(r) \in BOOLEAN
      BY DEF OwesDelivery
    <2>2. queued' \in [Requests -> BOOLEAN]
      BY <1>8, <2>1 DEF replayed, TypeOK
    <2> QED
      BY <1>0, <1>8, <2>2, ForgetsType DEF replayed, TypeOK, Ended
  <1>9. CASE Dies(r)
    BY <1>0, <1>9, ForgetsType DEF Dies, TypeOK, Ended
  <1>10. CASE Delivered(r)
    BY <1>0, <1>10 DEF Delivered, TypeOK
  <1>11. CASE delete_expired_submissions(r)
    BY <1>0, <1>11 DEF delete_expired_submissions, TypeOK
  <1> QED
    BY <1>1, <1>2, <1>4, <1>5, <1>6, <1>7, <1>8, <1>9, <1>10, <1>11 DEF RequestStep

-----------------------------------------------------------------------------
(***************************************************************************)
(* The inductive invariant.                                                *)
(***************************************************************************)

\* What a request read, and what a delivery was given, is a pair a response carried.
ConfigTold(r) ==
  config[r].webhook_url # NoUrl => <<config[r].webhook_url, config[r].webhook_secret>> \in told

TargetTold(r) == target[r] # NoTarget => target[r] \in told

\* Only an accepted request is an answer, and a request has one once it is resolved.
FoundAccepted(r) ==
  /\ found[r] # NoRequest => pc[found[r]] = "accepted"
  /\ pc[r] \in {"owed", "accepted"} => found[r] # NoRequest
  /\ pc[r] \in {"new", "resolved", "insert", "collided"} => found[r] = NoRequest

AnswerTrue(r) ==
  pc[r] = "accepted" =>
    /\ queued[r] => delivery[found[r]] # "none"
    /\ ~queued[r] /\ found[r] \in stored => delivery[found[r]] = "none"

\* Retention has not reached what was stored while a request is being handled.
FreshStored(r) == fresh[r] \subseteq stored

\* Whoever holds the key of a request that looked it up in vain was stored since.
WinnersFresh(r) ==
  pc[r] \in {"insert", "collided"} => KeyOf[r] # NoKey /\ Spent(r) \subseteq fresh[r]

\* A request that collided still collides.
WinnerKept(r) == pc[r] = "collided" => Spent(r) # {}

RequestInv(r) ==
  /\ ConfigTold(r)
  /\ TargetTold(r)
  /\ FoundAccepted(r)
  /\ AnswerTrue(r)
  /\ FreshStored(r)
  /\ WinnersFresh(r)
  /\ WinnerKept(r)
  /\ pc[r] # "failed"

\* Only a request that was accepted is stored.
StoredAccepted == \A s \in stored : pc[s] = "accepted"

IntakeInv ==
  /\ TypeOK
  /\ EndpointInv
  /\ StoredAccepted
  /\ \A r \in Requests : RequestInv(r)

\* Nothing of the requests is there to begin with.
LEMMA IntakeInvInit == Init => IntakeInv
  <1> SUFFICES ASSUME Init PROVE IntakeInv
    OBVIOUS
  <1>1. EndpointInv
    BY EndpointInvInit DEF Init
  <1>2. TypeOK
    BY <1>1 DEF Init, EndpointInv, TypeOK, NoEndpoint, Endpoint, NoTarget
  <1>3. ASSUME NEW r \in Requests PROVE RequestInv(r)
    BY DEF Init, RequestInv, ConfigTold, TargetTold, FoundAccepted, AnswerTrue, FreshStored,
           WinnersFresh, WinnerKept, NoEndpoint
  <1> QED
    BY <1>1, <1>2, <1>3 DEF Init, IntakeInv, StoredAccepted

\* The step of a request that changes no table: only its own variables move.
OwnStep(r) ==
  /\ UNCHANGED <<endpointVars, tableVars>>
  /\ pc[r] \in {"new"} \cup Handling
  /\ \A q \in Requests \ {r} :
       /\ pc'[q] = pc[q] /\ config'[q] = config[q] /\ found'[q] = found[q]
       /\ queued'[q] = queued[q] /\ fresh'[q] = fresh[q]

\* Such a step keeps the invariant if it keeps it for the request that takes it.
LEMMA OwnStepKeeps ==
  ASSUME IntakeInv, TypeOK', NEW r \in Requests, OwnStep(r), RequestInv(r)'
  PROVE  IntakeInv'
  <1> USE DEF tableVars, endpointVars
  <1>1. EndpointInv'
    BY DEF OwnStep, IntakeInv, EndpointInv, EndpointTypeOK, RowLocked, DestinationTold, ToldPermitted
  <1>2. pc[r] # "accepted"
    BY DEF OwnStep, Handling
  <1>3. StoredAccepted'
    BY <1>2 DEF OwnStep, IntakeInv, StoredAccepted, TypeOK
  <1>4. ASSUME NEW q \in Requests \ {r} PROVE RequestInv(q)'
    <2>1. RequestInv(q)
      BY DEF IntakeInv
    <2>2. FoundAccepted(q)'
      BY <1>2, <2>1 DEF OwnStep, RequestInv, FoundAccepted, IntakeInv, TypeOK
    <2>3. WinnersFresh(q)' /\ WinnerKept(q)'
      BY <2>1 DEF OwnStep, RequestInv, WinnersFresh, WinnerKept, Spent
    <2> QED
      BY <2>1, <2>2, <2>3 DEF OwnStep, RequestInv, ConfigTold, TargetTold, AnswerTrue, FreshStored
  <1> QED
    BY <1>1, <1>3, <1>4 DEF IntakeInv

\* The commit of a submission and its delivery keeps the invariant: it answers one request
\* that had no answer, and whoever is waiting for the same key takes note.
LEMMA StoreKeeps ==
  ASSUME IntakeInv, NEW r \in Requests, store_submission(r)
  PROVE  IntakeInv'
  <1> USE DEF tableVars, endpointVars
  <1>0. /\ TypeOK /\ TypeOK' /\ UNCHANGED endpointVars
        /\ pc[r] # "accepted" /\ pc[r] \in Handling
        /\ pc' = [pc EXCEPT ![r] = "accepted"] /\ pc'[r] = "accepted"
        /\ stored' = stored \cup {r}
    BY RequestType DEF IntakeInv, RequestStep, store_submission, ReadyToCommit, Handling, TypeOK
  <1>1. EndpointInv'
    BY <1>0 DEF IntakeInv, EndpointInv, EndpointTypeOK, RowLocked, DestinationTold, ToldPermitted
  <1>2. StoredAccepted'
    BY <1>0 DEF IntakeInv, StoredAccepted, TypeOK
  <1>3. RequestInv(r)'
    <2>1. config'[r] = NoEndpoint /\ found'[r] = r /\ fresh'[r] = {}
      BY <1>0 DEF store_submission, TypeOK
    <2>2. ASSUME config[r].webhook_url # NoUrl PROVE AnswerTrue(r)' /\ TargetTold(r)'
      <3>1. queued' = [queued EXCEPT ![r] = TRUE] /\ queued \in [Requests -> BOOLEAN]
        BY <1>0, <2>2 DEF store_submission, TypeOK
      <3>2. delivery'[r] = "owed" /\ target'[r] = WebhookTarget(r)
        BY <1>0, <2>2 DEF store_submission, TypeOK
      <3>3. WebhookTarget(r) \in told'
        BY <1>0, <2>2 DEF WebhookTarget, IntakeInv, RequestInv, ConfigTold
      <3> QED
        BY <2>1, <3>1, <3>2, <3>3 DEF AnswerTrue, TargetTold
    <2>3. ASSUME config[r].webhook_url = NoUrl PROVE AnswerTrue(r)' /\ TargetTold(r)'
      <3>1. queued' = [queued EXCEPT ![r] = FALSE] /\ queued \in [Requests -> BOOLEAN]
        BY <1>0, <2>3 DEF store_submission, TypeOK
      <3>2. delivery'[r] = "none" /\ target'[r] = NoTarget
        BY <1>0, <2>3 DEF store_submission, TypeOK
      <3> QED
        BY <2>1, <3>1, <3>2 DEF AnswerTrue, TargetTold
    <2>4. AnswerTrue(r)' /\ TargetTold(r)'
      BY <2>2, <2>3
    <2> QED
      BY <1>0, <2>1, <2>4 DEF RequestInv, ConfigTold, FoundAccepted, FreshStored,
                                    WinnersFresh, WinnerKept, NoEndpoint
  <1>4. ASSUME NEW q \in Requests \ {r} PROVE RequestInv(q)'
    <2>1. /\ RequestInv(q) /\ pc'[q] = pc[q] /\ config'[q] = config[q] /\ found'[q] = found[q]
          /\ queued'[q] = queued[q] /\ target'[q] = target[q] /\ found[q] # r
      BY <1>0 DEF store_submission, IntakeInv, RequestInv, FoundAccepted, TypeOK
    <2>2. FoundAccepted(q)'
      BY <1>0, <2>1 DEF RequestInv, FoundAccepted, TypeOK
    <2>3. AnswerTrue(q)'
      <3>1. pc[q] = "accepted" => found[q] \in Requests /\ delivery'[found[q]] = delivery[found[q]]
        BY <1>0, <2>1 DEF store_submission, RequestInv, FoundAccepted, TypeOK
      <3> QED
        BY <1>0, <2>1, <3>1 DEF RequestInv, AnswerTrue
    <2>4. FreshStored(q)' /\ (pc[q] \in Handling => fresh'[q] = fresh[q] \cup {r})
      BY <1>0, <2>1 DEF store_submission, RequestInv, FreshStored
    <2>5. Spent(q)' \subseteq Spent(q) \cup {r} /\ Spent(q) \subseteq Spent(q)'
      BY <1>0 DEF Spent
    <2>6. WinnersFresh(q)' /\ WinnerKept(q)'
      BY <2>1, <2>4, <2>5 DEF RequestInv, WinnersFresh, WinnerKept, Handling
    <2> QED
      BY <1>0, <2>1, <2>2, <2>3, <2>4, <2>6 DEF RequestInv, ConfigTold, TargetTold
  <1> QED
    BY <1>0, <1>1, <1>2, <1>3, <1>4 DEF IntakeInv

\* So do a delivery that succeeds and a submission that expires.
LEMMA TableStepKeeps ==
  ASSUME IntakeInv, NEW s \in Requests, Delivered(s) \/ delete_expired_submissions(s)
  PROVE  IntakeInv'
  <1> USE DEF requestVars, tableVars, endpointVars
  <1>0. /\ TypeOK /\ TypeOK' /\ UNCHANGED <<endpointVars, requestVars, target, fresh>>
        /\ stored' \subseteq stored
    BY RequestType DEF IntakeInv, RequestStep, Delivered, delete_expired_submissions
  <1>1. EndpointInv'
    BY <1>0 DEF IntakeInv, EndpointInv, EndpointTypeOK, RowLocked, DestinationTold, ToldPermitted
  <1>2. StoredAccepted'
    BY <1>0 DEF IntakeInv, StoredAccepted
  <1>3. \A d \in Requests : delivery'[d] = "none" <=> delivery[d] = "none"
    BY <1>0 DEF Delivered, delete_expired_submissions, TypeOK
  <1>4. \A q \in Requests : fresh[q] \subseteq stored'
    BY DEF Delivered, delete_expired_submissions, Expired, IntakeInv, RequestInv, FreshStored
  <1>5. ASSUME NEW q \in Requests PROVE RequestInv(q)'
    <2>1. RequestInv(q)
      BY DEF IntakeInv
    <2>2. AnswerTrue(q)'
      <3>1. pc[q] = "accepted" => found[q] \in Requests
        BY <1>0, <2>1 DEF RequestInv, FoundAccepted, TypeOK
      <3> QED
        BY <1>0, <1>3, <2>1, <3>1 DEF RequestInv, AnswerTrue
    <2>3. Spent(q)' \subseteq Spent(q) /\ Spent(q) \cap fresh[q] \subseteq Spent(q)'
      BY <1>0, <1>4 DEF Spent
    <2>4. WinnersFresh(q)' /\ WinnerKept(q)'
      BY <1>0, <2>1, <2>3 DEF RequestInv, WinnersFresh, WinnerKept
    <2> QED
      BY <1>0, <1>4, <2>1, <2>2, <2>4 DEF RequestInv, ConfigTold, TargetTold, FoundAccepted, FreshStored
  <1> QED
    BY <1>0, <1>1, <1>2, <1>5 DEF IntakeInv

\* Everything a request does by itself keeps the invariant.
LEMMA RequestStepKeeps ==
  ASSUME IntakeInv, NEW r \in Requests, RequestStep(r)
  PROVE  IntakeInv'
  <1> USE DEF requestVars, tableVars
  <1>0. TypeOK /\ TypeOK' /\ RequestInv(r)
    BY RequestType DEF IntakeInv
  <1>1. CASE get_endpoint(r)
    <2>1. OwnStep(r)
      BY <1>0, <1>1 DEF get_endpoint, OwnStep, TypeOK
    <2>2. RequestInv(r)'
      BY <1>0, <1>1 DEF get_endpoint, RequestInv, ConfigTold, TargetTold, FoundAccepted, AnswerTrue,
                  FreshStored, WinnersFresh, WinnerKept, TypeOK, IntakeInv, EndpointInv,
                  DestinationTold, endpointVars
    <2> QED
      BY <1>0, <2>1, <2>2, OwnStepKeeps
  <1>2. CASE Refused(r)
    <2>1. OwnStep(r)
      BY <1>0, <1>2 DEF Refused, Forgets, OwnStep, TypeOK, Handling
    <2>2. RequestInv(r)'
      BY <1>0, <1>2 DEF Refused, Forgets, RequestInv, ConfigTold, TargetTold, FoundAccepted,
                  AnswerTrue, FreshStored, WinnersFresh, WinnerKept, TypeOK, NoEndpoint, endpointVars
    <2> QED
      BY <1>0, <2>1, <2>2, OwnStepKeeps
  <1>3. ASSUME pc[r] \in {"resolved", "collided"}, NEW s \in Spent(r), settle(r, s)
        PROVE  IntakeInv'
    <2>1. s \in stored /\ s \in Requests /\ pc[s] = "accepted" /\ s # r /\ s # NoRequest
      BY <1>0, <1>3 DEF Spent, TypeOK, IntakeInv, StoredAccepted
    <2>2. OwnStep(r)
      BY <1>0, <1>3 DEF settle, Forgets, OwnStep, TypeOK, Handling
    <2>3. CASE Replays(r, s)
      <3>1. /\ pc' = [pc EXCEPT ![r] = "owed"] /\ found' = [found EXCEPT ![r] = s]
            /\ UNCHANGED <<endpointVars, config, queued, tableVars, fresh>>
        BY <1>3, <2>3 DEF settle
      <3>2. pc'[s] = "accepted" /\ pc'[r] = "owed" /\ found'[r] = s
        BY <1>0, <2>1, <3>1 DEF TypeOK
      <3> QED
        BY <1>0, <2>1, <2>2, <3>1, <3>2, OwnStepKeeps
           DEF RequestInv, ConfigTold, TargetTold, FoundAccepted, AnswerTrue, FreshStored,
               WinnersFresh, WinnerKept, endpointVars
    <2>4. CASE ~Replays(r, s)
      <3>1. /\ pc' = [pc EXCEPT ![r] = "conflict"] /\ found' = [found EXCEPT ![r] = NoRequest]
            /\ Forgets(r)
            /\ UNCHANGED <<endpointVars, queued, tableVars>>
        BY <1>3, <2>4 DEF settle
      <3>2. RequestInv(r)'
        BY <1>0, <3>1 DEF Forgets, RequestInv, ConfigTold, TargetTold, FoundAccepted, AnswerTrue,
                    FreshStored, WinnersFresh, WinnerKept, TypeOK, NoEndpoint, endpointVars
      <3> QED
        BY <1>0, <2>2, <3>2, OwnStepKeeps
    <2> QED
      BY <2>3, <2>4
  <1>4. CASE find_by_idempotency_key(r)
    <2>1. CASE \E s \in Spent(r) : settle(r, s)
      BY <1>3, <1>4, <2>1 DEF find_by_idempotency_key
    <2>2. CASE /\ Spent(r) = {}
               /\ pc' = [pc EXCEPT ![r] = "insert"]
               /\ UNCHANGED <<endpointVars, config, found, queued, tableVars, fresh>>
      <3>1. OwnStep(r)
        BY <1>0, <1>4, <2>2 DEF find_by_idempotency_key, OwnStep, TypeOK, Handling
      <3>2. Spent(r)' = {} /\ pc'[r] = "insert" /\ pc[r] = "resolved" /\ KeyOf[r] # NoKey
        BY <1>0, <1>4, <2>2 DEF find_by_idempotency_key, Spent, TypeOK
      <3>3. RequestInv(r)'
        BY <1>0, <2>2, <3>2 DEF RequestInv, ConfigTold, TargetTold, FoundAccepted, AnswerTrue,
                    FreshStored, WinnersFresh, WinnerKept, endpointVars
      <3> QED
        BY <1>0, <3>1, <3>3, OwnStepKeeps
    <2> QED
      BY <1>4, <2>1, <2>2 DEF find_by_idempotency_key
  <1>6. CASE Collides(r)
    <2>1. pc[r] = "insert" /\ pc'[r] = "collided"
      BY <1>0, <1>6 DEF Collides, ReadyToCommit, KeyFree, Spent, TypeOK
    <2>2. OwnStep(r)
      BY <1>0, <1>6, <2>1 DEF Collides, OwnStep, TypeOK, Handling
    <2>3. Spent(r)' = Spent(r) /\ Spent(r) # {}
      BY <1>6 DEF Collides, KeyFree, Spent
    <2>4. RequestInv(r)'
      BY <1>0, <1>6, <2>1, <2>3 DEF Collides, RequestInv, ConfigTold, TargetTold, FoundAccepted,
                  AnswerTrue, FreshStored, WinnersFresh, WinnerKept, endpointVars
    <2> QED
      BY <1>0, <2>2, <2>4, OwnStepKeeps
  <1>7. CASE FindWinner(r)
    <2>1. Spent(r) # {}
      BY <1>0, <1>7 DEF FindWinner, RequestInv, WinnerKept
    <2> QED
      BY <1>3, <1>7, <2>1 DEF FindWinner
  <1>8. CASE replayed(r)
    <2>1. OwnStep(r)
      BY <1>0, <1>8 DEF replayed, Forgets, OwnStep, TypeOK, Handling
    <2>2. /\ queued'[r] = OwesDelivery(r) /\ pc'[r] = "accepted" /\ found'[r] = found[r]
          /\ found[r] \in Requests /\ pc[found[r]] = "accepted" /\ pc[r] = "owed"
      BY <1>0, <1>8 DEF replayed, TypeOK, RequestInv, FoundAccepted
    <2>3. FoundAccepted(r)' /\ AnswerTrue(r)'
      BY <1>0, <1>8, <2>2 DEF replayed, OwesDelivery, FoundAccepted, AnswerTrue, TypeOK
    <2>4. RequestInv(r)'
      BY <1>0, <1>8, <2>3 DEF replayed, Forgets, RequestInv, ConfigTold, TargetTold, FreshStored,
                  WinnersFresh, WinnerKept, TypeOK, NoEndpoint, endpointVars
    <2> QED
      BY <1>0, <2>1, <2>4, OwnStepKeeps
  <1>9. CASE Dies(r)
    <2>1. OwnStep(r)
      BY <1>0, <1>9 DEF Dies, Forgets, OwnStep, TypeOK
    <2>2. FoundAccepted(r)'
      BY <1>0, <1>9 DEF Dies, RequestInv, FoundAccepted, TypeOK, Handling
    <2>3. RequestInv(r)'
      BY <1>0, <1>9, <2>2 DEF Dies, Forgets, RequestInv, ConfigTold, TargetTold,
                  AnswerTrue, FreshStored, WinnersFresh, WinnerKept, TypeOK, NoEndpoint, endpointVars
    <2> QED
      BY <1>0, <2>1, <2>3, OwnStepKeeps
  <1>5. CASE store_submission(r)
    BY <1>5, StoreKeeps
  <1>10. CASE Delivered(r) \/ delete_expired_submissions(r)
    BY <1>10, TableStepKeeps
  <1> QED
    BY <1>1, <1>2, <1>4, <1>5, <1>6, <1>7, <1>8, <1>9, <1>10 DEF RequestStep

\* Every step keeps the invariant.
LEMMA IntakeInvStep == IntakeInv /\ [Next]_vars => IntakeInv'
  <1> SUFFICES ASSUME IntakeInv, [Next]_vars PROVE IntakeInv'
    OBVIOUS
  <1> USE DEF requestVars, tableVars
  <1>1. ASSUME EndpointInv', told \subseteq told', UNCHANGED <<requestVars, tableVars, fresh>>
        PROVE  IntakeInv'
    <2>1. TypeOK'
      BY <1>1 DEF IntakeInv, TypeOK, EndpointInv
    <2>2. StoredAccepted'
      BY <1>1 DEF IntakeInv, StoredAccepted
    <2>3. ASSUME NEW r \in Requests PROVE RequestInv(r)'
      BY <1>1 DEF IntakeInv, RequestInv, ConfigTold, TargetTold, FoundAccepted, AnswerTrue,
                  FreshStored, WinnersFresh, WinnerKept, Spent
    <2> QED
      BY <1>1, <2>1, <2>2, <2>3 DEF IntakeInv
  <1>2. CASE Management
    BY <1>1, <1>2, EndpointStep DEF Management, IntakeInv
  <1>3. ASSUME NEW r \in Requests, RequestStep(r) PROVE IntakeInv'
    BY <1>3, RequestStepKeeps
  <1>4. CASE UNCHANGED vars
    <2>1. EndpointInv'
      BY <1>4 DEF vars, endpointVars, IntakeInv, EndpointInv, EndpointTypeOK, RowLocked,
                  DestinationTold, ToldPermitted
    <2> QED
      BY <1>1, <1>4, <2>1 DEF vars, endpointVars
  <1> QED
    BY <1>2, <1>3, <1>4 DEF Next

-----------------------------------------------------------------------------
(***************************************************************************)
(* The theorems.                                                           *)
(***************************************************************************)

\* The invariant holds in every reachable state.
THEOREM IntakeInvariant == Spec => []IntakeInv
  BY IntakeInvInit, IntakeInvStep, PTL DEF Spec

\* Every variable of the endpoint and of the submit handler keeps its type.
THEOREM IntakeTypeCorrect == Spec => []TypeOK
  <1>1. IntakeInv => TypeOK
    BY DEF IntakeInv
  <1> QED
    BY <1>1, IntakeInvariant, PTL

\* No delivery goes to one destination signed with the secret of another.
THEOREM SignedRight == Spec => []SignedForItsReceiver
  <1>1. IntakeInv => SignedForItsReceiver
    BY DEF IntakeInv, EndpointInv, DestinationTold, RequestInv, TargetTold, SignedForItsReceiver
  <1> QED
    BY <1>1, IntakeInvariant, PTL

\* No endpoint and no delivery has a destination that names the server's own network by
\* a literal, in a notation ipaddress parses.
THEOREM NoLiteralInside == Spec => []NoInternalLiteral
  <1>1. IntakeInv => NoInternalLiteral
    <2> SUFFICES ASSUME IntakeInv, ~AllowPrivateTargets,
                        NEW url \in {endpoint.webhook_url} \cup {target[s][1] : s \in Requests},
                        url # NoUrl, IsLiteral(url.host)
                 PROVE  ~LeadsInside(url.host)
      BY DEF NoInternalLiteral
    <2>1. CASE url = endpoint.webhook_url
      <3>1. <<url, endpoint.webhook_secret>> \in told /\ told \subseteq (Urls \X Nat)
        BY <2>1 DEF IntakeInv, EndpointInv, DestinationTold, EndpointTypeOK
      <3>2. url \in Urls /\ ~Rejected(url)
        BY <3>1 DEF IntakeInv, EndpointInv, ToldPermitted
      <3> QED
        BY <3>2, LiteralsJudged
    <2>2. ASSUME NEW s \in Requests, url = target[s][1] PROVE ~LeadsInside(url.host)
      <3>1. target[s] # NoTarget
        BY <2>2 DEF NoTarget
      <3>2. target[s] \in told /\ told \subseteq (Urls \X Nat)
        BY <3>1 DEF IntakeInv, RequestInv, TargetTold, EndpointInv, EndpointTypeOK
      <3>3. url \in Urls /\ ~Rejected(url)
        BY <2>2, <3>2 DEF IntakeInv, EndpointInv, ToldPermitted
      <3> QED
        BY <3>3, LiteralsJudged
    <2> QED
      BY <2>1, <2>2
  <1> QED
    BY <1>1, IntakeInvariant, PTL

\* The loser of a race for a key always finds the winner.
THEOREM CollisionsResolve == Spec => []CollisionResolved
  <1>1. IntakeInv => CollisionResolved
    BY DEF IntakeInv, RequestInv, CollisionResolved
  <1> QED
    BY <1>1, IntakeInvariant, PTL

\* What an answer says about the delivery is true of the submission it names.
THEOREM AnswersTrue == Spec => []QueuedMeansOwed
  <1>1. IntakeInv => QueuedMeansOwed
    BY DEF IntakeInv, RequestInv, AnswerTrue, QueuedMeansOwed
  <1> QED
    BY <1>1, IntakeInvariant, PTL

\* A signing secret changes only together with its destination.
THEOREM SecretsFollowDestinations == Spec => SecretChangesWithDestination
  <1>1. IntakeInv /\ [Next]_vars =>
          [endpoint.exists /\ endpoint'.webhook_secret # endpoint.webhook_secret =>
             endpoint'.webhook_url # endpoint.webhook_url]_endpointVars
    <2> SUFFICES ASSUME IntakeInv, [Next]_vars, ~UNCHANGED endpointVars
                 PROVE  endpoint.exists /\ endpoint'.webhook_secret # endpoint.webhook_secret =>
                          endpoint'.webhook_url # endpoint.webhook_url
      OBVIOUS
    <2>1. ASSUME NEW r \in Requests, RequestStep(r) PROVE UNCHANGED endpointVars
      BY <2>1 DEF RequestStep, get_endpoint, Refused, find_by_idempotency_key, settle,
                  store_submission, Collides, FindWinner, replayed, Dies, Delivered,
                  delete_expired_submissions
    <2>2. EndpointNext
      BY <2>1 DEF Next, vars, Management
    <2> QED
      BY <2>2, EndpointStep DEF IntakeInv
  <1> QED
    BY <1>1, IntakeInvariant, PTL DEF Spec, SecretChangesWithDestination

-----------------------------------------------------------------------------
(***************************************************************************)
(* The store implements the promise of an idempotency key.                 *)
(***************************************************************************)

\* The submissions that stand in a request's way are the same on both levels.
LEMMA SpentIsSameKey == \A r : Promise!SameKey(r) = Spent(r)
  BY DEF Promise!SameKey, Spent

\* A replay is a repetition of the content.
LEMMA ReplaysAlike ==
  ASSUME NEW r \in Requests, NEW s \in Requests
  PROVE  Replays(r, s) <=> <<s, r>> \in Alike
  <1>1. IsForm(ItemsOf[r]) /\ IsForm(ItemsOf[s])
    OBVIOUS
  <1>2. Replays(r, s) <=> payload_fingerprint(fields(ItemsOf[s])) = payload_fingerprint(fields(ItemsOf[r]))
    BY DEF Replays, FingerprintOf
  <1>3. <<s, r>> \in Alike <=> SameContent(ItemsOf[s], ItemsOf[r])
    BY DEF Alike
  <1> QED
    BY <1>1, <1>2, <1>3, FingerprintIsExact

Clashed == {r \in Requests : pc[r] = "conflict"}

\* A step that moves one request to a place that is not a conflict, and changes neither
\* the table nor an answer, is invisible.
LEMMA Invisible ==
  ASSUME TypeOK, NEW r \in Requests, pc[r] # "conflict", UNCHANGED <<stored, found>>,
         NEW at, at # "conflict", pc' = [pc EXCEPT ![r] = at]
  PROVE  UNCHANGED Promise!vars
  <1>1. Clashed' = Clashed
    BY DEF Clashed, TypeOK
  <1> QED
    BY <1>1 DEF Promise!vars, Clashed

\* Settling with the holder of the key is a repetition or a clash.
LEMMA SettleResolves ==
  ASSUME IntakeInv, NEW r \in Requests, pc[r] \in {"resolved", "collided"},
         NEW s \in Spent(r), settle(r, s)
  PROVE  Promise!Resolve(r)
  <1>1. /\ TypeOK /\ s \in stored /\ s \in Requests /\ found[r] = NoRequest
        /\ r \notin Clashed
    BY DEF Spent, TypeOK, IntakeInv, RequestInv, FoundAccepted, Clashed
  <1>2. s \in Promise!SameKey(r)
    BY SpentIsSameKey
  <1>3. CASE Replays(r, s)
    <2>1. /\ pc' = [pc EXCEPT ![r] = "owed"] /\ found' = [found EXCEPT ![r] = s]
          /\ stored' = stored
      BY <1>3 DEF settle, tableVars
    <2>2. Clashed' = Clashed
      BY <1>1, <2>1 DEF Clashed, TypeOK
    <2>3. <<s, r>> \in Alike
      BY <1>1, <1>3, ReplaysAlike
    <2>4. Promise!Repeat(r)
      BY <1>2, <2>1, <2>2, <2>3 DEF Promise!Repeat, Clashed
    <2> QED
      BY <1>1, <2>4 DEF Promise!Resolve, Clashed
  <1>4. CASE ~Replays(r, s)
    <2>1. /\ pc' = [pc EXCEPT ![r] = "conflict"] /\ found' = [found EXCEPT ![r] = NoRequest]
          /\ stored' = stored
      BY <1>4 DEF settle, tableVars
    <2>2. Clashed' = Clashed \cup {r}
      BY <1>1, <2>1 DEF Clashed, TypeOK
    <2>3. found' = found
      BY <1>1, <2>1 DEF TypeOK
    <2>4. <<s, r>> \notin Alike
      BY <1>1, <1>4, ReplaysAlike
    <2>5. Promise!Clash(r)
      BY <1>2, <2>1, <2>2, <2>3, <2>4 DEF Promise!Clash, Clashed
    <2> QED
      BY <1>1, <2>5 DEF Promise!Resolve, Clashed
  <1> QED
    BY <1>3, <1>4

\* Every step of a request is a step of the promise or invisible to it.
LEMMA RequestStepMaps ==
  ASSUME IntakeInv, NEW r \in Requests, RequestStep(r)
  PROVE  [Promise!Next]_(Promise!vars)
  <1> USE DEF requestVars, tableVars
  <1>0. TypeOK /\ RequestInv(r)
    BY DEF IntakeInv
  <1>1. CASE get_endpoint(r)
    BY <1>0, <1>1, Invisible DEF get_endpoint
  <1>2. CASE Refused(r)
    BY <1>0, <1>2, Invisible DEF Refused
  <1>3. CASE find_by_idempotency_key(r)
    <2>1. CASE \E s \in Spent(r) : settle(r, s)
      BY <1>3, <2>1, SettleResolves DEF find_by_idempotency_key, Promise!Next
    <2>2. CASE pc' = [pc EXCEPT ![r] = "insert"]
               /\ UNCHANGED <<endpointVars, config, found, queued, tableVars, fresh>>
      BY <1>0, <1>3, <2>2, Invisible DEF find_by_idempotency_key
    <2> QED
      BY <1>3, <2>1, <2>2 DEF find_by_idempotency_key
  <1>4. CASE store_submission(r)
    <2>1. pc[r] \in {"insert", "resolved"} /\ found[r] = NoRequest
      BY <1>0, <1>4 DEF store_submission, ReadyToCommit, RequestInv, FoundAccepted
    <2>2. Clashed' = Clashed /\ r \notin Clashed
      BY <1>0, <1>4, <2>1 DEF store_submission, Clashed, TypeOK
    <2>3. Promise!Store(r)
      BY <1>4, <2>2, SpentIsSameKey DEF store_submission, KeyFree, Promise!Store, Clashed
    <2> QED
      BY <2>1, <2>2, <2>3 DEF Promise!Resolve, Promise!Next, Clashed
  <1>5. CASE Collides(r)
    BY <1>0, <1>5, Invisible DEF Collides, ReadyToCommit
  <1>6. CASE FindWinner(r)
    <2>1. Spent(r) # {}
      BY <1>0, <1>6 DEF FindWinner, RequestInv, WinnerKept
    <2> QED
      BY <1>6, <2>1, SettleResolves DEF FindWinner, Promise!Next
  <1>7. CASE replayed(r)
    BY <1>0, <1>7, Invisible DEF replayed
  <1>8. CASE Dies(r)
    BY <1>0, <1>8, Invisible DEF Dies, Handling
  <1>9. CASE Delivered(r)
    BY <1>9 DEF Delivered, Promise!vars
  <1>10. CASE delete_expired_submissions(r)
    <2>1. Promise!Forget(r)
      BY <1>10 DEF delete_expired_submissions, Promise!Forget
    <2> QED
      BY <2>1 DEF Promise!Next
  <1> QED
    BY <1>1, <1>2, <1>3, <1>4, <1>5, <1>6, <1>7, <1>8, <1>9, <1>10 DEF RequestStep

\* However look-ups, inserts, collisions and crashes interleave, the store behaves as if
\* each request were resolved in one step: one live submission per key, the same answer to
\* every retry and a refusal of every reuse of a key for other content.
THEOREM KeysKept == Spec => KeepsKeys
  <1>1. Init => Promise!Init
    BY DEF Init, Promise!Init
  <1>2. IntakeInv /\ [Next]_vars => [Promise!Next]_(Promise!vars)
    <2> SUFFICES ASSUME IntakeInv, [Next]_vars PROVE [Promise!Next]_(Promise!vars)
      OBVIOUS
    <2>1. CASE Management
      BY <2>1 DEF Management, requestVars, tableVars, Promise!vars
    <2>2. ASSUME NEW r \in Requests, RequestStep(r) PROVE [Promise!Next]_(Promise!vars)
      BY <2>2, RequestStepMaps
    <2>3. CASE UNCHANGED vars
      BY <2>3 DEF vars, requestVars, tableVars, Promise!vars
    <2> QED
      BY <2>1, <2>2, <2>3 DEF Next
  <1> QED
    BY <1>1, <1>2, IntakeInvariant, PTL DEF Spec, KeepsKeys, Promise!Spec

=============================================================================
