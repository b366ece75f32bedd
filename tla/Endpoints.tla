----------------------------- MODULE Endpoints ------------------------------
(***************************************************************************)
(* One endpoint's configuration and the two handlers of api/endpoints.py   *)
(* that change it.  create_endpoint is one transaction.  The PATCH handler *)
(* reads the row with FOR UPDATE, decides from what it read and writes it  *)
(* back, so on PostgreSQL it holds the row's lock between two steps.       *)
(***************************************************************************)
EXTENDS Integers, Destinations

CONSTANTS Operators,    \* management requests, each a POST or a PATCH
          Urls,         \* the destinations callers ask for
          PostBodies,   \* the bodies of POST requests
          PatchBodies,  \* the bodies of PATCH requests
          NoUrl,        \* a webhook_url of null
          Unset,        \* a field the PATCH body does not carry
          NoOperator    \* nobody holds the row's lock

\* The body of a POST, and of a PATCH, in which either field may be absent.
CreateEndpointRequest == [is_active : BOOLEAN, webhook_url : Urls \cup {NoUrl}]
UpdateEndpointRequest == [is_active : BOOLEAN \cup {Unset},
                          webhook_url : Urls \cup {NoUrl, Unset}]

ASSUME EndpointAssumption ==
         /\ PostBodies \subseteq CreateEndpointRequest
         /\ PatchBodies \subseteq UpdateEndpointRequest
         /\ \A url \in Urls : IsHost(url.host)
         /\ NoUrl \notin Urls
         /\ Unset \notin Urls \cup {NoUrl}
         /\ Unset \notin BOOLEAN
         /\ NoOperator \notin Operators

VARIABLES endpoint,  \* the row of endpoints
          lock,      \* who holds the row's FOR UPDATE lock
          op,        \* where each management request is
          minted,    \* how many signing secrets have been generated
          told       \* the (destination, secret) pairs management responses carried

endpointVars == <<endpoint, lock, op, minted, told>>

\* Secrets are numbered as they are generated; 0 is a webhook_secret of null.
NoSecret == 0

Endpoint == [exists : BOOLEAN, is_active : BOOLEAN,
             webhook_url : Urls \cup {NoUrl}, webhook_secret : Nat]

NoEndpoint == [exists |-> FALSE, is_active |-> FALSE,
               webhook_url |-> NoUrl, webhook_secret |-> NoSecret]

Operation == [pc : {"ready", "locked", "done"}, read : Endpoint,
              payload : UpdateEndpointRequest]

NoPayload == [is_active |-> Unset, webhook_url |-> Unset]
Ready     == [pc |-> "ready", read |-> NoEndpoint, payload |-> NoPayload]
Done      == [pc |-> "done", read |-> NoEndpoint, payload |-> NoPayload]

\* An endpoint that was created before, with the secret its creator was told.
Created == {[exists |-> TRUE, is_active |-> payload.is_active,
             webhook_url |-> payload.webhook_url, webhook_secret |-> 1] :
            payload \in {p \in PostBodies : p.webhook_url # NoUrl /\ ~Rejected(p.webhook_url)}}

\* Either nothing exists yet, or an endpoint with a destination does.
EndpointInit ==
  /\ \/ endpoint = NoEndpoint /\ minted = 0 /\ told = {}
     \/ /\ endpoint \in Created
        /\ minted = 1
        /\ told = {<<endpoint.webhook_url, 1>>}
  /\ lock = NoOperator
  /\ op = [o \in Operators |-> Ready]

-----------------------------------------------------------------------------
new_signing_secret == minted + 1

\* A destination that may be stored.
Permitted(url) == url # NoUrl => ~Rejected(url)

(***************************************************************************)
(* POST: the destination is validated and given a secret, the insert is    *)
(* flushed against the primary key and committed.                          *)
(***************************************************************************)
create_endpoint(o, payload) ==
  LET url == payload.webhook_url IN
  /\ op[o].pc = "ready"
  /\ Permitted(url)
  /\ ~endpoint.exists
  /\ endpoint' = [exists |-> TRUE, is_active |-> payload.is_active, webhook_url |-> url,
                  webhook_secret |-> IF url = NoUrl THEN NoSecret ELSE new_signing_secret]
  /\ minted' = IF url = NoUrl THEN minted ELSE minted + 1
  /\ told' = IF url = NoUrl THEN told ELSE told \cup {<<url, new_signing_secret>>}
  /\ op' = [op EXCEPT ![o] = Done]
  /\ UNCHANGED lock

\* 401, 404, 409 or 422 before anything was written; whether the body and the
\* credential are good is the caller's choice.
ManagementRefused(o) ==
  /\ op[o].pc = "ready"
  /\ op' = [op EXCEPT ![o] = Done]
  /\ UNCHANGED <<endpoint, lock, minted, told>>

-----------------------------------------------------------------------------
\* Mutant: the row is read without FOR UPDATE.
Unlocked == TRUE

\* SELECT ... FOR UPDATE waits for the transaction that holds the row.
RowAvailable == lock = NoOperator

get_endpoint_for_update(o, payload) ==
  /\ op[o].pc = "ready"
  /\ endpoint.exists
  /\ RowAvailable
  /\ lock' = o
  /\ op' = [op EXCEPT ![o] = [pc |-> "locked", read |-> endpoint, payload |-> payload]]
  /\ UNCHANGED <<endpoint, minted, told>>

\* A destination was sent and differs from the one that was read.
DestinationChanges(o) ==
  op[o].payload.webhook_url \notin {Unset, op[o].read.webhook_url}

\* Mutant: a new destination keeps the secret of the old one.
SecretCarriedOver(o) ==
  IF ~DestinationChanges(o) THEN op[o].read.webhook_secret
  ELSE IF op[o].payload.webhook_url = NoUrl THEN NoSecret
       ELSE IF op[o].read.webhook_secret # NoSecret THEN op[o].read.webhook_secret
            ELSE new_signing_secret

\* The secret a PATCH leaves: a new destination always gets a new one.
PatchedSecret(o) ==
  IF ~DestinationChanges(o) THEN op[o].read.webhook_secret
  ELSE IF op[o].payload.webhook_url = NoUrl THEN NoSecret ELSE new_signing_secret

PatchedEndpoint(o) ==
  [exists         |-> TRUE,
   is_active      |-> IF op[o].payload.is_active = Unset THEN op[o].read.is_active
                      ELSE op[o].payload.is_active,
   webhook_url    |-> IF DestinationChanges(o) THEN op[o].payload.webhook_url
                      ELSE op[o].read.webhook_url,
   webhook_secret |-> PatchedSecret(o)]

\* PATCH decides, writes and commits; the commit releases the lock.
update_endpoint(o) ==
  LET generates == DestinationChanges(o) /\ op[o].payload.webhook_url # NoUrl IN
  /\ op[o].pc = "locked"
  /\ DestinationChanges(o) => Permitted(op[o].payload.webhook_url)
  /\ endpoint' = PatchedEndpoint(o)
  /\ minted' = IF generates THEN minted + 1 ELSE minted
  /\ told' = IF generates THEN told \cup {<<op[o].payload.webhook_url, new_signing_secret>>}
             ELSE told
  /\ lock' = NoOperator
  /\ op' = [op EXCEPT ![o] = Done]

\* The destination is refused, or the request dies: closing the session rolls back.
PatchRollsBack(o) ==
  /\ op[o].pc = "locked"
  /\ lock' = NoOperator
  /\ op' = [op EXCEPT ![o] = Done]
  /\ UNCHANGED <<endpoint, minted, told>>

EndpointNext ==
  \E o \in Operators :
    \/ \E payload \in PostBodies : create_endpoint(o, payload)
    \/ ManagementRefused(o)
    \/ \E payload \in PatchBodies : get_endpoint_for_update(o, payload)
    \/ update_endpoint(o)
    \/ PatchRollsBack(o)

-----------------------------------------------------------------------------
\* Every variable of the endpoint's side has its type.
EndpointTypeOK ==
  /\ endpoint \in Endpoint
  /\ lock \in Operators \cup {NoOperator}
  /\ op \in [Operators -> Operation]
  /\ minted \in Nat
  /\ told \subseteq (Urls \X Nat)

\* A signing secret changes only together with its destination, whatever two
\* operators do at the same time (update_endpoint: "An unchanged destination ...
\* keeps its secret untouched"; get_endpoint_for_update says what would break it).
SecretChangesWithDestination ==
  [][endpoint.exists /\ endpoint'.webhook_secret # endpoint.webhook_secret =>
       endpoint'.webhook_url # endpoint.webhook_url]_endpointVars

=============================================================================
