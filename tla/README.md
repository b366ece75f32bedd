# A formal model of hymical-forms

hymical-forms accepts HTML form submissions over HTTP, stores them in
PostgreSQL and delivers each one to the webhook of its endpoint. This directory
holds TLA+ modules translated from `src/hymical_forms`, TLC configurations that
check them on small instances and TLAPS proofs of their safety properties for
every value of the constants: any number of deliveries, workers, requests, keys
and proxies, bodies and windows of any size. `PROJECT.json` lists every run, the
code behind every definition, the hazards and the theorems.

## The system

| Component | State | Operations | What makes it correct |
|---|---|---|---|
| Submission intake (`api/submissions.py`, `storage.store_submission`, `ingestion.py`) | `submissions`, the delivery created with each | submit | an idempotency key is resolved once, however requests race; the answer is true |
| Endpoint configuration (`api/endpoints.py`) | `endpoints` | create, PATCH | a destination is always paired with the secret its operator was given |
| Rate limiting (`ratelimit.py`, `storage.consume_rate_limit`) | `rate_limit_counters` | charge an address, charge an endpoint, sweep | exact budgets per source and window, honest `Retry-After` |
| Delivery queue (`storage.py`, `webhooks.py`) | `webhook_deliveries`, `delivery_attempts` | claim, load, complete, replay | no delivery is lost, none is settled twice, the history is exact |
| Worker (`worker.py`, `delivery.py`) | its batch, its session's objects | poll, send, record | survives crashes, lapsed leases and failed writes |
| Retention (`retention.py`, `cli.py cleanup-submissions`) | none of its own | select and delete in batches | never takes what could still be sent |
| Management keys (`apikeys.py`, `api/security.py`, `cli.py`) | `management_api_keys` | create, revoke, authenticate, record use | a revoked key stays revoked |
| Listing and export (`api/submission_management.py`, `api/pagination.py`, `export.py`) | none | page, poll, count, stream, render | walks are ordered and complete; exports are complete or refused; a CSV can be read back |
| Body size limit and error handlers (`middleware.py`, `errors.py`) | a count and two flags per request | receive, send, handle an error | the cap holds however a body is cut; each request has exactly one answer |
| Form and URL validation (`ingestion.py`, `webhooks.py`) | none | accept or reject | no destination that names the server's own network by a literal |
| Payload and signature, configuration, schema check, health | none | pure functions, start-up | see "Not modelled" |

The parts meet in the database only. Intake commits a submission and the
delivery it owes in one transaction (a transactional outbox); workers claim
deliveries under leases and send them with no transaction open; an operator may
replay a failed delivery; a separate command deletes old submissions, which
unlinks their deliveries. Any number of API processes, workers and commands run
at once, and each SQL statement sees what was committed before it.

The hard behaviours are therefore steps of several processes between two
statements of one of them: a lease that runs out while a request is in flight,
a selection deleted by identifier later, a key looked up before the insert, a
row read without a lock and written back, a crash after a request went out and
before it was recorded. Inside one API process a second race runs: the size
limit learns of an overrun while a framework layer turns it into another error
or while an answer is already on its way.

## Modules

| Module | Models |
|---|---|
| `Webhooks` | the pure decisions of `webhooks.py` and `delivery.py`: outcomes, retryability, backoff, exhaustion |
| `Delivery` | queue, workers, replay and retention against one database |
| `Outbox` | what the queue promises, in five steps; `Delivery!KeepsPromise` is the refinement |
| `Destinations` | `validate_webhook_url` over parsed URLs; `LeadsInside` says where a host leads without DNS, which the check knows of literals only |
| `Endpoints` | creating and patching one endpoint under its row lock; extends `Destinations` |
| `Subsequences` | the part of a sequence at a set of positions, which `Ingestion` and `RateLimit` filter with, and a set in an order, which `Listing` and `Export` sort with |
| `Ingestion` | validating and normalising a form, and its fingerprint; `SameContent` is the fingerprint's reference |
| `Intake` | the submit handler from the endpoint's row to the answer; extends `Endpoints` and `Ingestion` |
| `KeyedStore` | what an idempotency key promises; `Intake!KeepsKeys` is the refinement |
| `RateLimit` | address resolution, windows, counters, the two charges and the sweep |
| `ApiKeys` | management keys, the commands and the requests that use them |
| `Export` | the CSV document an export becomes, and reading it back |
| `Listing` | paging, polling and exporting while submissions come and go; extends `Export` |
| `Ingress` | one request through the size limit, the routes and the error handlers |
| `MC*` | instances for TLC |
| `DeliveryProofs`, `IntakeProofs`, `RateLimitProofs`, `ApiKeysProofs`, `ListingProofs`, `IngressProofs` | the theorems about each state machine |
| `SubsequencesProofs`, `IngestionProofs` | the lemmas about filtering and sorting, and the theorem about the fingerprint |

Actions keep the names of the functions they translate. One action is one
committed transaction or one step of a process between two. `Null` is SQL's
NULL. Definitions introduced by a comment that begins with "Mutant" are plausible bugs; each
property has one that breaks it, listed in `PROJECT.json`.

### Delivery

`delivery` is the `webhook_deliveries` table, `history` is `delivery_attempts`,
`stored` the submissions that still exist. A worker goes through `idle`
(`Poll`), `polled` (`claim_due_deliveries` or `NothingDue`), `claimed`
(`load_submissions`, or `LoadFails` when a submission is gone) and `sending`,
where each job is completed, refused by the foreign key, failed by the database
or lost with the process. `loaded` is what the worker's SQLAlchemy session
holds of a job's `submission_id`: objects survive a commit
(`expire_on_commit=False`) and are expired by the rollback of a failed job, so
later jobs of the batch read theirs afresh (`Refresh`). `claims` are the tokens
`process_batch` captured before sending. `SKIP LOCKED` is a claim of any
non-empty part of the due rows. The sweep reads identifiers (`SweepSelect`) and deletes
them in a later statement (`SweepDelete`). `issued`, `replays`, `tried`, `faults`
and an attempt's `owned` and `final` exist for the properties and the bounds.
`tried` counts the attempts started, `Sent` the requests that went out. They differ
for `Unsendable` deliveries: a destination is kept as it was when the submission was
accepted, and one the HTTP client cannot build a request from (stored before the
validator refused it), or that makes `deliver` raise, ends every attempt as a network
error before anything is sent. A connection that was tried and failed counts as a
request.

What a destination that can be sent to answers is any member of `Results`; `deliver` says what each
network event becomes.

### Intake and Endpoints

A request reads the endpoint's three columns once, may be refused for any of
the reasons the handler has, looks its key up, inserts, and on a collision
rolls back and looks up the winner. The unique constraint is the guard
`KeyFree`. Two facts come from outside the module: a delivery leaves "owed"
when a worker delivers it, and retention's age is days while a request takes
seconds, so nothing stored while a request is being handled expires before it
ends (`fresh`; the mutant `ExpiredAtOnce` shows what that assumption carries).

A form is the sequence of pairs its body held. `fields` groups it the way the
handler's dict does, and the fingerprint is taken as free of collisions.
A text is known by what it says, its length and whether it holds a control
character or a null, which is all `_validate_field_name` and
`_validate_field_value` ask. `KeyedStore` does not use the fingerprint: it judges content by `SameContent`,
that one form is the other with pairs of different names moved past one another.

A PATCH locks the row, decides on what it read, writes every column and
commits. `told` are the pairs of destination and secret that responses carried. A URL is a
record of what `urllib` and `ipaddress` (both external) make of its text: a name
with its labels and trailing dots, a literal with its class, plain or mapped
into IPv6, or a number (an address in shortened, octal or integer notation, which the
resolver reads and `ipaddress` refuses). The check takes a number for a name, and names
are not resolved, in the model as in the code: both pass, and
`docs/reference/limitations.md:31` calls the check partial.
`NoInternalLiteral` therefore speaks of literals (`IsLiteral`) and of nothing else. The run
accepts a number as a destination, and `LeadsInside` says that it leads inside.

### RateLimit

Instants are ticks, `TicksPerSecond` to the second, so that rounding matters.
Addresses are records (family, network, host, port), so ports, IPv4-mapped
addresses and IPv6 /64s are modelled by what `address_bucket` does to them. What
the proxies append to `X-Forwarded-For` (`Forwarded`, `Peer`) is external.
`SourceOf` says who really sent an attempt; properties are stated about it and
never about the header.

`SweepSparesOpenWindows` holds under `PromptSpec`, where an attempt is charged
within `Patience` of reading its instant. The code does not bound that wait (for a
thread, then for a connection), so with windows of a second an attempt stalled for
longer than the two retained windows finds its counter swept and starts it again
from one; `api/submissions.py:70` says a sweep "can never take a window that is
still being counted in", which is true of the attempts the run admits.

### ApiKeys, Listing and Export

`ApiKeys`: a command reads its instant, then the key, and writes later, each in a step
of its own and without a lock; all processes read one clock. `_revocation_moment` reads
the key earlier still, but nothing holds the object it read, so `session.get` queries
again and the earlier value only words the output. A request reads the key, records its use in a one-column update or fails
to, in which case the rollback expires the loaded key.

`Listing`: a submission takes its timestamp when built and becomes visible when
committed, in any order. One reader at a time walks by cursor (resolved in a
statement before the page's own), walks back by `received_before`, polls forward
by `received_after`, or exports: counts in one statement, streams in another and
renders what it got with `Export`. `docs/guides/submission-management.md:92`
presents paging by time as safe; both bounds are exclusive, so what holds, and what is checked, is
that the walk loses only rows that share their instant with the last row of a full
page (`TimeWalkMissesOnlyTies`), and the poll only rows committed after it had
passed their instant (`PollMissesOnlyLate`). An export can come out short
(`export_truncated`), but by no more rows than were committed between its count and its
read, and only by the oldest (`ExportLosesOnlyToLate`); `reader.late` is the ghost that
remembers what came late for a poll or an export.

In `Export` a cell is empty, a single text or a JSON array of texts, a text may
carry the apostrophe `_safe` puts before a formula, and reading back goes by
header, as the guide does it. Two columns with one header (a form field called
`submission_id`) cannot be told apart that way; `CsvReadsBack` excludes exactly those.

### Ingress

One request, from the first message of its body to the last of its answer. `wire`
and `ended` are the server's side of the body, `received`, `overflowed` and
`replaced` the variables of `BodySizeLimitMiddleware.__call__`, `pc` the step of
the route, `raised` the exception on its way out, `pending` and `sent` the
response messages. The four kinds of route differ in when they read: `submit`
after both charges, a JSON route before anything of its own, an export while it
streams, the others never. Starlette and FastAPI are external, modelled by what
the code relies on: whatever goes wrong while FastAPI reads JSON becomes its own
400; a streaming response reads on for a disconnect, and what is raised there
cancels it, perhaps in the middle of a message; an exception after the start of
an answer can only close the connection; the handler of `Exception` stands
outside the size limit.

## Runs

| Run | Shows | Bounds |
|---|---|---|
| `delivery` | the invariants and action properties of the queue, and the refinement of `Outbox`, without assuming anything of timing | one delivery, two workers, two attempts per cycle, one replay, one fault, clock to 3 |
| `delivery_batch` | batches and sweeps of two: one job's failure or reclaim, or a destination nothing can be sent to, leaves its neighbour right; each attempt is recorded at most once | two deliveries, one of them unsendable, two workers, two attempts, sweep batches of one |
| `delivery_timely` | with workers on time: no double send, every request that went out recorded, no abandoned batch, every delivery settles | lease 2 over deadline 1, two attempts, two faults, clock to 9 |
| `intake` | idempotency as one step, collisions resolved, truthful answers; destination and secret stay paired under racing PATCHes; no literal inside becomes a destination | four requests, three on one key, one of them for other content; two operators; a destination outside, two literals inside, one number inside |
| `rate_limit` | exact budgets, refusals, `Retry-After`, sweeps that spare open windows | three attempts, windows of one and two seconds, half-second ticks, five seconds |
| `api_keys` | revocation holds once reported, is never undone and is dated no later than its first report | two keys, commands and requests |
| `listing` | walks without repeats, disorder or gaps; what time paging, polls and exports can lose; CSV exports that read back | four submissions in two instants, pages of two, exports of at most three, three filters |
| `ingress` | the cap, exactly one answer, 413 where and only where it belongs, every request answered | limit of three bytes, bodies of up to six cut in every way, every route, error and disconnect |
| `late_attempt`, `revoked_twice`, `export_truncated`, `oversized_charged` | the four disagreements below | as small as the counterexample needs |

Why the bounds are enough. The queue's properties are about one delivery and
the workers that contend for it: two workers give a superseded and a superseding
one, two attempts a retry and an exhausted allowance, one replay a second cycle,
and a lease of one tick under a clock of three lets leases lapse at every step.
Coupling between deliveries comes only from the shared batch, session and sweep,
which `delivery_batch` has two of; beyond that the proofs take over. Three
requests on one key give a winner, a retry and a conflict; a fourth without a
key shows NULLs do not collide. In `rate_limit` each budget is one, so two
attempts race for the last unit and the third crosses into the next window. Four
submissions over pages of two give a full first page, a full last page and ties
across the boundary. A body over the limit of three bytes can be cut so that
no message is over it, so that the last one is, or so that an empty one ends it. Symmetry permutes deliveries and workers, operators,
equal-content requests, or keys, and is not used with liveness.

`MaxClock`, `MaxReplays`, `MaxFaults` and the sizes of the sets are bounds of
the models; `Patience` and `Deadline` are timing assumptions. Deadlock is
checked in the delivery runs. In the others each request runs once, so the
system may stop.

### Fairness

`TimelySpec` is used for `delivery_timely` only. Its tick keeps time from
passing while a worker has spent `Deadline` on a batch, or while a free worker
leaves a due delivery unpolled: the sizing `run_worker` warns about when it is
missed. Weak fairness is on each worker, because `run_worker` survives every
exception and `deliver` is bounded by its deadline, and on the tick. Crashed
workers are restarted by their supervisor. Nothing is assumed of submitters,
operators, sweeps or faults. `EverySubmissionSettles` speaks of what was accepted
at instant 0, so that the bounded clock leaves room for two faults, both attempts
and the backoff. `PromptSpec` of `RateLimit` has no fairness: it adds that an
attempt is charged within `Patience` of arriving. `LiveSpec` of `Ingress` is weakly
fair to `ServerStep` only, because the event loop runs what can run; the body's
messages come from the client, and `EveryRequestAnswered` allows a client to stay
and never send the rest.

## Disagreements found

- `late_attempt`: a superseded worker's completion names the submission its
  session loaded; if that has been delivered and deleted meanwhile, the foreign
  key refuses the attempt and the request is on no record, though
  `models.py:356` has "one row per request that genuinely went out".
- `revoked_twice`: two `revoke-key` commands can both read an active key, and the
  second moves `revoked_at`, which `storage.py:1070` says must not happen. What remains
  true is `MomentWithinReport`: the moment never moves past the first report.
- `export_truncated`: a submission committed between an export's count and its
  stream makes it end at the maximum without its oldest match, where
  `config.py:176` promises a complete export or an error. What remains true is
  `ExportLosesOnlyToLate`.
- `oversized_charged`: a chunked body without a declared length is found too long
  only while `submit` parses it, after both budgets were charged, where
  `docs/guides/rate-limiting.md:68` says an oversized body "spends nothing".

Two more have no run of their own. The sentence of `models.py:356`, which
`docs/guides/webhooks.md:149` repeats ("one row per request that actually went out"),
fails the other way round as well: an attempt at a destination no request can be built
from is recorded although nothing was sent (`delivery.py:115`; `worker.py:172` does the
same for an exception `deliver` does not expect), as lines 172-175 of the same guide
describe. In the model these are the `Unsendable` deliveries, and `AttemptsAccounted`
says what is true instead: each attempt is recorded at most once, under a claim of its
own, and there are rows without a request for `Unsendable` deliveries only.

And `_replayed` looks the delivery up after the submission, so a replay of a delivered submission that retention deletes between
the two statements reports `queued: false`. `QueuedMeansOwed` therefore speaks
of submissions that still exist.

## Proofs

Every safety property below holds for all values of the constants that satisfy the
named assumptions of the modules: the bounds `config.py` enforces on its settings
(`RetryPolicyAssumption`, `DeliveryAssumption`, `RateLimitAssumption`,
`IngressAssumption`), the shapes of what urllib, ipaddress and the form parser return
(`EndpointAssumption`, `IntakeAssumption`, `AddressAssumption`, `ListingAssumption`),
that no fixed CSV header begins like a formula (`ExportAssumption`), and two statements
about time, introduced where they are used. Each inductive invariant was checked by
TLC on the component's run before it was proved.

### The delivery queue: `DeliveryProofs`

| Theorem | States |
|---|---|
| `TypeCorrect` | `Spec => []TypeOK` |
| `QueueInvariant`, `LedgerInvariant` | the two inductive invariants, `QueueInv` and `Ledger` |
| `RowsAgree`, `RetentionSafe`, `SelectionSafe`, `ClaimExclusive`, `HistoryExact` | `RowConsistent`, `UnlinkedOnlyDelivered`, `SelectionStillEligible`, `OneOwner`, `HistoryNumbered` |
| `AttemptsInAccount` | `AttemptsAccounted` |
| `AllowanceHolds`, `VerdictsExplained` | `AllowanceKept`, `VerdictJustified` |
| `DeliveredForGood`, `Fenced` | the action properties `DeliveredIsFinal` and `SupersededChangesNothing` |
| `ImplementsOutbox` | `Spec => KeepsPromise` |
| `TimelyInvariant`, `SentByOne`, `RequestsRecorded`, `BatchesLoad` | if `Deadline < Lease`, `TimelySpec` keeps every claim on its row, and with it `NoDoubleSend`, `EveryRequestRecorded`, `LoadedBatchComplete` |

`UnlinkedOnlyDelivered` is not inductive: a sweep deletes what it selected earlier.
`SelectedDelivered` carries the fact across the gap (what was selected is delivered),
and is itself preserved because nothing leaves `delivered`: a replay needs `failed`, a
claim needs `pending` or `processing`, and a completion changes the state only for the
owner of the claim. That last step needs `RowConsistent`: a token is on the row exactly
while it is processing, so an owner never meets a delivered row. `OneOwner` needs every
token in use to have been issued, which makes the next one fresh. `HistoryExact` needs
the attempt number taken and the count written in one step. `Fenced` adds that a worker
lets go of a job only by completing, failing or dying, and `IdleHoldsNothing` that a
claim never overwrites an older batch. The refinement maps `pending` and `processing` to
"owed"; claims, polls, faults and selections stutter, and each other action is one step
of `Outbox`.

`Ledger` relates a row to its history: the owned attempts are at most `MaxAttempts` for
each replay plus the attempts of the cycle, a delivered row has one owned success and
no other row has any, and a failed one has a final refusal or a spent cycle. It is
preserved because each step changes a row together with at most one attempt
(`LedgerStep`), and a superseded attempt is owned by nobody and leaves the row's cycle
alone.

`AttemptsInAccount` is what holds of the history whatever fails. It is about attempts, not
requests: attempts at an `Unsendable` delivery end before anything is sent. Each
step moves one worker from a claim to an attempt (`Sending`), from an attempt to a record
(`Recording`), adds a claim (`Claiming`) or lets workers go (`Letting`); `AccountStep`
shows there is nothing else, and `AccountKept` that each keeps the two sums. The set of
workers may be infinite, so `Accounted` also keeps those that hold a job finite.

`Deadline < Lease` is the sizing `run_worker` asks of its operator and warns about
when it is missed (`worker.py:194`); without it `late_attempt` is a counterexample. Under
it `OnTime` bounds how old a batch is, so the lease `ClaimsHeld` finds on each row has
not run out and nobody can have claimed the row again.

### Intake, endpoints and the fingerprint: `IntakeProofs`, `IngestionProofs`

| Theorem | States |
|---|---|
| `IntakeInvariant`, `IntakeTypeCorrect` | `IntakeInv`, `TypeOK` |
| `SignedRight`, `NoLiteralInside`, `CollisionsResolve`, `AnswersTrue` | `SignedForItsReceiver`, `NoInternalLiteral`, `CollisionResolved`, `QueuedMeansOwed` |
| `SecretsFollowDestinations` | the action property `SecretChangesWithDestination` |
| `KeysKept` | `Spec => KeepsKeys`, the refinement of `KeyedStore` |
| `FingerprintIsExact` | for all forms, equal fingerprints exactly when `SameContent` |

A PATCH decides on what it read, so the invariant needs `RowLocked`: while an operator
holds the row, the row is still what that operator read. Every pair of destination and
secret on the endpoint, in a request or on a delivery was then told to somebody
(`DestinationTold`, `ConfigTold`, `TargetTold`) and passed validation (`ToldPermitted`).
For a host that is a literal this rules out one that leads inside (`LiteralsJudged`);
of numbers and names it says nothing.
`CollisionResolved` rests on `WinnersFresh`: whoever spends the key of a request between
its lookup and the end of its transaction was stored while it ran, and retention
spares those. `KeyedStore` judges content by `SameContent` and `Intake` by the
fingerprint; `FingerprintIsExact` closes the distance. A form is known by its names in
order of first appearance and the values under each; the pair at position *i* is the
*k*-th of its name, and `moved` sends it to the *k*-th of that name in the other form.
That two such enumerations agree is counting, which `SubsequencesProofs` does once
(`Rank`, `Nth`).

### Rate limiting: `RateLimitProofs`

| Theorem | States |
|---|---|
| `ClientIsWhoTheProxySaw` | `client_address` is the address the outermost trusted proxy saw |
| `AttemptInvariant`, `RateTypeCorrect`, `RetryAfterExact` | of `Spec`: `AttemptInv`, `TypeOK`, `RetryAfterHonest` |
| `RateInvariant`, `BudgetsHold`, `RefusalsJust`, `SweepsSpareOpenWindows` | of `PromptSpec`: `RateInv`, `WithinBudget`, `RefusedOnlyWhenSpent`, `SweepSparesOpenWindows` |

The properties are about sources, the counters about what a header says; the first
theorem connects them for any number of proxies and whatever the client wrote, blank
entries included. `CountsExact` says that a counter is the number of attempts it let
through until it passes its budget, and that a window without a counter has let nobody
through or is `Closed`: so long past that no attempt in time can still be charged to it.
This is where `PatienceAssumption` enters (an attempt is charged within the longest
window of reading its instant); the sweep keeps two. `RetryAfterExact` is arithmetic about
`window_start` and needs no assumption about time.

### Management keys and the size limit: `ApiKeysProofs`, `IngressProofs`

| Theorem | States |
|---|---|
| `KeysTypeCorrect`, `KeyInvariant` | `TypeOK`, `KeyInv` |
| `RevocationHolds`, `NeverReinstated` | `ReportedRevocationHolds`, `RevokedForGood` |
| `MomentBounded` | `MomentWithinReport` |
| `IngressInvariant` | `IngressInv` |
| `AnsweredOnce`, `LimitHolds`, `TooLargeIsTold` | `OneAnswer`, `CapHolds`, the action property `RefusedAsTooLarge` |

A command that finds its key revoked reports it without writing. `LoadedStillTrue` is
what makes that sound: a key loaded as revoked is still revoked. It would be false of
the moment, which is what `revoked_twice` shows; `StaleBeforeReport` bounds how far the
moment can move, because a command that loaded the key as active took its own instant
before the load, and so before any report.

`IngressInv` says that what was received and what is on the wire add up to the body and
that the overrun flag is up exactly past the limit (`Counted`); that what was sent,
followed by what is pending, is one response unless the answer was replaced
(`Sending`); and that 413 is in an exception or a response only after an overrun, while
an exception no handler inside the limit catches comes before any answer only without
one (`LimitTold`).

### Listing and export: `ListingProofs`

| Theorem | States |
|---|---|
| `ReadInvariant` | `ReadInv` |
| `WalksInOrder`, `WalksEndComplete`, `TimeWalksLoseOnlyTies`, `PollsLoseOnlyLate` | `WalkOrdered`, `WalkComplete`, `TimeWalkMissesOnlyTies`, `PollMissesOnlyLate` |
| `ExportsLoseOnlyToLate` | `ExportLosesOnlyToLate` |
| `ExportsReadBack` | `CsvReadsBack` |

A page is the newest rows ahead of the reader in order; a page that is not full leaves
none ahead, and a full one leaves only rows older than its last (`PageIsNewestAhead`).
That a finite set can be put in a total order is counting once more (`InOrderSorts`).
The invariant then says where each kind of reader is: a cursor is the last row seen
(`CursorIsLast`), a time bound is its instant (`BoundIsLast`), a poll's bound is the
newest instant seen (`PollBound`); and that what the reader owes and has not returned is
still ahead, was cut off by a bound or came late (`CursorRest`, `OlderRest`, `PollRest`).
Writers keep it because a submission takes its instant once, before anybody can read
it, and a deleted one never comes back (`WritersKeepReads`).

For exports `ExportRest` adds that, between the count and the read, what matches and did
not come late fits into the maximum: a deletion only takes from it, and a commit adds
only to what is late. The rows of a full export are distinct, so what it leaves out is
no more than what came late (`LeavesOutNoMore`). `ExportsReadBack` needs no invariant
beyond types: every name of every row has a column, the place where it is first met, and
a header that stands alone finds it.

### Only model-checked

- Liveness (`EverySubmissionSettles`, `EveryRequestAnswered`): fairness is beyond this
  prover.

Every other property of a passing run is the statement of a theorem. The type invariants
of `Intake`, `RateLimit` and `ApiKeys` are theorems only, for every instance.

## Not modelled

- The webhook payload and its signature (`build_payload`, `serialize_payload`,
  `sign`): formatting and cryptography; which secret signs is
  `SignedForItsReceiver`.
- JSON exports, file names and the wording of the error envelope: the structure
  that goes in comes out.
- The schema check and migrations: a comparison of revisions at start-up, and DDL
  that runs while nothing else does.
- Reading configuration from the environment; its bounds are the models'
  assumptions.
- Health checks, and the lists and detail views of endpoints, deliveries and
  attempts, which change nothing; their cursors share `_page_after` with `Listing`.
- Connection pooling, which appears only as delay. SQLite is documented as a
  development database; the models are of PostgreSQL.
- The shapes of endpoint identifiers and idempotency keys: a request that fails
  them is one of the refusals of `Intake` and of the errors of `Ingress`.
- Rate limiting composed with intake: `Ingress` has the order of the charges and
  of the store, `RateLimit` and `Intake` what each does; nothing else connects them.

## Plan

Every module of the plan is written, checked and proved about. What could be added:
the deliveries and endpoints listings, whose cursors share `_page_after` with
`Listing`, as instances of it; and a proof that `Deadline < Lease` is also what
`EverySubmissionSettles` needs, if a prover for fairness becomes available.
