----------------------------- MODULE RateLimit ------------------------------
(***************************************************************************)
(* The abuse limits in front of submit: ratelimit.py, the _consume and     *)
(* _sweep_old_windows of api/submissions.py and the counters of storage.py *)
(* that every API process shares.                                          *)
(*                                                                         *)
(* A request reads its instant once, spends a unit of its source's budget, *)
(* is resolved to an endpoint, spends a unit of that and may then sweep    *)
(* old counters.  Each of these is a transaction of its own and the        *)
(* request may wait for a thread or a connection before any of them.       *)
(* Instants are ticks, several to a second, because windows start on whole *)
(* seconds and requests do not.                                            *)
(***************************************************************************)
EXTENDS Integers, Sequences, FiniteSets, Subsequences

CONSTANTS Requests,          \* attempts to submit
          TicksPerSecond,
          IpRequests,        \* rate_limit_ip_requests
          IpWindow,          \* rate_limit_ip_window_seconds
          EndpointRequests,  \* rate_limit_endpoint_requests
          EndpointWindow,    \* rate_limit_endpoint_window_seconds
          TrustedProxyHops,  \* trusted_proxy_hops
          ProxyAddress,      \* the address of the operator's own proxies
          Written,           \* the X-Forwarded-For entries each client wrote itself
          SeenAddress,       \* the address the outermost trusted hop saw for each request
          SourceOf,          \* the client behind each request
          Endpoints,         \* the endpoints that exist
          EndpointOf,        \* the identifier each request names
          Patience,          \* ticks within which a request is charged (PromptSpec only)
          MaxClock           \* bound: the last instant of a behaviour

ASSUME RateLimitAssumption ==
         /\ {TicksPerSecond, IpRequests, IpWindow, EndpointRequests, EndpointWindow}
              \subseteq Nat \ {0}
         /\ {TrustedProxyHops, Patience, MaxClock} \subseteq Nat
         /\ IsFiniteSet(Requests)

VARIABLES clock,     \* the instant utcnow() returns
          counters,  \* the rate_limit_counters table: attempts by primary key
          pc,        \* where each request is; "over" once the limiters are done with it
          now,       \* the instant each request read
          passed,    \* the limiters that let each request through
          refusal    \* the limiter that refused it and the Retry-After it was given

vars == <<clock, counters, pc, now, passed, refusal>>

Limiter    == {"ip", "endpoint"}
NotRefused == [limiter |-> "none", retry_after |-> 0]

BudgetOf(limiter) == IF limiter = "ip" THEN IpRequests ELSE EndpointRequests
Window(limiter)    == IF limiter = "ip" THEN IpWindow ELSE EndpointWindow

Init ==
  /\ clock = 0
  /\ counters = [k \in {} |-> 0]
  /\ pc = [r \in Requests |-> "new"]
  /\ now = [r \in Requests |-> 0]
  /\ passed = [r \in Requests |-> {}]
  /\ refusal = [r \in Requests |-> NotRefused]

-----------------------------------------------------------------------------
(***************************************************************************)
(* Which address a request is counted under.                               *)
(***************************************************************************)
Blank         == [family |-> "blank", net |-> 0, host |-> 0, port |-> 0]
UNKNOWN_CLIENT == [family |-> "text", net |-> 0, host |-> 0, port |-> 0]

Address == [family : {"v4", "mapped", "v6", "text"}, net : Nat, host : Nat, port : Nat]

\* What reaches the process: each proxy appends the address it saw.
Peer(r) == IF TrustedProxyHops = 0 THEN SeenAddress[r] ELSE ProxyAddress

Forwarded(r) ==
  IF TrustedProxyHops = 0 THEN Written[r]
  ELSE Written[r] \o <<SeenAddress[r]>> \o [i \in 1..TrustedProxyHops - 1 |-> ProxyAddress]

\* The header split at its commas, without the entries that are blank.
Hops(forwarded_for) ==
  SubSeqAt(forwarded_for, {i \in DOMAIN forwarded_for : forwarded_for[i] # Blank})

\* Mutant: the first entry is the client.
LeftmostEntry(peer, forwarded_for) ==
  LET hops == Hops(forwarded_for)
  IN  IF TrustedProxyHops > 0 /\ Len(hops) > 0 THEN hops[1]
      ELSE IF peer = Blank THEN UNKNOWN_CLIENT ELSE peer

\* Counted from the right; a chain shorter than configured is not believed.
client_address(peer, forwarded_for) ==
  LET hops == Hops(forwarded_for)
  IN  IF TrustedProxyHops > 0 /\ Len(hops) >= TrustedProxyHops
      THEN hops[Len(hops) - TrustedProxyHops + 1]
      ELSE IF peer = Blank THEN UNKNOWN_CLIENT ELSE peer

\* Ports go, an IPv4-mapped address is its IPv4 address, an IPv6 address its /64.
address_bucket(address) ==
  CASE address.family \in {"v4", "mapped"} -> <<"v4", address.host>>
    [] address.family = "v6"               -> <<"v6", address.net>>
    [] address.family = "text"             -> <<"text", address.host>>

\* A source is what one subscriber can call its own: an IPv4 address or an IPv6 /64.
ASSUME AddressAssumption ==
         /\ ProxyAddress \in Address
         /\ SeenAddress \in [Requests -> Address]
         /\ Written \in [Requests -> Seq(Address \cup {Blank})]
         /\ \A q, r \in Requests :
              SourceOf[q] = SourceOf[r] <=>
                address_bucket(SeenAddress[q]) = address_bucket(SeenAddress[r])

\* The digest of the bucket tells exactly the buckets apart.
ip_subject(address) == address_bucket(address)

subject(r, limiter) ==
  IF limiter = "ip" THEN ip_subject(client_address(Peer(r), Forwarded(r)))
  ELSE EndpointOf[r]

-----------------------------------------------------------------------------
(***************************************************************************)
(* Windows.                                                                *)
(***************************************************************************)
window_start(instant, seconds) ==
  LET elapsed == instant \div TicksPerSecond
  IN  (elapsed - (elapsed % seconds)) * TicksPerSecond

\* Mutant: whole seconds truncated instead of rounded up.
SecondsTruncated(instant, start, seconds) ==
  LET whole == (start + seconds * TicksPerSecond - instant) \div TicksPerSecond
  IN  IF whole > 1 THEN whole ELSE 1

seconds_until_window_ends(instant, start, seconds) ==
  LET remaining == start + seconds * TicksPerSecond - instant
      ceiling   == (remaining + TicksPerSecond - 1) \div TicksPerSecond
  IN  IF ceiling > 1 THEN ceiling ELSE 1

CounterKey(r, limiter) ==
  <<limiter, subject(r, limiter), window_start(now[r], Window(limiter))>>

-----------------------------------------------------------------------------
(***************************************************************************)
(* Charging.                                                               *)
(***************************************************************************)
Tick ==
  /\ clock < MaxClock
  /\ clock' = clock + 1
  /\ UNCHANGED <<counters, pc, now, passed, refusal>>

Arrive(r) ==
  /\ pc[r] = "new"
  /\ now' = [now EXCEPT ![r] = clock]
  /\ pc' = [pc EXCEPT ![r] = "ip"]
  /\ UNCHANGED <<clock, counters, passed, refusal>>

\* Mutant: the attempt that reaches the limit is refused.
AllowedBelow(used, limiter) == used < BudgetOf(limiter)

\* RateLimitDecision: the unit is spent either way.
allowed(used, limiter) == used <= BudgetOf(limiter)

\* One upsert inserts the row or increments it and returns the new value.
consume_rate_limit(key) ==
  [k \in DOMAIN counters \cup {key} |->
     IF k # key THEN counters[k] ELSE IF key \in DOMAIN counters THEN counters[key] + 1 ELSE 1]

consume(r, limiter, next) ==
  LET key   == CounterKey(r, limiter)
      start == window_start(now[r], Window(limiter))
  IN
  /\ pc[r] = limiter
  /\ counters' = consume_rate_limit(key)
  /\ \/ /\ allowed(counters'[key], limiter)
        /\ passed' = [passed EXCEPT ![r] = @ \cup {limiter}]
        /\ pc' = [pc EXCEPT ![r] = next]
        /\ UNCHANGED refusal
     \/ /\ ~allowed(counters'[key], limiter)
        /\ refusal' = [refusal EXCEPT ![r] =
             [limiter     |-> limiter,
              retry_after |-> seconds_until_window_ends(now[r], start, Window(limiter))]]
        /\ pc' = [pc EXCEPT ![r] = "over"]
        /\ UNCHANGED passed
  /\ UNCHANGED <<clock, now>>

ConsumeIp(r)       == consume(r, "ip", "resolve")
ConsumeEndpoint(r) == consume(r, "endpoint", "sweep")

EndpointExists(r) == EndpointOf[r] \in Endpoints

\* A guessed or malformed identifier ends the attempt before the second charge.
Resolve(r) ==
  /\ pc[r] = "resolve"
  /\ pc' = [pc EXCEPT ![r] = IF EndpointExists(r) THEN "endpoint" ELSE "over"]
  /\ UNCHANGED <<clock, counters, now, passed, refusal>>

-----------------------------------------------------------------------------
(***************************************************************************)
(* _sweep_old_windows.                                                     *)
(***************************************************************************)
\* Mutant: one window is kept.
OneWindow == 1

SWEEP_RETAINED_WINDOWS == 2

LongestWindow == IF IpWindow > EndpointWindow THEN IpWindow ELSE EndpointWindow

\* One longest window is what the sweep allows an attempt to take.
ASSUME PatienceAssumption == Patience <= LongestWindow * TicksPerSecond

delete_expired_rate_limit_counters(before) ==
  [k \in {key \in DOMAIN counters : key[3] >= before} |-> counters[k]]

sweep_old_windows(r) ==
  /\ pc[r] = "sweep"
  /\ counters' = delete_expired_rate_limit_counters(
                   now[r] - SWEEP_RETAINED_WINDOWS * LongestWindow * TicksPerSecond)
  /\ pc' = [pc EXCEPT ![r] = "over"]
  /\ UNCHANGED <<clock, now, passed, refusal>>

\* Most requests do not sweep, and one whose sweep fails goes on.
SkipsSweep(r) ==
  /\ pc[r] = "sweep"
  /\ pc' = [pc EXCEPT ![r] = "over"]
  /\ UNCHANGED <<clock, counters, now, passed, refusal>>

\* The database fails a charge, or the process dies: the attempt is over.
AttemptFails(r) ==
  /\ pc[r] \in {"ip", "resolve", "endpoint", "sweep"}
  /\ pc' = [pc EXCEPT ![r] = "over"]
  /\ UNCHANGED <<clock, counters, now, passed, refusal>>

-----------------------------------------------------------------------------
RequestStep(r) ==
  \/ Arrive(r)
  \/ ConsumeIp(r)
  \/ Resolve(r)
  \/ ConsumeEndpoint(r)
  \/ sweep_old_windows(r)
  \/ SkipsSweep(r)
  \/ AttemptFails(r)

Next == Tick \/ \E r \in Requests : RequestStep(r)

Spec == Init /\ [][Next]_vars

\* An attempt that is not charged yet holds time up after Patience ticks.
Charging(r) == pc[r] \in {"ip", "resolve", "endpoint", "sweep"}

PromptTick == Tick /\ \A r \in Requests : Charging(r) => clock < now[r] + Patience

PromptNext == PromptTick \/ \E r \in Requests : RequestStep(r)

PromptSpec == Init /\ [][PromptNext]_vars

-----------------------------------------------------------------------------
(***************************************************************************)
(* Properties.                                                             *)
(***************************************************************************)

\* Every variable has its type.
TypeOK ==
  /\ clock \in Nat
  /\ \A k \in DOMAIN counters : k[1] \in Limiter /\ k[3] \in Nat /\ counters[k] \in Nat \ {0}
  /\ pc \in [Requests -> {"new", "ip", "resolve", "endpoint", "sweep", "over"}]
  /\ now \in [Requests -> Nat]
  /\ passed \in [Requests -> SUBSET Limiter]
  /\ refusal \in [Requests -> [limiter : Limiter \cup {"none"}, retry_after : Nat]]

\* The budget two attempts share, judged by who really sent them and when.
SharesBudget(q, r, limiter) ==
  /\ IF limiter = "ip" THEN SourceOf[q] = SourceOf[r] ELSE EndpointOf[q] = EndpointOf[r]
  /\ now[q] \div (Window(limiter) * TicksPerSecond) = now[r] \div (Window(limiter) * TicksPerSecond)

PassedWith(r, limiter) ==
  {q \in Requests : limiter \in passed[q] /\ SharesBudget(q, r, limiter)}

\* No source and no endpoint gets more attempts through in a window than its limit,
\* however the attempts race, whatever a client writes into X-Forwarded-For, however
\* its address is spelled and whenever a sweep runs (consume_rate_limit,
\* client_address, address_bucket).
WithinBudget ==
  \A r \in Requests, limiter \in Limiter :
    Cardinality(PassedWith(r, limiter)) <= BudgetOf(limiter)

\* An attempt is refused only when others of the same source, or for the same
\* endpoint, really used up that window: nobody spends somebody else's budget.
RefusedOnlyWhenSpent ==
  \A r \in Requests :
    refusal[r].limiter # "none" =>
      Cardinality(PassedWith(r, refusal[r].limiter)) = BudgetOf(refusal[r].limiter)

\* Retry-After reaches the next window and does not overshoot it by a second: one
\* second less would be refused again (seconds_until_window_ends).
RetryAfterHonest ==
  \A r \in Requests :
    refusal[r].limiter # "none" =>
      LET length == Window(refusal[r].limiter) * TicksPerSecond
          retry  == now[r] + refusal[r].retry_after * TicksPerSecond
      IN  /\ retry \div length = now[r] \div length + 1
          /\ (retry - TicksPerSecond) \div length = now[r] \div length

\* _SWEEP_RETAINED_WINDOWS: "a sweep can never take a window that is still being
\* counted in", that is, the counter of an attempt still to be charged to it.
SweepSparesOpenWindows ==
  [][\A r \in Requests, limiter \in Limiter :
       pc[r] = limiter /\ CounterKey(r, limiter) \in DOMAIN counters =>
         CounterKey(r, limiter) \in DOMAIN counters']_vars

=============================================================================
