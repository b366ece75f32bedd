--------------------------- MODULE RateLimitProofs ---------------------------
(***************************************************************************)
(* Theorems about RateLimit, for any finite set of attempts, any limits,   *)
(* windows and number of proxies, any headers and any length of behaviour. *)
(***************************************************************************)
EXTENDS RateLimit, SubsequencesProofs

-----------------------------------------------------------------------------
(***************************************************************************)
(* Window arithmetic.                                                      *)
(***************************************************************************)
\* Multiples are in the order of their factors.
LEMMA TimesOrdered ==
  ASSUME NEW x \in Int, NEW y \in Int, NEW d \in Nat, x <= y
  PROVE  x * d <= y * d
  OBVIOUS

\* Division by a window or by a second.
LEMMA Division ==
  ASSUME NEW a \in Int, NEW d \in Nat \ {0}
  PROVE  /\ a \div d \in Int
         /\ a % d = a - (a \div d) * d
         /\ (a \div d) * d <= a
         /\ a < (a \div d) * d + d
  <1>1. a \div d \in Int /\ a % d \in 0..(d - 1)
    OBVIOUS
  <1>2. a % d = a - (a \div d) * d
    OBVIOUS
  <1>3. (a \div d) * d \in Int
    BY <1>1
  <1> DEFINE m == (a \div d) * d
             r == a % d
  <1> HIDE DEF m, r
  <1>4. r = a - m /\ m \in Int /\ r \in 0..(d - 1)
    BY <1>1, <1>2, <1>3 DEF m, r
  <1>5. m <= a /\ a < m + d
    BY <1>4
  <1> QED
    BY <1>1, <1>2, <1>5 DEF m

\* The multiple an instant follows tells its quotient.
LEMMA QuotientIs ==
  ASSUME NEW a \in Int, NEW d \in Nat \ {0}, NEW k \in Int, k * d <= a, a < k * d + d
  PROVE  a \div d = k
  <1> DEFINE q == a \div d
  <1>1. q \in Int /\ q * d <= a /\ a < q * d + d
    BY Division
  <1> HIDE DEF q
  <1>2. q + 1 <= k => (q + 1) * d <= k * d
    BY <1>1, TimesOrdered
  <1>3. k + 1 <= q => (k + 1) * d <= q * d
    BY <1>1, TimesOrdered
  <1>4. /\ q * d \in Int /\ k * d \in Int 
        /\ (q + 1) * d = q * d + d /\ (k + 1) * d = k * d + d
    BY <1>1
  <1>5. ~(q + 1 <= k)
    BY <1>1, <1>2, <1>4
  <1>6. ~(k + 1 <= q)
    BY <1>1, <1>3, <1>4
  <1>7. q = k
    BY <1>1, <1>5, <1>6
  <1> QED
    BY <1>7 DEF q

\* Windows start at the multiples of their length.
LEMMA WindowIs ==
  ASSUME NEW n \in Nat, NEW W \in Nat \ {0}
  PROVE  LET length == W * TicksPerSecond IN
         /\ length \in Nat \ {0}
         /\ n \div length \in Nat
         /\ window_start(n, W) = (n \div length) * length
         /\ window_start(n, W) \in Nat
         /\ window_start(n, W) <= n
         /\ n < window_start(n, W) + length
  <1> DEFINE T == TicksPerSecond
             length == W * T
             e == n \div T
             q == e \div W
  <1>0. T \in Nat \ {0}
    BY RateLimitAssumption
  <1>1. length \in Nat \ {0}
    BY <1>0
  <1>2. e \in Int /\ e * T <= n /\ n < e * T + T
    BY <1>0, Division
  <1>3. q \in Int /\ e % W = e - q * W /\ q * W <= e /\ e < q * W + W
    BY <1>2, Division
  <1>4. window_start(n, W) = (q * W) * T
    <2>1. window_start(n, W) = (e - (e % W)) * T
      BY DEF window_start
    <2>2. e - (e % W) = q * W
      <3> HIDE DEF e
      <3> DEFINE x == q * W
      <3>1. x \in Int /\ e % W = e - x
        BY <1>2, <1>3
      <3> HIDE DEF x
      <3>2. e - (e % W) = x
        BY <1>2, <3>1
      <3> QED
        BY <3>2 DEF x
    <2> QED
      BY <2>1, <2>2
  <1> HIDE DEF e, q, T
  <1>5. (q * W) * T = q * length
    BY <1>0, <1>3
  <1>6. q * length <= n
    <2>1. (q * W) * T <= e * T
      BY <1>0, <1>2, <1>3, TimesOrdered
    <2>2. (q * W) * T \in Int /\ e * T \in Int
      BY <1>0, <1>2, <1>3
    <2> QED
      BY <1>2, <1>5, <2>1, <2>2
  <1>7. n < q * length + length
    <2>1. (e + 1) * T <= (q * W + W) * T
      BY <1>0, <1>2, <1>3, TimesOrdered
    <2>2. (e + 1) * T = e * T + T /\ (q * W + W) * T = (q * W) * T + W * T
      BY <1>0, <1>2, <1>3
    <2> DEFINE A == (q * W) * T
               B == e * T
    <2>3. A \in Int /\ B \in Int /\ length \in Int
      BY <1>0, <1>1, <1>2, <1>3
    <2>4. B + T <= A + length /\ n < B + T /\ A = q * length
      BY <1>2, <1>5, <2>1, <2>2
    <2> HIDE DEF A, B, length
    <2>5. n < A + length
      BY <1>0, <2>3, <2>4
    <2> QED
      BY <2>4, <2>5
  <1>8. n \div length = q
    BY <1>1, <1>3, <1>6, <1>7, QuotientIs
  <1>9. n \div length \in Nat
    BY <1>1, <1>8
  <1>10. q * length \in Nat
    BY <1>1, <1>8, <1>9
  <1> QED
    BY <1>1, <1>4, <1>5, <1>6, <1>7, <1>8, <1>9, <1>10 DEF T

\* A refused client waits for the next window, and not a second longer.
LEMMA RetryReaches ==
  ASSUME NEW n \in Nat, NEW W \in Nat \ {0}
  PROVE  LET length == W * TicksPerSecond
             wait   == seconds_until_window_ends(n, window_start(n, W), W)
             retry  == n + wait * TicksPerSecond
         IN  /\ wait \in Nat
             /\ retry \div length = n \div length + 1
             /\ (retry - TicksPerSecond) \div length = n \div length
  <1> DEFINE T == TicksPerSecond
             length == W * T
             s == window_start(n, W)
             q == n \div length
             R == s + length - n
             c == (R + T - 1) \div T
             wait == seconds_until_window_ends(n, s, W)
  <1>0. T \in Nat \ {0}
    BY RateLimitAssumption
  <1>1. length \in Nat \ {0} /\ q \in Nat /\ s = q * length /\ s \in Nat /\ s <= n /\ n < s + length
    BY WindowIs
  <1>2. R \in Nat \ {0} /\ R + T - 1 \in Int
    BY <1>0, <1>1
  <1>3. c \in Int /\ c * T <= R + T - 1 /\ R + T - 1 < c * T + T
    BY <1>0, <1>2, Division
  <1>4. c >= 1
    BY <1>0, <1>2
  <1>5. wait = c
    BY <1>3, <1>4 DEF seconds_until_window_ends
  <1>6. T <= length
    <2>1. 1 * T <= W * T
      BY <1>0, TimesOrdered
    <2> QED
      BY <1>0, <2>1
  <1> HIDE DEF T, length, s, q, R, c, wait
  <1> DEFINE x == c * T
  <1>7. x \in Int /\ R <= x /\ x - T < R
    BY <1>0, <1>2, <1>3
  <1>8. x >= T
    <2>1. 1 * T <= c * T
      BY <1>0, <1>3, <1>4, TimesOrdered
    <2> QED
      BY <1>0, <2>1
  <1>9. R = s + length - n
    BY DEF R
  <1>10. (q + 1) * length = s + length
    BY <1>1
  <1> HIDE DEF x
  <1>11. n + x \in Int /\ s + length <= n + x /\ n + x < s + length + length
    BY <1>0, <1>1, <1>6, <1>7, <1>9
  <1>12. n + x - T \in Int /\ s <= n + x - T /\ n + x - T < s + length
    BY <1>0, <1>1, <1>7, <1>8, <1>9
  <1>13. (n + x) \div length = q + 1
    <2>1. /\ q + 1 \in Int
          /\ (q + 1) * length <= n + x
          /\ n + x < (q + 1) * length + length
      BY <1>1, <1>10, <1>11
    <2> QED
      BY <1>1, <1>11, <2>1, QuotientIs
  <1>14. (n + x - T) \div length = q
    BY <1>1, <1>12, QuotientIs
  <1>15. wait \in Nat /\ wait * T = x
    BY <1>3, <1>4, <1>5 DEF x
  <1>16. /\ wait \in Nat
         /\ (n + wait * T) \div length = q + 1
         /\ ((n + wait * T) - T) \div length = q
    BY <1>0, <1>1, <1>7, <1>13, <1>14, <1>15
  <1> QED
    BY <1>16 DEF T, length, s, q, wait

\* Windows have a length, and none is longer than the longest.
LEMMA Windows ==
  ASSUME NEW limiter \in Limiter
  PROVE  /\ Window(limiter) \in Nat \ {0}
         /\ BudgetOf(limiter) \in Nat \ {0}
         /\ Window(limiter) * TicksPerSecond \in Nat
         /\ LongestWindow * TicksPerSecond \in Nat
         /\ Window(limiter) * TicksPerSecond <= LongestWindow * TicksPerSecond
  <1>1. Window(limiter) \in Nat \ {0} /\ BudgetOf(limiter) \in Nat \ {0} /\ TicksPerSecond \in Nat
    BY RateLimitAssumption DEF Window, BudgetOf, Limiter
  <1>2. LongestWindow \in Nat /\ Window(limiter) <= LongestWindow
    BY RateLimitAssumption DEF Window, LongestWindow, Limiter
  <1> QED
    BY <1>1, <1>2, TimesOrdered

\* Two instants start the same window exactly when they lie in the same stretch of it.
LEMMA SameWindow ==
  ASSUME NEW m \in Nat, NEW n \in Nat, NEW W \in Nat \ {0}
  PROVE  window_start(m, W) = window_start(n, W) <=>
           m \div (W * TicksPerSecond) = n \div (W * TicksPerSecond)
  <1> DEFINE length == W * TicksPerSecond
             j == m \div length
             k == n \div length
  <1>1. /\ length \in Nat \ {0} /\ j \in Nat /\ k \in Nat
        /\ window_start(m, W) = j * length /\ window_start(n, W) = k * length
    BY WindowIs
  <1>2. ASSUME j * length = k * length PROVE j = k
    <2> HIDE DEF length, j, k
    <2>1. j * length \in Int /\ j * length < j * length + length
      BY <1>1
    <2>2. (j * length) \div length = j
      BY <1>1, <2>1, QuotientIs
    <2>3. (k * length) \div length = k
      BY <1>1, <1>2, <2>1, QuotientIs
    <2> QED
      BY <1>2, <2>2, <2>3
  <1> HIDE DEF j, k
  <1>3. window_start(m, W) = window_start(n, W) <=> j = k
    BY <1>1, <1>2
  <1> QED
    BY <1>3 DEF j, k

-----------------------------------------------------------------------------
(***************************************************************************)
(* Addresses.                                                              *)
(***************************************************************************)

\* Two lists put together are as long as both.
LEMMA Joined ==
  ASSUME NEW S, NEW s \in Seq(S), NEW t \in Seq(S)
  PROVE  /\ s \o t \in Seq(S)
         /\ Len(s \o t) = Len(s) + Len(t)
  OBVIOUS

\* However many proxies there are and whatever the client wrote, a request is counted
\* under the address the outermost of the operator's proxies saw.
THEOREM ClientIsWhoTheProxySaw ==
  ASSUME NEW r \in Requests
  PROVE  client_address(Peer(r), Forwarded(r)) = SeenAddress[r]
  <1> DEFINE T == TrustedProxyHops
             seen == SeenAddress[r]
  <1>1. T \in Nat /\ seen \in Address /\ seen # Blank /\ ProxyAddress # Blank
    <2>1. T \in Nat /\ seen \in Address /\ ProxyAddress \in Address
      BY RateLimitAssumption, AddressAssumption
    <2>2. ASSUME NEW address \in Address PROVE address # Blank
      BY DEF Address, Blank
    <2> QED
      BY <2>1, <2>2
  <1>2. CASE T = 0
    BY <1>1, <1>2 DEF client_address, Peer
  <1>3. CASE T > 0
    <2> DEFINE written == Written[r]
               w == Len(written)
               proxies == [i \in 1..T - 1 |-> ProxyAddress]
               chain == Forwarded(r)
               S == {i \in DOMAIN chain : chain[i] # Blank}
               p == w + 1
               after == (p + 1)..(p + (T - 1))
               upto == {j \in S : j <= p}
    <2>1. /\ written \in Seq(Address \cup {Blank}) /\ w \in Nat
          /\ proxies \in Seq(Address \cup {Blank}) /\ Len(proxies) = T - 1
          /\ <<seen>> \in Seq(Address \cup {Blank}) /\ Len(<<seen>>) = 1
      BY <1>1, <1>3, AddressAssumption
    <2>2. chain = written \o <<seen>> \o proxies
      BY <1>1, <1>3 DEF Forwarded
    <2>3. /\ DOMAIN chain = 1..(w + T)
          /\ chain[p] = seen
          /\ \A i \in after : chain[i] = ProxyAddress
      <3> HIDE DEF written, proxies, chain
      <3>1. DOMAIN chain = 1..(w + T)
        <4> DEFINE front == written \o <<seen>>
        <4>0. front \in Seq(Address \cup {Blank}) /\ Len(front) = w + 1
          BY <2>1
        <4>1. chain = front \o proxies
          BY <2>2
        <4> HIDE DEF front
        <4>2. Len(chain) = (w + 1) + (T - 1)
          <5>1. Len(chain) = Len(front) + Len(proxies)
            BY <2>1, <4>0, <4>1, Joined
          <5> QED
            BY <2>1, <4>0, <5>1
        <4>3. (w + 1) + (T - 1) = w + T
          BY <1>1, <2>1
        <4>4. chain \in Seq(Address \cup {Blank})
          BY <2>1, <4>0, <4>1
        <4> QED
          BY <4>2, <4>3, <4>4
      <3>2. chain[p] = seen
        BY <1>1, <1>3, <2>1, <2>2
      <3>3. ASSUME NEW i \in after PROVE chain[i] = ProxyAddress
        <4>1. chain[i] = proxies[i - p]
          BY <1>1, <1>3, <2>1, <2>2, <3>3
        <4>2. i - p \in 1..T - 1
          BY <1>1, <2>1, <3>3
        <4> QED
          BY <4>1, <4>2 DEF proxies
      <3> QED
        BY <3>1, <3>2, <3>3
    <2> HIDE DEF written, proxies, chain
    <2>4. S \in SUBSET Int /\ IsFiniteSet(S)
      <3>1. IsFiniteSet(1..(w + T))
        BY <1>1, <2>1, FS_Interval
      <3>2. S \in SUBSET (1..(w + T))
        BY <2>3
      <3>3. 1..(w + T) \in SUBSET Int
        OBVIOUS
      <3> HIDE DEF S
      <3> QED
        BY <3>1, <3>2, <3>3, FS_Subset
    <2>5. p \in S
      BY <1>1, <1>3, <2>1, <2>3
    <2>6. S = upto \cup after /\ upto \cap after = {}
      <3>1. \A i \in after : i \in S /\ ~(i <= p)
        BY <1>1, <2>1, <2>3
      <3>2. \A i \in S : i <= p \/ i \in after
        BY <1>1, <2>1, <2>3
      <3> QED
        BY <3>1, <3>2
    <2>7. IsFiniteSet(after) /\ Cardinality(after) = T - 1
      <3>1. /\ IsFiniteSet(after)
            /\ Cardinality(after) = IF p + 1 > p + (T - 1) THEN 0 ELSE (p + (T - 1)) - (p + 1) + 1
        <4>1. p + 1 \in Int /\ p + (T - 1) \in Int
          BY <1>1, <2>1
        <4> HIDE DEF p
        <4> QED
          BY <4>1, FS_Interval
      <3> QED
        BY <1>1, <1>3, <2>1, <3>1
    <2>8. IsFiniteSet(upto) /\ Cardinality(upto) = Rank(S, p)
      BY <2>4, FS_Subset DEF Rank
    <2>9. Cardinality(S) = Rank(S, p) + (T - 1)
      <3> HIDE DEF S, upto, after
      <3>1. Cardinality(upto \cup after) =
              Cardinality(upto) + Cardinality(after) - Cardinality(upto \cap after)
        BY <2>7, <2>8, FS_Union
      <3>2. Cardinality(upto \cap after) = 0
        BY <2>6, FS_EmptySet
      <3>3. Cardinality(upto) \in Nat
        BY <2>8, FS_CardinalityType
      <3> QED
        BY <1>1, <2>6, <2>7, <2>8, <3>1, <3>2, <3>3
    <2>10. Rank(S, p) \in 1..Cardinality(S) /\ Nth(S, Rank(S, p)) = p /\ Cardinality(S) \in Nat
      BY <2>4, <2>5, RankType, NthOfRank, FS_CardinalityType
    <2>11. /\ Hops(chain) = [k \in 1..Cardinality(S) |-> chain[Nth(S, k)]]
           /\ Len(Hops(chain)) = Cardinality(S)
      BY <2>10 DEF Hops, SubSeqAt
    <2> HIDE DEF S, p
    <2>12. /\ Len(Hops(chain)) >= T
           /\ Len(Hops(chain)) - T + 1 = Rank(S, p)
      BY <1>1, <2>9, <2>10, <2>11
    <2>13. Hops(chain)[Len(Hops(chain)) - T + 1] = seen
      BY <2>3, <2>10, <2>11, <2>12
    <2> QED
      BY <1>3, <2>12, <2>13 DEF client_address, chain
  <1> QED
    BY <1>1, <1>2, <1>3

\* Two attempts are counted in one row exactly when they share a budget.
LEMMA KeyMeansShared ==
  ASSUME now \in [Requests -> Nat], NEW q \in Requests, NEW r \in Requests, NEW limiter \in Limiter
  PROVE  SharesBudget(q, r, limiter) <=> CounterKey(q, limiter) = CounterKey(r, limiter)
  <1>1. /\ subject(q, "ip") = subject(r, "ip") <=> SourceOf[q] = SourceOf[r]
    BY ClientIsWhoTheProxySaw, AddressAssumption DEF subject, ip_subject
  <1>2. window_start(now[q], Window(limiter)) = window_start(now[r], Window(limiter)) <=>
          now[q] \div (Window(limiter) * TicksPerSecond) = now[r] \div (Window(limiter) * TicksPerSecond)
    BY Windows, SameWindow
  <1>3. subject(q, limiter) = subject(r, limiter) <=>
          IF limiter = "ip" THEN SourceOf[q] = SourceOf[r] ELSE EndpointOf[q] = EndpointOf[r]
    BY <1>1 DEF subject
  <1> QED
    BY <1>2, <1>3 DEF SharesBudget, CounterKey

-----------------------------------------------------------------------------
(***************************************************************************)
(* Attempts, however long they take.                                       *)
(***************************************************************************)

\* A refusal carries the wait that follows from the instant and the window it was for.
RefusalComputed ==
  \A r \in Requests :
    refusal[r].limiter # "none" =>
      /\ refusal[r].limiter \in Limiter
      /\ refusal[r].retry_after =
           seconds_until_window_ends(now[r], window_start(now[r], Window(refusal[r].limiter)),
                                     Window(refusal[r].limiter))

\* An attempt is charged by a limiter once, and refused only when it is over.
ChargedOnce ==
  \A r \in Requests :
    /\ pc[r] \in {"new", "ip"} => passed[r] = {}
    /\ pc[r] \in {"resolve", "endpoint"} => "endpoint" \notin passed[r]
    /\ pc[r] # "over" => refusal[r] = NotRefused

AttemptInv == TypeOK /\ RefusalComputed /\ ChargedOnce

\* Nothing is charged to begin with.
LEMMA AttemptInvInit == Init => AttemptInv
  BY RateLimitAssumption DEF Init, AttemptInv, TypeOK, RefusalComputed, ChargedOnce, NotRefused, Limiter

\* The row of an attempt is a row of the table.
LEMMA KeyType ==
  ASSUME TypeOK, NEW r \in Requests, NEW limiter \in Limiter
  PROVE  /\ CounterKey(r, limiter)[1] = limiter
         /\ CounterKey(r, limiter)[3] = window_start(now[r], Window(limiter))
         /\ window_start(now[r], Window(limiter)) \in Nat
  <1>1. now[r] \in Nat /\ Window(limiter) \in Nat \ {0}
    BY Windows DEF TypeOK
  <1> QED
    BY <1>1, WindowIs DEF CounterKey

\* A charge keeps it.
LEMMA ConsumeKeeps ==
  ASSUME AttemptInv, NEW r \in Requests, NEW limiter \in Limiter,
         NEW next \in {"resolve", "sweep"}, next = "resolve" <=> limiter = "ip",
         consume(r, limiter, next)
  PROVE  AttemptInv'
  <1> DEFINE key == CounterKey(r, limiter)
             start == window_start(now[r], Window(limiter))
             wait == seconds_until_window_ends(now[r], start, Window(limiter))
  <1>0. TypeOK /\ pc[r] = limiter /\ now' = now /\ clock' = clock /\ counters' = consume_rate_limit(key)
    BY DEF consume, AttemptInv
  <1>1. \A k \in DOMAIN counters' : k[1] \in Limiter /\ k[3] \in Nat /\ counters'[k] \in Nat \ {0}
    <2>1. DOMAIN counters' = DOMAIN counters \cup {key}
      BY <1>0 DEF consume_rate_limit
    <2>2. ASSUME NEW k \in DOMAIN counters'
          PROVE  k[1] \in Limiter /\ k[3] \in Nat
      BY <1>0, <2>1, KeyType DEF TypeOK
    <2>3. ASSUME NEW k \in DOMAIN counters' PROVE counters'[k] \in Nat \ {0}
      BY <1>0, <2>1 DEF consume_rate_limit, TypeOK
    <2> QED
      BY <2>2, <2>3
  <1>2. wait \in Nat
    BY <1>0, Windows, RetryReaches DEF TypeOK
  <1>3. CASE /\ passed' = [passed EXCEPT ![r] = @ \cup {limiter}]
             /\ pc' = [pc EXCEPT ![r] = next]
             /\ UNCHANGED refusal
    <2>1. TypeOK'
      BY <1>0, <1>1, <1>3 DEF TypeOK, Limiter
    <2>2. RefusalComputed'
      BY <1>0, <1>3 DEF AttemptInv, RefusalComputed
    <2>3. ChargedOnce'
      BY <1>0, <1>3 DEF AttemptInv, ChargedOnce, TypeOK, Limiter
    <2> QED
      BY <2>1, <2>2, <2>3 DEF AttemptInv
  <1>4. CASE /\ refusal' = [refusal EXCEPT ![r] = [limiter |-> limiter, retry_after |-> wait]]
             /\ pc' = [pc EXCEPT ![r] = "over"]
             /\ UNCHANGED passed
    <2>1. [limiter |-> limiter, retry_after |-> wait] \in
            [limiter : Limiter \cup {"none"}, retry_after : Nat]
      BY <1>2
    <2>2. TypeOK'
      BY <1>0, <1>1, <1>4, <2>1 DEF TypeOK
    <2>3. RefusalComputed'
      BY <1>0, <1>4 DEF AttemptInv, RefusalComputed, TypeOK
    <2>4. ChargedOnce'
      BY <1>0, <1>4 DEF AttemptInv, ChargedOnce, TypeOK
    <2> QED
      BY <2>2, <2>3, <2>4 DEF AttemptInv
  <1> QED
    BY <1>3, <1>4 DEF consume

\* So does every other step.
LEMMA AttemptInvStep == AttemptInv /\ [Next]_vars => AttemptInv'
  <1> SUFFICES ASSUME AttemptInv, [Next]_vars PROVE AttemptInv'
    OBVIOUS
  <1>0. TypeOK /\ RefusalComputed /\ ChargedOnce
    BY DEF AttemptInv
  <1>1. CASE Tick
    <2>1. TypeOK'
      BY <1>0, <1>1 DEF Tick, TypeOK
    <2> QED
      BY <1>0, <1>1, <2>1 DEF Tick, AttemptInv, RefusalComputed, ChargedOnce
  <1>2. ASSUME NEW r \in Requests, Arrive(r) PROVE AttemptInv'
    <2>1. TypeOK'
      BY <1>0, <1>2 DEF Arrive, TypeOK
    <2>2. RefusalComputed'
      BY <1>0, <1>2 DEF Arrive, RefusalComputed, ChargedOnce, NotRefused, TypeOK
    <2>3. ChargedOnce'
      BY <1>0, <1>2 DEF Arrive, ChargedOnce, TypeOK
    <2> QED
      BY <2>1, <2>2, <2>3 DEF AttemptInv
  <1>3. ASSUME NEW r \in Requests, ConsumeIp(r) \/ ConsumeEndpoint(r) PROVE AttemptInv'
    <2>1. "ip" \in Limiter /\ "endpoint" \in Limiter
      BY DEF Limiter
    <2>2. CASE consume(r, "ip", "resolve")
      BY <2>1, <2>2, ConsumeKeeps
    <2>3. CASE consume(r, "endpoint", "sweep")
      BY <2>1, <2>3, ConsumeKeeps
    <2> QED
      BY <1>3, <2>2, <2>3 DEF ConsumeIp, ConsumeEndpoint
  <1>4. ASSUME NEW r \in Requests, NEW at \in {"endpoint", "over"},
               at = "endpoint" => pc[r] = "resolve",
               pc' = [pc EXCEPT ![r] = at],
               UNCHANGED <<clock, now, passed, refusal>>,
               \A k \in DOMAIN counters' : k \in DOMAIN counters /\ counters'[k] = counters[k]
        PROVE  AttemptInv'
    <2>1. TypeOK'
      BY <1>0, <1>4 DEF TypeOK
    <2>2. RefusalComputed'
      BY <1>0, <1>4 DEF RefusalComputed
    <2>3. ChargedOnce'
      BY <1>0, <1>4 DEF ChargedOnce, TypeOK
    <2> QED
      BY <2>1, <2>2, <2>3 DEF AttemptInv
  <1>5. ASSUME NEW r \in Requests, Resolve(r) PROVE AttemptInv'
    <2>1. CASE EndpointExists(r)
      BY <1>4, <1>5, <2>1 DEF Resolve
    <2>2. CASE ~EndpointExists(r)
      BY <1>4, <1>5, <2>2 DEF Resolve
    <2> QED
      BY <2>1, <2>2
  <1>6. ASSUME NEW r \in Requests, sweep_old_windows(r) PROVE AttemptInv'
    <2>1. \A k \in DOMAIN counters' : k \in DOMAIN counters /\ counters'[k] = counters[k]
      BY <1>6 DEF sweep_old_windows, delete_expired_rate_limit_counters
    <2> QED
      BY <1>4, <1>6, <2>1 DEF sweep_old_windows
  <1>7. ASSUME NEW r \in Requests, SkipsSweep(r) \/ AttemptFails(r) PROVE AttemptInv'
    BY <1>4, <1>7 DEF SkipsSweep, AttemptFails
  <1>8. CASE UNCHANGED vars
    BY <1>0, <1>8 DEF vars, AttemptInv, TypeOK, RefusalComputed, ChargedOnce
  <1> QED
    BY <1>1, <1>2, <1>3, <1>5, <1>6, <1>7, <1>8 DEF Next, RequestStep

\* The invariant holds in every reachable state, however slow an attempt is.
THEOREM AttemptInvariant == Spec => []AttemptInv
  BY AttemptInvInit, AttemptInvStep, PTL DEF Spec

\* The table and what each attempt knows keep their types.
THEOREM RateTypeCorrect == Spec => []TypeOK
  <1>1. AttemptInv => TypeOK
    BY DEF AttemptInv
  <1> QED
    BY <1>1, AttemptInvariant, PTL

\* Retry-After reaches the next window and does not overshoot it by a second, for every
\* instant, window and resolution of the clock.
THEOREM RetryAfterExact == Spec => []RetryAfterHonest
  <1>1. AttemptInv => RetryAfterHonest
    <2> SUFFICES ASSUME AttemptInv, NEW r \in Requests, refusal[r].limiter # "none"
                 PROVE  LET length == Window(refusal[r].limiter) * TicksPerSecond
                            retry  == now[r] + refusal[r].retry_after * TicksPerSecond
                        IN  /\ retry \div length = now[r] \div length + 1
                            /\ (retry - TicksPerSecond) \div length = now[r] \div length
      BY DEF RetryAfterHonest
    <2>1. /\ refusal[r].limiter \in Limiter /\ now[r] \in Nat
          /\ refusal[r].retry_after =
               seconds_until_window_ends(now[r], window_start(now[r], Window(refusal[r].limiter)),
                                         Window(refusal[r].limiter))
      BY DEF AttemptInv, RefusalComputed, TypeOK
    <2> QED
      BY <2>1, Windows, RetryReaches
  <1> QED
    BY <1>1, AttemptInvariant, PTL

-----------------------------------------------------------------------------
(***************************************************************************)
(* Attempts that are charged in time.                                      *)
(***************************************************************************)

\* An attempt is not charged later than Patience after it arrived.
InTime ==
  \A r \in Requests :
    /\ now[r] <= clock
    /\ Charging(r) => clock <= now[r] + Patience

\* The attempts one row of the table let through.
Took(key) == {q \in Requests : key[1] \in passed[q] /\ CounterKey(q, key[1]) = key}

\* No attempt that is still to be charged belongs to a window this old.
Closed(start) == start + SWEEP_RETAINED_WINDOWS * LongestWindow * TicksPerSecond < clock

\* A row has counted every attempt it let through and stopped at the budget; a row that
\* is not there never let any through, or its window is closed.
CountExact(key) ==
  LET taken == Cardinality(Took(key))
      budget == BudgetOf(key[1])
  IN  /\ taken \in Nat
      /\ taken <= budget
      /\ key \in DOMAIN counters =>
           /\ counters[key] <= budget => taken = counters[key]
           /\ counters[key] > budget => taken = budget
      /\ key \notin DOMAIN counters => taken = 0 \/ Closed(key[3])

CountsExact == \A limiter \in Limiter, start \in Nat : \A who : CountExact(<<limiter, who, start>>)

\* A refusal was for a row that had let as many through as it may.
TookWith(r, limiter) ==
  {q \in Requests : limiter \in passed[q] /\ CounterKey(q, limiter) = CounterKey(r, limiter)}

RefusalSpent ==
  \A r \in Requests, limiter \in Limiter :
    refusal[r].limiter = limiter => Cardinality(TookWith(r, limiter)) = BudgetOf(limiter)

RateInv == AttemptInv /\ InTime /\ CountsExact /\ RefusalSpent

\* The window of an attempt that is being charged is not closed.
LEMMA ChargedOpen ==
  ASSUME AttemptInv, InTime, NEW r \in Requests, NEW limiter \in Limiter, Charging(r)
  PROVE  ~Closed(window_start(now[r], Window(limiter)))
  <1> DEFINE start == window_start(now[r], Window(limiter))
             length == Window(limiter) * TicksPerSecond
             longest == LongestWindow * TicksPerSecond
  <1>1. /\ start \in Nat /\ now[r] \in Nat /\ clock \in Nat /\ Patience \in Nat
        /\ now[r] < start + length
    BY Windows, WindowIs, RateLimitAssumption DEF AttemptInv, TypeOK
  <1>2. length \in Nat /\ longest \in Nat /\ length <= longest
    BY Windows
  <1>3. Patience <= longest /\ clock <= now[r] + Patience
    BY PatienceAssumption DEF InTime
  <1>4. SWEEP_RETAINED_WINDOWS * LongestWindow * TicksPerSecond = longest + longest
    <2>1. LongestWindow \in Nat /\ TicksPerSecond \in Nat
      BY RateLimitAssumption DEF LongestWindow
    <2> QED
      BY <2>1 DEF SWEEP_RETAINED_WINDOWS
  <1> HIDE DEF start, length, longest
  <1>5. ~(start + (longest + longest) < clock)
    BY <1>1, <1>2, <1>3
  <1> QED
    BY <1>4, <1>5 DEF Closed, start

\* Nothing is counted to begin with.
LEMMA RateInvInit == Init => RateInv
  <1> SUFFICES ASSUME Init PROVE RateInv
    OBVIOUS
  <1>1. AttemptInv
    BY AttemptInvInit
  <1>2. InTime
    BY RateLimitAssumption DEF Init, InTime, Charging
  <1>3. ASSUME NEW limiter \in Limiter, NEW start \in Nat, NEW who
        PROVE  CountExact(<<limiter, who, start>>)
    <2>1. Took(<<limiter, who, start>>) = {}
      BY DEF Init, Took
    <2>2. Cardinality(Took(<<limiter, who, start>>)) = 0
      BY <2>1, FS_EmptySet
    <2>3. <<limiter, who, start>> \notin DOMAIN counters
      BY DEF Init
    <2>4. BudgetOf(limiter) \in Nat
      BY Windows
    <2> QED
      BY <2>2, <2>3, <2>4 DEF CountExact
  <1>4. RefusalSpent
    BY DEF Init, RefusalSpent, NotRefused, Limiter
  <1> QED
    BY <1>1, <1>2, <1>3, <1>4 DEF RateInv, CountsExact

\* A step that lets nobody through and charges nothing keeps the counts, unless it
\* removes rows whose windows are open.
LEMMA CountsKept ==
  ASSUME RateInv, TypeOK', clock <= clock',
         \A limiter \in Limiter, start \in Nat : \A who :
           /\ Took(<<limiter, who, start>>)' = Took(<<limiter, who, start>>)
           /\ <<limiter, who, start>> \in DOMAIN counters' =>
                /\ <<limiter, who, start>> \in DOMAIN counters
                /\ counters'[<<limiter, who, start>>] = counters[<<limiter, who, start>>]
           /\ <<limiter, who, start>> \in DOMAIN counters =>
                <<limiter, who, start>> \in DOMAIN counters' \/ Closed(start)'
  PROVE  CountsExact'
  <1> SUFFICES ASSUME NEW limiter \in Limiter, NEW start \in Nat, NEW who
               PROVE  CountExact(<<limiter, who, start>>)'
    BY DEF CountsExact
  <1> DEFINE key == <<limiter, who, start>>
  <1>1. CountExact(key)
    BY DEF RateInv, CountsExact
  <1>2. Closed(start) => Closed(start)'
    <2>1. SWEEP_RETAINED_WINDOWS * LongestWindow * TicksPerSecond \in Nat
      BY RateLimitAssumption DEF SWEEP_RETAINED_WINDOWS, LongestWindow
    <2>2. clock \in Nat /\ clock' \in Nat
      BY DEF RateInv, AttemptInv, TypeOK
    <2> QED
      BY <2>1, <2>2 DEF Closed
  <1>3. key[1] = limiter /\ key[3] = start
    OBVIOUS
  <1> HIDE DEF key
  <1>4. /\ Took(key)' = Took(key)
        /\ key \in DOMAIN counters' => key \in DOMAIN counters /\ counters'[key] = counters[key]
        /\ key \in DOMAIN counters => key \in DOMAIN counters' \/ Closed(start)'
    BY DEF key
  <1>5. CountExact(key)'
    BY <1>1, <1>2, <1>3, <1>4 DEF CountExact
  <1> QED
    BY <1>5 DEF key

\* A charge keeps the counts exact: the row was there and counted everyone it let
\* through, or nobody was let through before.
LEMMA ConsumeCounts ==
  ASSUME RateInv, AttemptInv', NEW r \in Requests, NEW limiter \in Limiter, NEW next,
         consume(r, limiter, next), limiter \notin passed[r],
         NEW key, key = CounterKey(r, limiter)
  PROVE  CountsExact' /\ RefusalSpent'
  <1> DEFINE start == window_start(now[r], Window(limiter))
             budget == BudgetOf(limiter)
             used == counters'[key]
  <1>0. /\ AttemptInv /\ TypeOK /\ InTime /\ CountsExact /\ RefusalSpent
        /\ pc[r] = limiter /\ now' = now /\ clock' = clock
        /\ budget \in Nat \ {0}
        /\ start \in Nat /\ key = <<limiter, subject(r, limiter), start>>
        /\ key[1] = limiter /\ key[3] = start
    BY KeyType, Windows DEF RateInv, AttemptInv, consume, CounterKey
  <1>1. Charging(r) /\ ~Closed(start)
    BY <1>0, ChargedOpen DEF Charging, Limiter
  <1>2. CountExact(key)
    BY <1>0 DEF CountsExact
  <1>3. /\ DOMAIN counters' = DOMAIN counters \cup {key}
        /\ \A k \in DOMAIN counters : k # key => counters'[k] = counters[k]
        /\ key \in DOMAIN counters => used = counters[key] + 1
        /\ key \notin DOMAIN counters => used = 1
    BY DEF consume, consume_rate_limit
  <1>4. key \in DOMAIN counters => counters[key] \in Nat
    BY <1>0 DEF TypeOK
  <1>5. \A q \in Requests, l \in Limiter : CounterKey(q, l)' = CounterKey(q, l)
    BY <1>0 DEF CounterKey
  <1>6. \A k : Closed(k)' <=> Closed(k)
    BY <1>0 DEF Closed
  <1>7. CASE /\ allowed(used, limiter)
             /\ passed' = [passed EXCEPT ![r] = @ \cup {limiter}]
             /\ UNCHANGED refusal
    <2>1. used <= budget
      BY <1>7 DEF allowed
    <2>2. Took(key)' = Took(key) \cup {r} /\ r \notin Took(key)
      BY <1>0, <1>5, <1>7 DEF Took, TypeOK
    <2>3. IsFiniteSet(Took(key))
      <3>1. Took(key) \in SUBSET Requests
        BY DEF Took
      <3> QED
        BY <3>1, FS_Subset, RateLimitAssumption
    <2>4. Cardinality(Took(key)') = Cardinality(Took(key)) + 1
      BY <2>2, <2>3, FS_AddElement
    <2>5. Cardinality(Took(key)) \in Nat /\ Cardinality(Took(key)) # budget
          /\ Cardinality(Took(key)') = used /\ used \in Nat
      BY <1>0, <1>1, <1>2, <1>3, <1>4, <2>1, <2>4 DEF CountExact
    <2>6. ASSUME NEW l \in Limiter, NEW w \in Nat, NEW who, <<l, who, w>> # key
          PROVE  Took(<<l, who, w>>)' = Took(<<l, who, w>>)
      BY <1>0, <1>5, <1>7, <2>6 DEF Took, TypeOK
    <2>7. ASSUME NEW l \in Limiter, NEW w \in Nat, NEW who
          PROVE  CountExact(<<l, who, w>>)'
      <3> DEFINE k == <<l, who, w>>
      <3>1. CASE k = key
        <4>1. l = limiter /\ w = start
          BY <1>0, <3>1
        <4>2. key \in DOMAIN counters'
          BY <1>3
        <4>3. CountExact(key)'
          BY <1>0, <2>1, <2>5, <4>2 DEF CountExact
        <4> QED
          BY <3>1, <4>3
      <3>2. CASE k # key
        <4>1. CountExact(k) /\ Took(k)' = Took(k)
          BY <1>0, <2>6, <3>2 DEF CountsExact
        <4>2. k \in DOMAIN counters' <=> k \in DOMAIN counters
          BY <1>3, <3>2
        <4>3. k \in DOMAIN counters => counters'[k] = counters[k]
          BY <1>3, <3>2
        <4> HIDE DEF k
        <4>4. CountExact(k)'
          BY <1>6, <4>1, <4>2, <4>3 DEF CountExact
        <4> QED
          BY <4>4 DEF k
      <3> QED
        BY <3>1, <3>2
    <2>8. ASSUME NEW q \in Requests, NEW l \in Limiter, refusal'[q].limiter = l
          PROVE  Cardinality(TookWith(q, l)') = BudgetOf(l)
      <3>1. PICK k : k = CounterKey(q, l)
        OBVIOUS
      <3>2. Cardinality(TookWith(q, l)) = BudgetOf(l)
        BY <1>0, <1>7, <2>8 DEF RefusalSpent
      <3>3. TookWith(q, l) = Took(k) /\ TookWith(q, l)' = Took(k)'
        BY <1>0, <1>5, <3>1, KeyType DEF Took, TookWith
      <3>4. k # key
        <4>1. k = key => l = limiter
          <5>1. CounterKey(q, l)[1] = l
            BY <1>0, KeyType
          <5> QED
            BY <1>0, <3>1, <5>1
        <4>2. k = key => Cardinality(Took(key)) = budget
          BY <3>2, <3>3, <4>1
        <4> QED
          BY <2>5, <4>2
      <3>5. PICK w \in Nat : k = <<l, subject(q, l), w>>
        BY <1>0, <3>1, KeyType DEF CounterKey
      <3>6. Took(k)' = Took(k)
        BY <2>6, <3>4, <3>5
      <3> QED
        BY <3>2, <3>3, <3>6
    <2> QED
      BY <2>7, <2>8 DEF CountsExact, RefusalSpent
  <1>8. CASE /\ ~allowed(used, limiter)
             /\ refusal' = [refusal EXCEPT ![r] =
                  [limiter     |-> limiter,
                   retry_after |-> seconds_until_window_ends(now[r], start, Window(limiter))]]
             /\ UNCHANGED passed
    <2>1. used > budget /\ key \in DOMAIN counters /\ counters[key] >= budget
      BY <1>0, <1>3, <1>4, <1>8 DEF allowed
    <2>2. Cardinality(Took(key)) = budget
      BY <1>0, <1>2, <1>4, <2>1 DEF CountExact
    <2>3. ASSUME NEW k, k[1] \in Limiter PROVE Took(k)' = Took(k)
      BY <1>5, <1>8, <2>3 DEF Took
    <2>4. ASSUME NEW l \in Limiter, NEW w \in Nat, NEW who
          PROVE  CountExact(<<l, who, w>>)'
      <3> DEFINE k == <<l, who, w>>
      <3>1. k[1] \in Limiter /\ CountExact(k) /\ Took(k)' = Took(k)
        BY <1>0, <2>3 DEF CountsExact
      <3>2. CASE k = key
        <4>0. /\ Cardinality(Took(key)') = budget
              /\ key \in DOMAIN counters' /\ counters'[key] > budget /\ counters'[key] \in Nat
          BY <1>0, <1>3, <1>4, <2>1, <2>2, <2>3
        <4>1. CountExact(key)'
          BY <1>0, <4>0 DEF CountExact
        <4> QED
          BY <3>2, <4>1
      <3>3. CASE k # key
        <4>1. k \in DOMAIN counters' <=> k \in DOMAIN counters
          BY <1>3, <3>3
        <4>2. k \in DOMAIN counters => counters'[k] = counters[k]
          BY <1>3, <3>3
        <4> HIDE DEF k
        <4>3. CountExact(k)'
          BY <1>6, <3>1, <4>1, <4>2 DEF CountExact
        <4> QED
          BY <4>3 DEF k
      <3> QED
        BY <3>2, <3>3
    <2>5. ASSUME NEW q \in Requests, NEW l \in Limiter, refusal'[q].limiter = l
          PROVE  Cardinality(TookWith(q, l)') = BudgetOf(l)
      <3>1. TookWith(q, l)' = TookWith(q, l)
        BY <1>5, <1>8 DEF TookWith
      <3>2. CASE q = r
        <4>1. l = limiter
          BY <1>0, <1>8, <2>5, <3>2 DEF TypeOK
        <4>2. TookWith(q, l) = Took(key)
          BY <1>0, <3>2, <4>1 DEF Took, TookWith
        <4> QED
          BY <2>2, <3>1, <4>1, <4>2
      <3>3. CASE q # r
        <4>1. refusal[q].limiter = l
          BY <1>0, <1>8, <2>5, <3>3 DEF TypeOK
        <4> QED
          BY <1>0, <3>1, <4>1 DEF RefusalSpent
      <3> QED
        BY <3>2, <3>3
    <2> QED
      BY <2>4, <2>5 DEF CountsExact, RefusalSpent
  <1> QED
    BY <1>7, <1>8 DEF consume

\* A step that lets nobody through and refuses nobody keeps what is behind the refusals.
LEMMA RefusalsKept ==
  ASSUME RateInv, UNCHANGED refusal,
         \A q \in Requests, limiter \in Limiter :
           refusal[q].limiter = limiter => TookWith(q, limiter)' = TookWith(q, limiter)
  PROVE  RefusalSpent'
  BY DEF RateInv, RefusalSpent

\* Every step of PromptSpec keeps the invariant.
LEMMA RateInvStep == RateInv /\ [PromptNext]_vars => RateInv'
  <1> SUFFICES ASSUME RateInv, [PromptNext]_vars PROVE RateInv'
    OBVIOUS
  <1>0. /\ AttemptInv /\ TypeOK /\ ChargedOnce /\ InTime
        /\ clock \in Nat /\ Patience \in Nat /\ \A r \in Requests : now[r] \in Nat
    BY RateLimitAssumption DEF RateInv, AttemptInv, TypeOK
  <1>1. AttemptInv' /\ TypeOK'
    <2>1. [Next]_vars
      BY DEF PromptNext, PromptTick, Next
    <2> QED
      BY <1>0, <2>1, AttemptInvStep DEF AttemptInv
  <1>2. ASSUME UNCHANGED <<counters, now, passed, refusal>>, clock <= clock', InTime'
        PROVE  RateInv'
    <2>1. CountsExact'
      <3>1. \A limiter \in Limiter, start \in Nat : \A who :
              Took(<<limiter, who, start>>)' = Took(<<limiter, who, start>>)
        BY <1>2 DEF Took, CounterKey
      <3> QED
        BY <1>1, <1>2, <3>1, CountsKept
    <2>2. RefusalSpent'
      <3>1. \A q \in Requests, limiter \in Limiter : TookWith(q, limiter)' = TookWith(q, limiter)
        BY <1>2 DEF TookWith, CounterKey
      <3> QED
        BY <1>2, <3>1, RefusalsKept
    <2> QED
      BY <1>1, <1>2, <2>1, <2>2 DEF RateInv
  <1>3. CASE PromptTick
    <2>1. InTime'
      <3> SUFFICES ASSUME NEW r \in Requests
                   PROVE  now'[r] <= clock' /\ (Charging(r)' => clock' <= now'[r] + Patience)
        BY DEF InTime
      <3>1. Charging(r)' <=> Charging(r)
        BY <1>3 DEF PromptTick, Tick, Charging
      <3> QED
        BY <1>0, <1>3, <3>1 DEF PromptTick, Tick, InTime
    <2> QED
      BY <1>0, <1>2, <1>3, <2>1 DEF PromptTick, Tick
  <1>4. ASSUME NEW r \in Requests, Charging(r), NEW at, pc' = [pc EXCEPT ![r] = at],
               UNCHANGED <<clock, now>>
        PROVE  InTime'
    BY <1>0, <1>4 DEF InTime, Charging, TypeOK
  <1>5. ASSUME NEW r \in Requests, Arrive(r) PROVE RateInv'
    <2>1. passed[r] = {} /\ refusal[r] = NotRefused /\ UNCHANGED <<clock, counters, passed, refusal>>
      BY <1>0, <1>5 DEF Arrive, ChargedOnce
    <2>2. \A q \in Requests \ {r}, limiter \in Limiter : CounterKey(q, limiter)' = CounterKey(q, limiter)
      BY <1>0, <1>5 DEF Arrive, CounterKey, TypeOK
    <2>3. InTime'
      BY <1>0, <1>5 DEF Arrive, InTime, Charging, TypeOK
    <2>4. CountsExact'
      <3>1. ASSUME NEW limiter \in Limiter, NEW start \in Nat, NEW who
            PROVE  Took(<<limiter, who, start>>)' = Took(<<limiter, who, start>>)
        BY <2>1, <2>2 DEF Took
      <3> QED
        BY <1>0, <1>1, <2>1, <3>1, CountsKept
    <2>5. RefusalSpent'
      <3>1. ASSUME NEW q \in Requests, NEW limiter \in Limiter, refusal[q].limiter = limiter
            PROVE  TookWith(q, limiter)' = TookWith(q, limiter)
        <4>1. q # r
          BY <2>1, <3>1 DEF NotRefused, Limiter
        <4> QED
          BY <2>1, <2>2, <4>1 DEF TookWith
      <3> QED
        BY <2>1, <3>1, RefusalsKept
    <2> QED
      BY <1>1, <2>3, <2>4, <2>5 DEF RateInv
  <1>6. ASSUME NEW r \in Requests, NEW limiter \in Limiter, NEW next, consume(r, limiter, next)
        PROVE  RateInv'
    <2>1. pc[r] = limiter /\ Charging(r) /\ limiter \notin passed[r]
      BY <1>0, <1>6 DEF consume, Charging, Limiter, ChargedOnce
    <2>2. InTime'
      <3>1. UNCHANGED <<clock, now>> /\ \E at : pc' = [pc EXCEPT ![r] = at]
        BY <1>6 DEF consume
      <3> QED
        BY <1>4, <2>1, <3>1
    <2>3. PICK key : key = CounterKey(r, limiter)
      OBVIOUS
    <2>4. CountsExact' /\ RefusalSpent'
      BY <1>1, <1>6, <2>1, <2>3, ConsumeCounts
    <2> QED
      BY <1>1, <2>2, <2>4 DEF RateInv
  <1>7. ASSUME NEW r \in Requests, Resolve(r) \/ SkipsSweep(r) \/ AttemptFails(r)
        PROVE  RateInv'
    <2>1. /\ Charging(r) /\ UNCHANGED <<clock, counters, now, passed, refusal>>
          /\ \E at : pc' = [pc EXCEPT ![r] = at]
      BY <1>7 DEF Resolve, SkipsSweep, AttemptFails, Charging
    <2>2. InTime'
      BY <1>4, <2>1
    <2> QED
      BY <1>0, <1>2, <2>1, <2>2
  <1>8. ASSUME NEW r \in Requests, sweep_old_windows(r) PROVE RateInv'
    <2> DEFINE before == now[r] - SWEEP_RETAINED_WINDOWS * LongestWindow * TicksPerSecond
    <2>1. /\ Charging(r) /\ UNCHANGED <<clock, now, passed, refusal>>
          /\ pc' = [pc EXCEPT ![r] = "over"]
          /\ counters' = delete_expired_rate_limit_counters(before)
      BY <1>8 DEF sweep_old_windows, Charging
    <2>2. InTime'
      BY <1>4, <2>1
    <2>3. \A q \in Requests, limiter \in Limiter : TookWith(q, limiter)' = TookWith(q, limiter)
      BY <2>1 DEF TookWith, CounterKey
    <2>4. CountsExact'
      <3>1. ASSUME NEW limiter \in Limiter, NEW start \in Nat, NEW who
            PROVE  /\ Took(<<limiter, who, start>>)' = Took(<<limiter, who, start>>)
                   /\ <<limiter, who, start>> \in DOMAIN counters' =>
                        /\ <<limiter, who, start>> \in DOMAIN counters
                        /\ counters'[<<limiter, who, start>>] = counters[<<limiter, who, start>>]
                   /\ <<limiter, who, start>> \in DOMAIN counters =>
                        <<limiter, who, start>> \in DOMAIN counters' \/ Closed(start)'
        <4> DEFINE key == <<limiter, who, start>>
        <4>1. Took(key)' = Took(key)
          BY <2>1 DEF Took, CounterKey
        <4>2. key[3] = start
          OBVIOUS
        <4> HIDE DEF key
        <4>3. key \in DOMAIN counters' => key \in DOMAIN counters /\ counters'[key] = counters[key]
          BY <2>1 DEF delete_expired_rate_limit_counters
        <4>4. key \in DOMAIN counters => key \in DOMAIN counters' \/ ~(start >= before)
          BY <2>1, <4>2 DEF delete_expired_rate_limit_counters
        <4>5. ~(start >= before) => Closed(start)'
          <5> DEFINE kept == SWEEP_RETAINED_WINDOWS * LongestWindow * TicksPerSecond
          <5>1. kept \in Nat
            BY RateLimitAssumption DEF SWEEP_RETAINED_WINDOWS, LongestWindow
          <5>2. now[r] <= clock /\ clock' = clock /\ now[r] \in Nat
            BY <1>0, <2>1 DEF InTime
          <5>3. Closed(start)' <=> start + kept < clock
            BY <5>2 DEF Closed
          <5> HIDE DEF kept
          <5>4. ~(start >= now[r] - kept) => start + kept < clock
            BY <1>0, <5>1, <5>2
          <5> QED
            BY <5>3, <5>4 DEF kept
        <4> QED
          BY <4>1, <4>3, <4>4, <4>5 DEF key
      <3> QED
        BY <1>0, <1>1, <2>1, <3>1, CountsKept
    <2>5. RefusalSpent'
      BY <2>1, <2>3, RefusalsKept
    <2> QED
      BY <1>1, <2>2, <2>4, <2>5 DEF RateInv
  <1>9. CASE UNCHANGED vars
    <2>1. InTime'
      BY <1>0, <1>9 DEF vars, InTime, Charging
    <2> QED
      BY <1>0, <1>2, <1>9, <2>1 DEF vars
  <1>10. "ip" \in Limiter /\ "endpoint" \in Limiter
    BY DEF Limiter
  <1> QED
    BY <1>3, <1>5, <1>6, <1>7, <1>8, <1>9, <1>10
       DEF PromptNext, RequestStep, ConsumeIp, ConsumeEndpoint

-----------------------------------------------------------------------------
(***************************************************************************)
(* The theorems about attempts that are charged in time.                   *)
(***************************************************************************)

\* The invariant holds in every reachable state.
THEOREM RateInvariant == PromptSpec => []RateInv
  BY RateInvInit, RateInvStep, PTL DEF PromptSpec

\* The attempts let through with a budget are the ones its row let through.
LEMMA PassedIsTook ==
  ASSUME TypeOK, NEW r \in Requests, NEW limiter \in Limiter
  PROVE  PassedWith(r, limiter) = TookWith(r, limiter)
  BY KeyMeansShared DEF PassedWith, TookWith, TypeOK

\* No source and no endpoint gets more attempts through in a window than its limit.
THEOREM BudgetsHold == PromptSpec => []WithinBudget
  <1>1. RateInv => WithinBudget
    <2> SUFFICES ASSUME RateInv, NEW r \in Requests, NEW limiter \in Limiter
                 PROVE  Cardinality(PassedWith(r, limiter)) <= BudgetOf(limiter)
      BY DEF WithinBudget
    <2>1. TypeOK
      BY DEF RateInv, AttemptInv
    <2>2. PICK start \in Nat : CounterKey(r, limiter) = <<limiter, subject(r, limiter), start>>
      BY <2>1, KeyType DEF CounterKey
    <2> DEFINE key == <<limiter, subject(r, limiter), start>>
    <2>3. CountExact(key) /\ key[1] = limiter
      BY DEF RateInv, CountsExact
    <2>4. PassedWith(r, limiter) = Took(key)
      BY <2>1, <2>2, PassedIsTook DEF Took, TookWith
    <2> QED
      BY <2>3, <2>4 DEF CountExact
  <1> QED
    BY <1>1, RateInvariant, PTL

\* An attempt is refused only when others really used its window up.
THEOREM RefusalsJust == PromptSpec => []RefusedOnlyWhenSpent
  <1>1. RateInv => RefusedOnlyWhenSpent
    <2> SUFFICES ASSUME RateInv, NEW r \in Requests, refusal[r].limiter # "none"
                 PROVE  Cardinality(PassedWith(r, refusal[r].limiter)) = BudgetOf(refusal[r].limiter)
      BY DEF RefusedOnlyWhenSpent
    <2>1. TypeOK /\ refusal[r].limiter \in Limiter /\ RefusalSpent
      BY DEF RateInv, AttemptInv, RefusalComputed
    <2> QED
      BY <2>1, PassedIsTook DEF RefusalSpent
  <1> QED
    BY <1>1, RateInvariant, PTL

\* A sweep never takes the counter of an attempt that is still to be charged to it.
THEOREM SweepsSpareOpenWindows == PromptSpec => SweepSparesOpenWindows
  <1> DEFINE Spares == \A r \in Requests, limiter \in Limiter :
                         pc[r] = limiter /\ CounterKey(r, limiter) \in DOMAIN counters =>
                           CounterKey(r, limiter) \in DOMAIN counters'
  <1>1. RateInv /\ [PromptNext]_vars => [Spares]_vars
    <2> SUFFICES ASSUME RateInv, PromptNext, NEW r \in Requests, NEW limiter \in Limiter,
                        pc[r] = limiter, CounterKey(r, limiter) \in DOMAIN counters
                 PROVE  CounterKey(r, limiter) \in DOMAIN counters'
      OBVIOUS
    <2>1. AttemptInv /\ TypeOK /\ InTime /\ Charging(r)
      BY DEF RateInv, AttemptInv, Charging, Limiter
    <2>2. ASSUME NEW q \in Requests, sweep_old_windows(q)
          PROVE  CounterKey(r, limiter) \in DOMAIN counters'
      <3> DEFINE kept == SWEEP_RETAINED_WINDOWS * LongestWindow * TicksPerSecond
                 start == window_start(now[r], Window(limiter))
      <3>1. ~(start + kept < clock) /\ start \in Nat /\ CounterKey(r, limiter)[3] = start
        BY <2>1, ChargedOpen, KeyType DEF Closed
      <3>2. now[q] <= clock /\ now[q] \in Nat /\ clock \in Nat
        BY <2>1 DEF InTime, TypeOK
      <3>3. kept \in Nat
        BY RateLimitAssumption DEF SWEEP_RETAINED_WINDOWS, LongestWindow
      <3>4. DOMAIN counters' = {k \in DOMAIN counters : k[3] >= now[q] - kept}
        BY <2>2 DEF sweep_old_windows, delete_expired_rate_limit_counters
      <3> HIDE DEF kept, start
      <3>5. start >= now[q] - kept
        BY <3>1, <3>2, <3>3
      <3> QED
        BY <3>1, <3>4, <3>5
    <2>3. ASSUME NEW q \in Requests, NEW l, NEW next, consume(q, l, next)
          PROVE  CounterKey(r, limiter) \in DOMAIN counters'
      BY <2>3 DEF consume, consume_rate_limit
    <2>4. counters' = counters => CounterKey(r, limiter) \in DOMAIN counters'
      OBVIOUS
    <2> QED
      BY <2>2, <2>3, <2>4 DEF PromptNext, PromptTick, Tick, RequestStep, Arrive, ConsumeIp, Resolve,
                              ConsumeEndpoint, SkipsSweep, AttemptFails
  <1> QED
    BY <1>1, RateInvariant, PTL DEF PromptSpec, SweepSparesOpenWindows

=============================================================================
