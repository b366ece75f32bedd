----------------------------- MODULE KeyedStore -----------------------------
(***************************************************************************)
(* What an idempotency key promises, in one step per request: a request    *)
(* whose key no live submission was stored under stores itself, one that   *)
(* repeats a live submission's key and content is answered with it, and    *)
(* one that repeats only its key is refused.                               *)
(***************************************************************************)
CONSTANTS Requests, KeyOf, NoKey, NoRequest,
          Same         \* the pairs of requests that carry the same content

VARIABLES live,     \* the submissions that are kept
          answer,   \* the submission each request is answered with
          clashed   \* the requests refused for reusing a key

vars == <<live, answer, clashed>>

Init ==
  /\ live = {}
  /\ answer = [r \in Requests |-> NoRequest]
  /\ clashed = {}

SameKey(r) == {s \in live : KeyOf[r] # NoKey /\ KeyOf[s] = KeyOf[r]}

Store(r) ==
  /\ SameKey(r) = {}
  /\ live' = live \cup {r}
  /\ answer' = [answer EXCEPT ![r] = r]
  /\ UNCHANGED clashed

Repeat(r) ==
  /\ \E s \in SameKey(r) :
       /\ <<s, r>> \in Same
       /\ answer' = [answer EXCEPT ![r] = s]
  /\ UNCHANGED <<live, clashed>>

Clash(r) ==
  /\ \E s \in SameKey(r) : <<s, r>> \notin Same
  /\ clashed' = clashed \cup {r}
  /\ UNCHANGED <<live, answer>>

Resolve(r) ==
  /\ answer[r] = NoRequest
  /\ r \notin clashed
  /\ Store(r) \/ Repeat(r) \/ Clash(r)

Forget(s) ==
  /\ live' = live \ {s}
  /\ UNCHANGED <<answer, clashed>>

Next == \E r \in Requests : Resolve(r) \/ Forget(r)

Spec == Init /\ [][Next]_vars

=============================================================================
