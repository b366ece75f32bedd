---------------------------- MODULE Subsequences ----------------------------
(***************************************************************************)
(* Sequences made of a set: the part of a sequence at a set of its         *)
(* positions, which is what a loop that skips the others collects, and the *)
(* members of a set in an order, given as a set of pairs.  A member is     *)
(* known by how many of the set come before it.                            *)
(***************************************************************************)
EXTENDS Integers, FiniteSets

Rank(S, i) == Cardinality({j \in S : j <= i})

Nth(S, k) == CHOOSE i \in S : Rank(S, i) = k

SubSeqAt(s, S) == [k \in 1..Cardinality(S) |-> s[Nth(S, k)]]

Earlier(S, before, s) == {t \in S : <<t, s>> \in before}

InOrder(S, before) ==
  [k \in 1..Cardinality(S) |-> CHOOSE s \in S : Cardinality(Earlier(S, before, s)) = k - 1]

=============================================================================
