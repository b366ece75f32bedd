------------------------------ MODULE MCIntake ------------------------------
(***************************************************************************)
(* A small instance of Intake.  r1 and r2 are one submission sent twice,   *)
(* the second time with its repeated field elsewhere; r3 reuses their key  *)
(* for the same fields in another order, which is other content; r4        *)
(* carries no key.                                                         *)
(***************************************************************************)
EXTENDS Intake, TLC

CONSTANTS r1, r2, r3, r4, k1

MCRequests == {r1, r2, r3, r4}

A == Text("a", 1, FALSE, FALSE)
B == Text("b", 1, FALSE, FALSE)
X == Text("x", 2, FALSE, FALSE)
Y == Text("y", 2, TRUE, FALSE)
Z == Text("", 0, FALSE, FALSE)

Item(n, v) == [name |-> n, value |-> v]

MCItemsOf ==
  [r \in Requests |->
     CASE r = r1 -> <<Item(A, X), Item(B, Y), Item(A, Z)>>
       [] r = r2 -> <<Item(A, X), Item(A, Z), Item(B, Y)>>
       [] r = r3 -> <<Item(B, Y), Item(A, X), Item(A, Z)>>
       [] r = r4 -> <<Item(A, X)>>]

\* Empty values and values with line breaks are accepted.  A form without fields or
\* with one too many is not, nor a name that is empty, too long or holds a control
\* character, nor a value that is too long or holds a null.
ASSUME RejectedForms ==
         /\ \A r \in Requests : Acceptable(ItemsOf[r])
         /\ ~Acceptable(<<>>)
         /\ ~Acceptable(Append(ItemsOf[r1], Item(A, X)))
         /\ \A name \in {Z, X, Text("n", 1, TRUE, FALSE)} : ~Acceptable(<<Item(name, X)>>)
         /\ \A value \in {Text("v", 3, FALSE, FALSE), Text("v", 1, FALSE, TRUE)} :
              ~Acceptable(<<Item(A, X), Item(A, value)>>)

\* A destination outside, two literals inside that do not look like it, and a number that
\* leads inside, which passes the check.
Https(host) == [too_long |-> FALSE, unsafe |-> FALSE, well_formed |-> TRUE,
                scheme |-> "https", host |-> host]

Form    == Https(Name(<<"forms", "example">>, 0))
Dotted  == Https(Name(<<"a", "localhost">>, 1))
Wrapped == Https(Mapped("private"))
Number  == Https(Numeric("loopback", 0))

MCUrls == {Form, Dotted, Wrapped, Number}

\* Hosts that cannot be encoded are refused, whatever they lead to; the number is not, and
\* that is the limit of the check.
ASSUME CheckedHosts ==
         /\ \A label \in BadLabels : Rejected(Https(Name(<<label, "example">>, 0)))
         /\ Rejected(Https(Name(<<"forms", "example">>, 2)))
         /\ ~Rejected(Https(Mapped("global")))
         /\ ~Rejected(Number) /\ LeadsInside(Number.host)

Body(active, url) == [is_active |-> active, webhook_url |-> url]

MCPostBodies  == {Body(TRUE, Form), Body(FALSE, NoUrl), Body(TRUE, Wrapped)}
MCPatchBodies == {Body(FALSE, Unset), Body(TRUE, Form), Body(Unset, NoUrl),
                  Body(Unset, Number), Body(Unset, Dotted)}

MCKeyOf    == [r \in Requests |-> IF r = r4 THEN NoKey ELSE k1]
MCSymmetry == Permutations({r1, r2}) \cup Permutations(Operators)
=============================================================================
