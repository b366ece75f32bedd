----------------------------- MODULE Ingestion ------------------------------
(***************************************************************************)
(* The pure half of a submission, ingestion.py: what a parsed form becomes *)
(* and when two forms count as the same content.  A form is the sequence   *)
(* of name/value pairs its body held, repeats included; a text, name or    *)
(* value, is known by what it says, its length and which special           *)
(* characters are in it.                                                   *)
(***************************************************************************)
EXTENDS Integers, Sequences, Subsequences

CONSTANTS MaxFields,            \* max_fields
          MaxFieldNameLength,   \* max_field_name_length, in characters
          MaxFieldValueLength   \* max_field_value_length, in characters

\* A null character is one of the control characters.
Text(says, length, control, nul) ==
  [says |-> says, length |-> length, control |-> control \/ nul, nul |-> nul]

\* What request.form() is iterated as: pairs of a name and a value.
IsForm(items) ==
  /\ Len(items) \in Nat
  /\ DOMAIN items = 1..Len(items)
  /\ \A i \in DOMAIN items : items[i] = [name |-> items[i].name, value |-> items[i].value]

\* The pair is the first of its name.
FirstOfName(items, i) == \A j \in 1..(i - 1) : items[j].name # items[i].name

\* The keys of the fields dict: each name where it first appears.
FieldNames(items) ==
  LET firsts == {i \in DOMAIN items : FirstOfName(items, i)}
  IN  SubSeqAt([i \in DOMAIN items |-> items[i].name], firsts)

\* The values sent under one name, in the order they were sent.
ValuesOf(items, name) ==
  LET same == {i \in DOMAIN items : items[i].name = name}
  IN  SubSeqAt([i \in DOMAIN items |-> items[i].value], same)

\* build_submission: an ordered dict from names to tuples of values.
fields(items) ==
  [k \in DOMAIN FieldNames(items) |->
     [name |-> FieldNames(items)[k], values |-> ValuesOf(items, FieldNames(items)[k])]]

validate_field_name(name) == name.length \in 1..MaxFieldNameLength /\ ~name.control

\* A value may be empty and may hold line breaks.
validate_field_value(value) == value.length <= MaxFieldValueLength /\ ~value.nul

\* The forms build_submission does not reject.
Acceptable(items) ==
  /\ Len(items) \in 1..MaxFields
  /\ \A i \in DOMAIN items : /\ validate_field_name(items[i].name)
                             /\ validate_field_value(items[i].value)

\* The digest of a JSON array of [name, [values]] pairs.  The framing is unambiguous
\* and SHA-256 is taken as free of collisions, so the pairs stand for it.
payload_fingerprint(content) ==
  [k \in DOMAIN content |-> <<content[k].name, content[k].values>>]

-----------------------------------------------------------------------------
(***************************************************************************)
(* The reference for the fingerprint, without computing one: one form is   *)
(* the other with pairs moved, but never past a pair of the same name and  *)
(* never so that names first appear in another order.                      *)
(***************************************************************************)
SameContent(a, b) ==
  /\ Len(a) = Len(b)
  /\ \E moved \in [DOMAIN a -> DOMAIN b] :
       /\ \A i \in DOMAIN a : b[moved[i]] = a[i]
       /\ \A i, j \in DOMAIN a :
            /\ moved[i] = moved[j] => i = j
            /\ i < j /\ a[i].name = a[j].name => moved[i] < moved[j]
            /\ i < j /\ FirstOfName(a, i) /\ FirstOfName(a, j) => moved[i] < moved[j]

=============================================================================
