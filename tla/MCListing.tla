----------------------------- MODULE MCListing ------------------------------
(***************************************************************************)
(* Pages of two rows over submissions that share their instants.  One      *)
(* filter matches everything, one an endpoint within two bounds, and one   *)
(* nothing at all.  The fields of the submissions overlap in part; one     *)
(* name reads as a formula and one shadows a metadata column.              *)
(***************************************************************************)
EXTENDS Listing

Filter(endpoint, after, before) ==
  [endpoint_id |-> endpoint, received_after |-> after, received_before |-> before]

MCFilters == {Filter(None, None, None), Filter("form", 0, MaxClock), Filter(None, 1, 1)}

MCEndpointOf == [s \in Submissions |-> IF s = 3 THEN "other" ELSE "form"]

Field(name, values) == [name |-> name, values |-> values]

MCFieldsOf ==
  [s \in Submissions |->
     CASE s = 1 -> <<Field(Text(0, "email"), <<"x", "y">>)>>
       [] s = 2 -> <<Field(Text(0, "=sum"), <<"">>), Field(Text(0, "email"), <<"y">>)>>
       [] s = 3 -> <<Field(Text(1, "note"), <<"z">>), Field(Text(0, "email"), <<"">>)>>
       [] s = 4 -> <<Field(Text(0, "submission_id"), <<"1">>), Field(Text(1, "=sum"), <<"x">>)>>]
=============================================================================
