----------------------------- MODULE MCApiKeys ------------------------------
(***************************************************************************)
(* Two keys, two revocations and two requests, which may all be about one. *)
(***************************************************************************)
EXTENDS ApiKeys, TLC

MCSymmetry == Permutations(Keys) \cup Permutations(Commands) \cup Permutations(Requests)
=============================================================================
