----------------------------- MODULE MCIngress ------------------------------
(***************************************************************************)
(* Bodies from empty to twice the limit, in every way of cutting them into *)
(* messages.                                                               *)
(***************************************************************************)
EXTENDS Ingress

MCSizes == 0..(2 * MaxBytes)
=============================================================================
