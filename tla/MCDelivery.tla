----------------------------- MODULE MCDelivery -----------------------------
(***************************************************************************)
(* Small instances of Delivery: one answer of each kind the worker tells   *)
(* apart, interchangeable workers and, where all can be sent, deliveries.  *)
(***************************************************************************)
EXTENDS Delivery, TLC

MCResults == {deliver(Answer(204)), deliver(TimedOut), deliver(Answer(404))}

MCSymmetry       == Permutations(Deliveries) \cup Permutations(Workers)
MCWorkerSymmetry == Permutations(Workers)
=============================================================================
