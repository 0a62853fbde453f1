------------------------------ MODULE MCJourney ------------------------------
(***************************************************************************)
(* Subscription journeys for TLC: the workers are interchangeable in every *)
(* safety property, and a symmetry set cuts the states in two.             *)
(***************************************************************************)
EXTENDS SubscriptionJourney, TLC

WorkerSymmetry == Permutations(Workers)

=============================================================================
