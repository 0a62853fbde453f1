------------------------------ MODULE MCBilling ------------------------------
(* Model values and symmetry for the runs of BillingAutomation.            *)
EXTENDS BillingAutomation, TLC

\* Worker slots are interchangeable: nothing but their identity is used.
WorkerSymmetry == Permutations(Workers)
=============================================================================
