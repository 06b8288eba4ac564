-------------------------- MODULE MCReconciliation --------------------------
(* Reconciliation on small instances.                                       *)
EXTENDS Reconciliation, TLC
=============================================================================
