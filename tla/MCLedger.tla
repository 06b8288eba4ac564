------------------------------ MODULE MCLedger ------------------------------
(* Ledger on small instances.                                               *)
EXTENDS Ledger, TLC

MCDeltas == {1, -1}
MCSymmetry == Permutations(Procs) \cup Permutations(Ids)
=============================================================================
