------------------------------ MODULE MCReload ------------------------------
(* Reload on small instances.                                               *)
EXTENDS Reload, TLC
=============================================================================
