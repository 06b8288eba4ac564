-------------------------- MODULE MCBillingStream ---------------------------
(* BillingStream on small instances.                                        *)
EXTENDS BillingStream, TLC
=============================================================================
