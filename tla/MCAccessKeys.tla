---------------------------- MODULE MCAccessKeys ----------------------------
(* Instances of AccessKeys for TLC.                                         *)
EXTENDS AccessKeys, TLC

CONSTANTS k1, k2, h1, h2, h3

\* One key in keys.yaml.
OneFileKey == k1 :> h1

FileHashSymmetry == Permutations({h2, h3})
=============================================================================
