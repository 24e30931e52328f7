-------------------------- MODULE MCTargetInstall --------------------------
(* Small instances of TargetInstall for TLC.                               *)
EXTENDS TargetInstall, TLC

CONSTANTS d1, d2, r1, r2, i1, i2, v1, v2, c1, c2

Interchangeable == Permutations({i1, i2}) \cup Permutations({c1, c2})
=============================================================================
