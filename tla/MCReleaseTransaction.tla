---------------------- MODULE MCReleaseTransaction ----------------------
(* Small instances of ReleaseTransaction for TLC.                        *)
EXTENDS ReleaseTransaction, TLC

CONSTANTS r1, r2, r3, c1, c2, f1, f2, o1, o2

\* Components and Host files are interchangeable; releases are not, because
\* Installed and ForwardOnly tell them apart.
Interchangeable == Permutations({c1, c2}) \cup Permutations({f1, f2})
=============================================================================
