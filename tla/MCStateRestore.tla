--------------------------- MODULE MCStateRestore ---------------------------
(* Small instances of StateRestore for TLC.                                *)
EXTENDS StateRestore, TLC

CONSTANTS c1, c2, a1, a2, s1, s2, p1, p2

\* One package with every space, one whose backup found no memory service.
SpacesOfPackages == p1 :> {s1, s2} @@ p2 :> {}

Interchangeable == Permutations({a1, a2}) \cup Permutations({s1, s2})
=============================================================================
