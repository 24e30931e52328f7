-------------------------- MODULE MCHostAuthority --------------------------
EXTENDS HostAuthority, TLC

CONSTANTS b1, b2

Interchangeable == Permutations({b1, b2})
=============================================================================
