----------------------------- MODULE MCRunStore -----------------------------
(* Small instances of RunStore for TLC.                                    *)
EXTENDS RunStore

CONSTANTS h1, h2, s1, s2, n1, n2
=============================================================================
