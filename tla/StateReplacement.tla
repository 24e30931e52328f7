-------------------------- MODULE StateReplacement --------------------------
(***************************************************************************)
(* What a restore promises the product: its authorities are replaced as    *)
(* one, and only while none of them is being served.  StateRestore, which  *)
(* works file by file and may fail anywhere, is shown to implement it.     *)
(***************************************************************************)
CONSTANTS Authority, Version, None

VARIABLES
  content,   \* the one version all authorities of the Host are at
  serving    \* the version each authority's unit reads, or None

vars == <<content, serving>>

Init ==
  /\ content \in Version
  /\ serving = [a \in Authority |-> content]

Serve(a) ==
  /\ serving[a] = None
  /\ serving' = [serving EXCEPT ![a] = content]
  /\ UNCHANGED content

Leave(a) ==
  /\ serving' = [serving EXCEPT ![a] = None]
  /\ UNCHANGED content

Replace(v) ==
  /\ \A a \in Authority : serving[a] = None
  /\ content' = v
  /\ UNCHANGED serving

Next ==
  \/ \E a \in Authority : Serve(a) \/ Leave(a)
  \/ \E v \in Version : Replace(v)

Spec == Init /\ [][Next]_vars
=============================================================================
