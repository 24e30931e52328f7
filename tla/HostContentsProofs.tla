------------------------- MODULE HostContentsProofs -------------------------
(***************************************************************************)
(* What is proved of what a Host is given: of the units its documents       *)
(* select (HostSelection), that they can be started; of the models that     *)
(* deploys carry to it and take away (ArtifactStore), that those a served   *)
(* release selects are there; of its Owner's directories (OwnerDirectory),  *)
(* that devices are shown one line of them.  HostUpkeepProofs has the other *)
(* machines.                                                                *)
(***************************************************************************)
EXTENDS HostUpkeepProofs, Sequences

-----------------------------------------------------------------------------
(* HostSelection: x1 documents, x2 phase, x3 caps, x4 callers, x5 kept,     *)
(* x6 visiting, x7 settled.                                                 *)

Accepted == {"installable", "unasked", "wipe refused", "wipe admitted"}

\* A walk is over the units of contracts that passed as a set.
PassedAsSet ==
  /\ ~Selection!Contradicts /\ ~Selection!UnknownDependency
  /\ x5 = Selection!SelectedOf(Selection!Declared)

\* The path on which the walk is: no unit twice, each needed by the one before.
OnPath ==
  /\ x6 \in Seq(x5)
  /\ \A i, j \in 1..Len(x6) : x6[i] = x6[j] => i = j
  /\ \A i \in 1..Len(x6) : x6[i] \notin x7
  /\ \A i \in 1..Len(x6) - 1 : x6[i + 1] \in x1.deps[x6[i]]

\* A unit waits for nothing among these, wherever one looks.
Grounded(S) == \A us \in (SUBSET S) \ {{}} : \E u \in us : x1.deps[u] \cap us = {}

\* What is settled needs only what is settled, and can be started.
Settles ==
  /\ x7 \subseteq x5
  /\ \A u \in x7 : Selection!Arcs(u) \subseteq x7
  /\ Grounded(x7)

SelectionInv ==
  /\ x2 \in {"documents", "configured", "refused", "walk"} \cup Accepted
  /\ x2 = "documents" => x4 = Selection!Untold
  /\ x2 \in {"documents", "configured"} => x5 = {} /\ x6 = <<>> /\ x7 = {}
  /\ Selection!CallersReachServices
  /\ x2 \in {"walk"} \cup Accepted => PassedAsSet
  /\ x2 = "walk" => OnPath /\ Settles
  /\ x2 \in Accepted => Selection!Startable
  /\ x2 = "refused" /\ x5 # {} => ~Selection!Startable
  /\ Selection!WipeReaches

LEMMA SelectionInit == ASSUME SelectionAssumption, Selection!Init PROVE SelectionInv
<1>1. /\ x2 = "documents" /\ x3 = {} /\ x4 = Selection!Untold /\ x5 = {} /\ x6 = <<>> /\ x7 = {}
  BY DEF Selection!Init
<1>2. x4.provider = {} /\ x4.address = None /\ x4.endpoint = None
  BY <1>1 DEF Selection!Untold
<1>3. Selection!CallersReachServices
  BY <1>2, SelectionAssumption DEF Selection!CallersReachServices
<1> QED BY <1>1, <1>3 DEF SelectionInv, Accepted, Selection!WipeReaches

\* The judgement of the narrowed document is what a caller can rely on.
LEMMA SelectionLoads == ASSUME SelectionInv, Selection!LoadConfig PROVE SelectionInv'
<1> DEFINE cs == Selection!Narrowed
<1>1. /\ x2 = "documents" /\ UNCHANGED <<x1, x5, x6, x7>>
  BY DEF Selection!LoadConfig
<1>2. CASE x2' = "refused" /\ UNCHANGED <<x3, x4>>
  BY <1>1, <1>2 DEF SelectionInv, Accepted, Selection!CallersReachServices, Selection!WipeReaches
<1>3. CASE Selection!Judged(cs) /\ x2' = "configured" /\ x3' = cs /\ x4' = Selection!Told(cs)
  <2>1. /\ x4'.provider = Selection!Providers /\ x4'.address = x1.address
        /\ x4'.endpoint = IF Tasked \in cs THEN "service" ELSE x1.remote
    BY <1>3 DEF Selection!Told
  <2>2. /\ \A v \in Selection!Providers : v \notin Capability \ cs
        /\ x1.address # None => Local \in cs
    BY <1>3 DEF Selection!Judged, Selection!OverlayRefused
  <2>3. Selection!CallersReachServices'
    BY <1>1, <1>3, <2>1, <2>2 DEF Selection!CallersReachServices
  <2> QED BY <1>1, <1>3, <2>3 DEF SelectionInv, Accepted, Selection!WipeReaches
<1> QED BY <1>2, <1>3 DEF Selection!LoadConfig

LEMMA SelectionSelects == ASSUME SelectionInv, Selection!Select PROVE SelectionInv'
<1>1. /\ x2 = "configured" /\ UNCHANGED <<x1, x3, x4, x6, x7>>
      /\ x5 = {} /\ x6 = <<>> /\ x7 = {} /\ Selection!CallersReachServices
  BY DEF Selection!Select, SelectionInv
<1>2. Selection!CallersReachServices'
  BY <1>1 DEF Selection!CallersReachServices
<1>3. CASE x2' = "refused" /\ UNCHANGED x5
  BY <1>1, <1>2, <1>3 DEF SelectionInv, Accepted, Selection!WipeReaches
<1>4. CASE /\ ~Selection!Contradicts /\ ~Selection!UnknownDependency /\ x2' = "walk"
           /\ x5' = Selection!SelectedOf(Selection!Declared)
  <2>1. (Selection!Contradicts' <=> Selection!Contradicts) /\ Selection!Declared' = Selection!Declared
    BY <1>1 DEF Selection!Contradicts, Selection!Declared, Selection!Pinned, Selection!Covered
  <2>2. Selection!SelectedOf(Selection!Declared)' = Selection!SelectedOf(Selection!Declared)
    BY <1>1, <2>1 DEF Selection!SelectedOf, Selection!Selected
  <2>3. Selection!UnknownDependency' <=> Selection!UnknownDependency
    BY <1>1, <2>2 DEF Selection!UnknownDependency, Selection!Known
  <2>4. PassedAsSet' BY <1>4, <2>1, <2>2, <2>3 DEF PassedAsSet
  <2>5. OnPath' /\ Settles' BY <1>1 DEF OnPath, Settles, Grounded
  <2> QED BY <1>2, <1>4, <2>4, <2>5 DEF SelectionInv, Accepted, Selection!WipeReaches
<1> QED BY <1>3, <1>4 DEF Selection!Select

\* The documents, the capabilities and the units do not change any more.
LEMMA SelectionRests ==
  ASSUME SelectionInv, UNCHANGED <<x1, x3, x4, x5>>
  PROVE  /\ Selection!CallersReachServices'
         /\ PassedAsSet' <=> PassedAsSet
         /\ Selection!Startable' <=> Selection!Startable
         /\ \A S : Grounded(S)' <=> Grounded(S)
<1>1. Selection!CallersReachServices'
  BY DEF SelectionInv, Selection!CallersReachServices
<1>2. (Selection!Contradicts' <=> Selection!Contradicts) /\ Selection!Declared' = Selection!Declared
  BY DEF Selection!Contradicts, Selection!Declared, Selection!Pinned, Selection!Covered
<1>3. Selection!SelectedOf(Selection!Declared)' = Selection!SelectedOf(Selection!Declared)
  BY <1>2 DEF Selection!SelectedOf, Selection!Selected
<1>4. Selection!UnknownDependency' <=> Selection!UnknownDependency
  BY <1>3 DEF Selection!UnknownDependency, Selection!Known
<1>5. Selection!Startable' <=> Selection!Startable BY DEF Selection!Startable
<1>6. \A S : Grounded(S)' <=> Grounded(S) BY DEF Grounded
<1> QED BY <1>1, <1>2, <1>3, <1>4, <1>5, <1>6 DEF PassedAsSet

\* A unit all of whose arcs are settled adds nothing that waits for itself.
LEMMA GroundedGrows ==
  ASSUME Settles, NEW u \in x5, u \notin x7, Selection!Arcs(u) \subseteq x7
  PROVE  Grounded(x7 \cup {u})
<1> SUFFICES ASSUME NEW us \in SUBSET (x7 \cup {u}), us # {}
             PROVE  \E w \in us : x1.deps[w] \cap us = {}
  BY DEF Grounded
<1>1. us \subseteq x5 BY DEF Settles
<1>2. CASE us \ {u} = {}
  <2>1. us = {u} BY <1>2
  <2>2. u \notin x1.deps[u] BY DEF Selection!Arcs
  <2> QED BY <2>1, <2>2
<1>3. CASE us \ {u} # {}
  <2>1. us \ {u} \in (SUBSET x7) \ {{}} BY <1>3
  <2>2. PICK w \in us \ {u} : x1.deps[w] \cap (us \ {u}) = {}
    BY <2>1 DEF Settles, Grounded
  <2>3. w \in x7 BY <2>2
  <2>4. u \notin x1.deps[w] BY <2>3 DEF Settles, Selection!Arcs
  <2> QED BY <2>2, <2>4
<1> QED BY <1>2, <1>3

\* A step back: the unit the walk is at is settled.
LEMMA SelectionSettles ==
  ASSUME OnPath, Settles, x6 # <<>>, Selection!Arcs(Selection!Last(x6)) \subseteq x7,
         Selection!Settle(Selection!Last(x6)), UNCHANGED <<x1, x3, x4, x5>>
  PROVE  OnPath' /\ Settles'
<1> DEFINE n == Len(x6)
<1> DEFINE u == x6[n]
<1>1. /\ n \in Nat \ {0} /\ x6 \in Seq(x5) /\ u \in x5 /\ u \notin x7 /\ x6 = [i \in 1..n |-> x6[i]]
  BY DEF OnPath
<1>2. x6' = SubSeq(x6, 1, n - 1) /\ x7' = x7 \cup {u} /\ Selection!Arcs(u) \subseteq x7
  BY DEF Selection!Settle, Selection!Front, Selection!Last
<1>3. x6' \in Seq(x5) /\ Len(x6') = n - 1 /\ \A i \in 1..n - 1 : x6'[i] = x6[i]
  BY <1>1, <1>2
<1>4. Grounded(x7 \cup {u}) BY <1>1, <1>2, GroundedGrows
<1>5. Grounded(x7)' BY <1>2, <1>4 DEF Grounded
<1>6. \A w \in x7' : Selection!Arcs(w)' \subseteq x7'
  BY <1>2 DEF Settles, Selection!Arcs
<1>7. Settles' BY <1>1, <1>2, <1>5, <1>6 DEF Settles
<1>8. \A i \in 1..n - 1 : x6[i] # u BY <1>1 DEF OnPath
<1>9. OnPath' BY <1>1, <1>2, <1>3, <1>8 DEF OnPath
<1> QED BY <1>7, <1>9

\* A step on: to a unit that the path ends in an arc to, or is empty.
LEMMA SelectionVisits ==
  ASSUME OnPath, Settles, NEW v \in x5, v \notin x7, v \notin Selection!Range(x6),
         x6 # <<>> => v \in x1.deps[Selection!Last(x6)],
         Selection!Visit(v), UNCHANGED <<x1, x3, x4, x5>>
  PROVE  OnPath' /\ Settles'
<1> DEFINE n == Len(x6)
<1>1. n \in Nat /\ x6 \in Seq(x5) /\ x6' = Append(x6, v) /\ x7' = x7
  BY DEF OnPath, Selection!Visit
<1>2. /\ x6' \in Seq(x5) /\ Len(x6') = n + 1 /\ x6'[n + 1] = v
      /\ \A i \in 1..n : x6'[i] = x6[i]
  BY <1>1
<1>3. \A i \in 1..n : x6[i] # v BY <1>1 DEF Selection!Range
<1>4. \A i \in 1..n : x6'[i + 1] \in x1.deps[x6'[i]]
  <2> TAKE i \in 1..n
  <2>1. CASE i = n
    <3>1. x6 # <<>> BY <1>1, <2>1
    <3> QED BY <1>2, <2>1, <3>1, <1>1 DEF Selection!Last
  <2>2. CASE i # n
    BY <1>1, <1>2, <2>2 DEF OnPath
  <2> QED BY <2>1, <2>2
<1>5. \A i, j \in 1..n + 1 : x6'[i] = x6'[j] => i = j
  BY <1>1, <1>2, <1>3 DEF OnPath
<1>6. \A i \in 1..n + 1 : x6'[i] \notin x7' BY <1>1, <1>2 DEF OnPath
<1>7. OnPath' BY <1>1, <1>2, <1>4, <1>5, <1>6 DEF OnPath
<1>8. Settles' BY <1>1 DEF Settles, Selection!Arcs, Grounded
<1> QED BY <1>7, <1>8

\* An arc back onto the path closes a circle, in which each waits for the next.
LEMMA CircleCannotStart ==
  ASSUME OnPath, x6 # <<>>, NEW v \in Selection!Arcs(Selection!Last(x6)), v \in Selection!Range(x6)
  PROVE  ~Selection!Startable
<1> DEFINE n == Len(x6)
<1>1. n \in Nat \ {0} /\ x6 \in Seq(x5) /\ v \in x1.deps[x6[n]]
  BY DEF OnPath, Selection!Arcs, Selection!Last
<1>2. PICK i \in 1..n : x6[i] = v BY <1>1 DEF Selection!Range
<1> DEFINE us == {x6[j] : j \in i..n}
<1>3. us \in (SUBSET x5) \ {{}}
  <2>1. \A j \in i..n : j \in 1..n /\ x6[j] \in x5 BY <1>1, <1>2
  <2>2. x6[n] \in us BY <1>1, <1>2
  <2> QED BY <2>1, <2>2
<1>4. \A u \in us : \E w \in us : w \in x1.deps[u]
  <2> SUFFICES ASSUME NEW j \in i..n PROVE \E w \in us : w \in x1.deps[x6[j]]
    OBVIOUS
  <2>1. CASE j = n BY <1>1, <1>2, <2>1
  <2>2. CASE j # n
    <3>1. j \in 1..n - 1 /\ j + 1 \in i..n BY <1>1, <1>2, <2>2
    <3> QED BY <3>1 DEF OnPath
  <2> QED BY <2>1, <2>2
<1>5. ~ \E u \in us : x1.deps[u] \cap us = {} BY <1>4
<1> HIDE DEF us
<1> QED BY <1>3, <1>5 DEF Selection!Startable

LEMMA SelectionWalks == ASSUME SelectionInv, Selection!Walk PROVE SelectionInv'
<1>1. /\ x2 = "walk" /\ UNCHANGED <<x1, x3, x4, x5>> /\ OnPath /\ Settles /\ PassedAsSet
  BY DEF Selection!Walk, SelectionInv
<1>2. Selection!CallersReachServices' /\ PassedAsSet' BY <1>1, SelectionRests
<1>3. ASSUME x2' = "walk", OnPath', Settles' PROVE SelectionInv'
  BY <1>2, <1>3 DEF SelectionInv, Accepted, Selection!WipeReaches
<1>4. CASE x6 = <<>>
  <2>1. PICK v \in x5 \ x7 : Selection!Visit(v) BY <1>4 DEF Selection!Walk
  <2>2. v \notin Selection!Range(x6) BY <1>4 DEF Selection!Range
  <2>3. OnPath' /\ Settles' BY <1>1, <1>4, <2>1, <2>2, SelectionVisits
  <2> QED BY <1>1, <1>3, <2>1, <2>3 DEF Selection!Visit
<1>5. CASE x6 # <<>>
  <2> DEFINE u == Selection!Last(x6)
  <2>1. Selection!Follow(u) BY <1>5 DEF Selection!Walk
  <2>2. CASE Selection!Arcs(u) \subseteq x7
    <3>1. Selection!Settle(u) BY <2>1, <2>2 DEF Selection!Follow
    <3>2. OnPath' /\ Settles' BY <1>1, <1>5, <2>2, <3>1, SelectionSettles
    <3> QED BY <1>1, <1>3, <3>1, <3>2 DEF Selection!Settle
  <2>3. CASE ~(Selection!Arcs(u) \subseteq x7)
    <3>1. PICK v \in Selection!Arcs(u) \ x7 :
            IF v \in Selection!Range(x6) THEN x2' = "refused" /\ UNCHANGED <<x6, x7>>
            ELSE Selection!Visit(v)
      BY <2>1, <2>3 DEF Selection!Follow
    <3>2. CASE v \in Selection!Range(x6)
      <4>1. ~Selection!Startable' BY <1>1, <1>5, <3>2, CircleCannotStart, SelectionRests
      <4> QED BY <1>2, <3>1, <3>2, <4>1 DEF SelectionInv, Accepted, Selection!WipeReaches
    <3>3. CASE v \notin Selection!Range(x6)
      <4>1. Selection!Visit(v) /\ v \in x5 /\ v \in x1.deps[u] BY <3>1, <3>3 DEF Selection!Arcs
      <4>2. OnPath' /\ Settles' BY <1>1, <3>1, <3>3, <4>1, SelectionVisits
      <4> QED BY <1>1, <1>3, <4>1, <4>2 DEF Selection!Visit
    <3> QED BY <3>2, <3>3
  <2> QED BY <2>2, <2>3
<1> QED BY <1>4, <1>5

\* A walk that has settled every unit has found an order to start them in.
LEMMA SelectionEndsWalk == ASSUME SelectionInv, Selection!EndWalk PROVE SelectionInv'
<1>1. /\ x2 = "walk" /\ x5 = x7 /\ x2' = "installable" /\ UNCHANGED <<x1, x3, x4, x5, x6, x7>>
      /\ Settles /\ PassedAsSet
  BY DEF Selection!EndWalk, SelectionInv
<1>2. Selection!CallersReachServices' /\ PassedAsSet' BY <1>1, SelectionRests
<1>3. \A u \in x5 : x1.deps[u] \subseteq x5 \cup Targets
  BY <1>1 DEF PassedAsSet, Selection!UnknownDependency, Selection!Known
<1>4. Selection!Startable BY <1>1, <1>3 DEF Settles, Grounded, Selection!Startable
<1>5. Selection!Startable' BY <1>1, <1>4, SelectionRests
<1> QED BY <1>1, <1>2, <1>5 DEF SelectionInv, Accepted, Selection!WipeReaches

\* What lies in a factory root lies in what a wipe clears, if the roots do.
LEMMA SelectionPlansWipe ==
  ASSUME SelectionAssumption, SelectionInv, Selection!PlanWipe
  PROVE  SelectionInv'
<1>1. /\ x2 = "installable" /\ UNCHANGED <<x1, x3, x4, x5, x6, x7>>
      /\ PassedAsSet /\ Selection!Startable
      /\ x2' \in {"unasked", "wipe refused", "wipe admitted"}
      /\ x2' = "wipe admitted" =>
           ~(Selection!Pinned \cap x1.silent # {}) /\ ~Selection!Stranded
  BY DEF Selection!PlanWipe, SelectionInv, Accepted
<1>2. Selection!CallersReachServices' /\ PassedAsSet' /\ Selection!Startable'
  BY <1>1, SelectionRests
<1>3. Selection!Pinned' = Selection!Pinned /\ Selection!Declared' = Selection!Declared
  BY <1>1 DEF Selection!Declared, Selection!Pinned
<1>4. ASSUME x2' = "wipe admitted", Extra \in Selection!Declared, x1.state # None
      PROVE  Selection!Covered(x1.state, Cleared)
  <2>1. PICK p \in x1.factory : <<x1.state, p>> \in Under
    BY <1>1, <1>4 DEF PassedAsSet, Selection!Contradicts, Selection!Covered
  <2>2. PICK root \in Cleared : <<p, root>> \in Under
    BY <1>1, <1>4 DEF Selection!Stranded, Selection!Covered
  <2>3. <<x1.state, root>> \in Under BY <2>1, <2>2, SelectionAssumption
  <2> QED BY <2>2, <2>3 DEF Selection!Covered
<1>5. Selection!WipeReaches'
  BY <1>1, <1>3, <1>4 DEF Selection!WipeReaches, Selection!Covered
<1> QED BY <1>1, <1>2, <1>5 DEF SelectionInv, Accepted

LEMMA SelectionStep ==
  ASSUME SelectionAssumption, SelectionInv, Selection!Next
  PROVE  SelectionInv'
BY SelectionLoads, SelectionSelects, SelectionWalks, SelectionEndsWalk, SelectionPlansWipe
   DEF Selection!Next

\* SelectionStarts: for any components, units and declared dependencies, the
\* walk accepts a set of units exactly if some order starts them all; a caller
\* is told only of services this Host runs; and a wipe reaches the state the
\* components declare, of directories that lie in each other as paths do.
THEOREM SelectionIsStartable == Spec => []SelectionStarts
<1> DEFINE I == machine = "selection" => SelectionInv
<1>1. Init => I
  BY SelectionAssumption, SelectionInit DEF Init
<1>2. I /\ [Next]_vars => I'
  <2>1. CASE Next
    BY <2>1, OneMachine, SelectionAssumption, SelectionStep
  <2>2. CASE UNCHANGED vars
    <3>1. UNCHANGED <<x1, x2, x3, x4, x5, x6, x7, machine>> BY <2>2 DEF vars
    <3>2. SelectionInv => SelectionInv'
      <4> SUFFICES ASSUME SelectionInv PROVE SelectionInv' OBVIOUS
      <4>1. OnPath => OnPath' BY <3>1 DEF OnPath
      <4>2. Settles => Settles' BY <3>1 DEF Settles, Grounded, Selection!Arcs
      <4>3. Selection!WipeReaches'
        BY <3>1 DEF SelectionInv, Selection!WipeReaches, Selection!Pinned, Selection!Declared,
          Selection!Covered
      <4>4. x4' = Selection!Untold' <=> x4 = Selection!Untold BY <3>1 DEF Selection!Untold
      <4> QED BY <3>1, <4>1, <4>2, <4>3, <4>4, SelectionRests DEF SelectionInv
    <3> QED BY <3>1, <3>2
  <2> QED BY <2>1, <2>2
<1>3. I => SelectionStarts
  <2> SUFFICES ASSUME machine = "selection", SelectionInv PROVE SelectionStarts
    BY DEF SelectionStarts
  <2>1. Selection!WalkIsExact BY DEF SelectionInv, Accepted, Selection!WalkIsExact
  <2> QED BY <2>1 DEF SelectionInv, SelectionStarts
<1> QED BY <1>1, <1>2, <1>3, PTL DEF Spec

-----------------------------------------------------------------------------
(* ArtifactStore: x1 store, x2 carried, x3 model, x4 stage, x5 prepared,     *)
(* x6 active, x7 lingering, x8 marker, x9 deploy, x10 deploys, x11 sound.    *)

\* A deploy asks for the models in one of these, carries none yet before them.
Asking == {"models", "clear", "send", "sending", "place", "copy"}
Before == {"ask", "guard", "upload", "finalize", "install"} \cup Asking
OnRecord == Before \cup {"activate", "gate", "abort"}
Retiring == {"retire", "match", "remove"}

Deploy(S) ==
  [pc : {"idle"} \cup OnRecord \cup Retiring, release : Release \cup {None}, rehearses : BOOLEAN,
   list : S, done : S, from : Release \cup {None}, lost : BOOLEAN]
ArtifactTyped ==
  /\ x1 = [o \in Artifact!Object |-> x1[o]] /\ x3 = [m \in Model |-> x3[m]]
  /\ x5 \cup x11 \subseteq Release /\ x6 \in x5 /\ x7 \in x5 \cup {None}
  /\ x8 \in Release \cup {None}
  /\ \E S : x9 \in [Operator -> Deploy(S)]
  /\ \A d \in Operator : x9[d].pc # "idle" => x9[d].release \in Release

\* A deploy that nobody took off the record is on it.
Recorded(d) == x9[d].pc \in OnRecord /\ ~x9[d].lost
MarkerNames == \A d \in Operator : Recorded(d) => x8 = x9[d].release

\* What may be activated without a question has its models; of what is asked
\* for, what was found stays.
PreparedWhole == \A r \in x11 \cap x5 : \A m \in Selects[r] : x3[m] = "whole"
FoundStays ==
  \A d \in Operator :
    /\ x9[d].pc = "ask" => x9[d].done = {}
    /\ Recorded(d) /\ x9[d].pc \in Asking =>
         \A m \in x9[d].done \cap Selects[x9[d].release] : x3[m] = "whole"

\* One deploy retires at a time, and nothing is prepared meanwhile but what it
\* has committed and what is on record.
OneRetires ==
  \A d, e \in Operator : x9[d].pc \in Retiring /\ x9[e].pc \in Retiring => d = e
PreparedMeanwhile(e) == x11 \cap x5 \subseteq {x9[e].release, x8}
Meanwhile(d) ==
  /\ x9[d].pc \in OnRecord /\ x9[d].lost => x8 = None
  /\ Recorded(d) /\ x9[d].pc \in Before => x9[d].release \notin x5
  /\ Recorded(d) /\ x9[d].pc = "abort" => x9[d].release # x7

\* What is taken away is of no release that may be served.
AtModel(e) == Artifact!Min(Artifact!Unselected(e))
TakenIsUnselected(e) ==
  /\ x9[e].pc \in {"match", "remove"} =>
       \A r \in x11 \cap x5 : AtModel(e) \notin Selects[r]
  /\ x9[e].pc = "match" =>
       \A d \in Operator : Recorded(d) /\ x9[d].pc \in Asking => x9[d].pc = "models" /\ x9[d].done = {}
  /\ x9[e].pc = "remove" /\ AtModel(e) \in Model => x3[AtModel(e)] = "torn"

ArtifactInv ==
  /\ ArtifactTyped /\ MarkerNames /\ PreparedWhole /\ FoundStays /\ OneRetires
  /\ \A e \in Operator : x9[e].pc \in Retiring =>
       /\ PreparedMeanwhile(e) /\ TakenIsUnselected(e)
       /\ \A d \in Operator \ {e} : Meanwhile(d)

ArtifactGranted == "stalls" \notin Faults /\ "asks_meanwhile" \notin Faults
TwoDrivers == \A a, b, c \in Operator : a = b \/ b = c \/ a = c

LEMMA ArtifactInit == ASSUME ArtifactAssumption, Artifact!Init PROVE ArtifactInv
<1>1. /\ x6 \in Release /\ x5 = {x6} /\ x7 = None /\ x8 = None /\ x11 = {x6}
      /\ x1 = [o \in Artifact!Object |-> x1[o]]
      /\ x3 = [m \in Model |-> IF m \in Selects[x6] THEN "whole" ELSE "absent"]
      /\ x9 = [d \in Operator |-> Artifact!Idle]
  BY DEF Artifact!Init
<1>2. Artifact!Idle \in Deploy({{}}) /\ Artifact!Idle.pc = "idle"
  BY DEF Deploy, Artifact!Idle
<1>3. \A d \in Operator : x9[d].pc = "idle" BY <1>1, <1>2
<1>4. ArtifactTyped
  <2>1. x9 \in [Operator -> Deploy({{}})] BY <1>1, <1>2
  <2> QED BY <1>1, <1>3, <2>1 DEF ArtifactTyped
<1>5. PreparedWhole
  <2>1. \A m \in Selects[x6] : m \in Model BY <1>1, ArtifactAssumption
  <2> QED BY <1>1, <2>1 DEF PreparedWhole
<1> QED
  BY <1>3, <1>4, <1>5
  DEF ArtifactInv, MarkerNames, Recorded, FoundStays, OneRetires, OnRecord, Before, Asking, Retiring

\* What a deploy is after a step of it that leaves what it deploys.
Passes(d, pc) ==
  /\ \E S : x9' \in [Operator -> Deploy(S)]
  /\ \A e \in Operator \ {d} : x9'[e] = x9[e]
  /\ (x9[d].pc)' = pc /\ (x9[d].release)' = x9[d].release /\ (x9[d].lost)' = x9[d].lost

LEMMA ArtifactGoto ==
  ASSUME ArtifactTyped, NEW d \in Operator, NEW pc \in OnRecord \cup Retiring,
         Artifact!Goto(d, pc)
  PROVE  Passes(d, pc) /\ (x9[d].done)' = x9[d].done
<1>1. PICK S : x9 \in [Operator -> Deploy(S)] BY DEF ArtifactTyped
<1> DEFINE T == S \cup {{}}
<1>2. x9 \in [Operator -> Deploy(T)] BY <1>1 DEF Deploy
<1>3. x9' \in [Operator -> Deploy(T)] BY <1>2 DEF Deploy, Artifact!Goto
<1> HIDE DEF T
<1> QED BY <1>2, <1>3 DEF Passes, Deploy, Artifact!Goto

LEMMA ArtifactGoes ==
  ASSUME ArtifactTyped, NEW d \in Operator, NEW pc \in OnRecord \cup Retiring,
         NEW done, x9' = [x9 EXCEPT ![d].pc = pc, ![d].done = done]
  PROVE  Passes(d, pc) /\ (x9[d].done)' = done
<1>1. PICK S : x9 \in [Operator -> Deploy(S)] BY DEF ArtifactTyped
<1> DEFINE T == S \cup {done}
<1>2. x9 \in [Operator -> Deploy(T)] BY <1>1 DEF Deploy
<1>3. x9' \in [Operator -> Deploy(T)] BY <1>2 DEF Deploy
<1> HIDE DEF T
<1> QED BY <1>2, <1>3 DEF Passes, Deploy

LEMMA ArtifactAdds ==
  ASSUME ArtifactTyped, NEW d \in Operator, NEW done,
         x9' = [x9 EXCEPT ![d].done = done]
  PROVE  Passes(d, x9[d].pc) /\ (x9[d].done)' = done
<1>1. PICK S : x9 \in [Operator -> Deploy(S)] BY DEF ArtifactTyped
<1> DEFINE T == S \cup {done}
<1>2. x9 \in [Operator -> Deploy(T)] BY <1>1 DEF Deploy
<1>3. x9' \in [Operator -> Deploy(T)] BY <1>2 DEF Deploy
<1> HIDE DEF T
<1> QED BY <1>2, <1>3 DEF Passes, Deploy

LEMMA ArtifactLists ==
  ASSUME ArtifactTyped, NEW d \in Operator, NEW pc \in OnRecord,
         NEW list, x9' = [x9 EXCEPT ![d].list = list, ![d].pc = pc]
  PROVE  Passes(d, pc) /\ (x9[d].done)' = x9[d].done
<1>1. PICK S : x9 \in [Operator -> Deploy(S)] BY DEF ArtifactTyped
<1> DEFINE T == S \cup {list}
<1>2. x9 \in [Operator -> Deploy(T)] BY <1>1 DEF Deploy
<1>3. x9' \in [Operator -> Deploy(T)] BY <1>2 DEF Deploy
<1> HIDE DEF T
<1> QED BY <1>2, <1>3 DEF Passes, Deploy

LEMMA ArtifactStarts ==
  ASSUME ArtifactTyped, NEW d \in Operator, NEW from \in Release,
         x9' = [x9 EXCEPT ![d].pc = "gate", ![d].from = from]
  PROVE  Passes(d, "gate")
<1>1. PICK S : x9 \in [Operator -> Deploy(S)] BY DEF ArtifactTyped
<1> DEFINE T == S \cup {{}}
<1>2. x9 \in [Operator -> Deploy(T)] BY <1>1 DEF Deploy
<1>3. "gate" \in {"idle"} \cup OnRecord \cup Retiring BY DEF OnRecord
<1>4. x9' \in [Operator -> Deploy(T)] BY <1>2, <1>3 DEF Deploy
<1> HIDE DEF T
<1> QED BY <1>2, <1>4 DEF Passes, Deploy

LEMMA ArtifactIdles ==
  ASSUME ArtifactTyped, NEW d \in Operator,
         x9' = [x9 EXCEPT ![d] = Artifact!Idle]
  PROVE  /\ \E S : x9' \in [Operator -> Deploy(S)]
         /\ \A e \in Operator \ {d} : x9'[e] = x9[e]
         /\ (x9[d].pc)' = "idle"
<1>1. PICK S : x9 \in [Operator -> Deploy(S)] BY DEF ArtifactTyped
<1> DEFINE T == S \cup {{}}
<1>2. x9 \in [Operator -> Deploy(T)] BY <1>1 DEF Deploy
<1>3. x9' \in [Operator -> Deploy(T)] BY <1>2 DEF Deploy, Artifact!Idle
<1> HIDE DEF T
<1> QED BY <1>2, <1>3 DEF Passes, Deploy, Artifact!Idle

\* The model a retirement is at stays while others go on.
LEMMA SameModel ==
  ASSUME NEW e, (x9[e].release)' = x9[e].release, (x9[e].done)' = x9[e].done
  PROVE  AtModel(e)' = AtModel(e)
BY DEF AtModel, Artifact!Unselected

\* What is whole of the models stays so, and what is broken of them too.
Found(m) == m \in Model => x3[m] = "whole"
ModelsGrow ==
  /\ (x3 = [m \in Model |-> x3[m]])'
  /\ \A m \in Model : x3[m] \in {"whole", "torn"} => x3'[m] = x3[m]

\* A step of a deploy on record that leaves the Host, but for a model it carries.
LEMMA ArtifactMoves ==
  ASSUME ArtifactInv, ArtifactAssumption, NEW d \in Operator, x9[d].pc \in OnRecord, NEW pc \in OnRecord,
         x9[d].release \in Release, Passes(d, pc),
         ModelsGrow, UNCHANGED <<x5, x6, x7, x8, x11>>, (x1 = [o \in Artifact!Object |-> x1[o]])',
         pc # "ask",
         pc \in Asking =>
           \/ (x9[d].done)' = {} /\ pc = "models"
           \/ (x9[d].done)' = x9[d].done /\ x9[d].pc \in Asking \ {"models"}
           \/ /\ x9[d].pc \in Asking
              /\ \E m : (x9[d].done)' \subseteq x9[d].done \cup {m} /\ Found(m)'
              /\ x9[d].pc # "models" \/ \A e \in Operator : x9[e].pc # "match"
           \/ /\ (x9[d].done)' = x9[d].done /\ x9[d].pc = "models"
              /\ \A e \in Operator : x9[e].pc # "match",
         pc \in Before => x9[d].pc \in Before,
         pc = "abort" => \/ x9[d].pc \in Before \/ x9[d].release \notin x5
                         \/ \A e \in Operator : x9[e].pc \notin Retiring
  PROVE  ArtifactInv'
<1>0. pc \in Asking =>
        \/ (x9[d].done)' = {}
        \/ x9[d].pc \in Asking /\ (x9[d].done)' = x9[d].done
        \/ /\ x9[d].pc \in Asking
           /\ \E m : (x9[d].done)' \subseteq x9[d].done \cup {m} /\ Found(m)'
  BY DEF Asking
<1> USE DEF Passes
<1>1. ArtifactTyped'
  BY DEF ArtifactInv, ArtifactTyped, ModelsGrow
<1>2. \A e \in Operator : Recorded(e)' <=> Recorded(e)
  BY DEF Recorded
<1>3. MarkerNames' BY <1>2 DEF ArtifactInv, MarkerNames
<1>4. PreparedWhole'
  <2>1. \A r \in x5 : Selects[r] \subseteq Model
    BY ArtifactAssumption DEF ArtifactInv, ArtifactTyped
  <2> QED BY <2>1 DEF ArtifactInv, PreparedWhole, ModelsGrow
<1>5. FoundStays'
  <2>0. \A f \in Operator : x9[f].pc # "idle" => Selects[x9[f].release] \subseteq Model
    BY ArtifactAssumption DEF ArtifactInv, ArtifactTyped
  <2>3. \A f \in Operator : Recorded(f) => x9[f].pc # "idle"
    BY DEF Recorded, OnRecord, Before, Asking
  <2> SUFFICES ASSUME NEW e \in Operator
               PROVE  /\ (x9[e].pc)' = "ask" => (x9[e].done)' = {}
                      /\ Recorded(e)' /\ (x9[e].pc)' \in Asking =>
                           \A m \in (x9[e].done)' \cap Selects[x9[e].release]' : x3[m]' = "whole"
    BY DEF FoundStays
  <2>1. CASE e # d
    <3>1. x9'[e] = x9[e] /\ (Recorded(e)' <=> Recorded(e)) BY <2>1, <1>2
    <3>2. /\ x9[e].pc = "ask" => x9[e].done = {}
          /\ Recorded(e) /\ x9[e].pc \in Asking =>
               \A m \in x9[e].done \cap Selects[x9[e].release] : x3[m] = "whole" /\ m \in Model
      BY <2>0, <2>3 DEF ArtifactInv, FoundStays
    <3> QED BY <3>1, <3>2 DEF ModelsGrow
  <2>2. CASE e = d
    <3>1. /\ (x9[d].pc)' = pc /\ (x9[d].release)' = x9[d].release
          /\ Recorded(d)' => Recorded(d)
      BY <1>2
    <3>2. ASSUME Recorded(d)', pc \in Asking, NEW k \in (x9[d].done)' \cap Selects[x9[d].release]
          PROVE  x3'[k] = "whole"
      <4>0. k \in Model BY <1>2, <2>0, <2>3, <3>1, <3>2
      <4>1. x9[d].pc \in Asking /\ k \in x9[d].done => x3[k] = "whole"
        BY <3>1, <3>2 DEF ArtifactInv, FoundStays
      <4>2. \/ (x9[d].done)' = {}
            \/ x9[d].pc \in Asking /\ (x9[d].done)' = x9[d].done
            \/ /\ x9[d].pc \in Asking
               /\ \E m : (x9[d].done)' \subseteq x9[d].done \cup {m} /\ Found(m)'
        BY <1>0, <3>2
      <4>3. (k \in x9[d].done /\ x9[d].pc \in Asking) \/ x3'[k] = "whole" BY <3>1, <3>2, <4>0, <4>2 DEF Found
      <4> QED BY <4>0, <4>1, <4>3 DEF ModelsGrow
    <3> QED BY <2>2, <3>1, <3>2
  <2> QED BY <2>1, <2>2
<1>6. d \in Operator /\ x9[d].pc \notin Retiring /\ pc \notin Retiring
  BY DEF OnRecord, Before, Asking, Retiring
<1>7. OneRetires' BY <1>6 DEF ArtifactInv, OneRetires
<1>8. ASSUME NEW e \in Operator, (x9[e].pc)' \in Retiring
      PROVE  /\ PreparedMeanwhile(e)' /\ TakenIsUnselected(e)'
             /\ \A f \in Operator \ {e} : Meanwhile(f)'
  <2>1. e # d /\ x9'[e] = x9[e] /\ x9[e].pc \in Retiring BY <1>6, <1>8
  <2>2. PreparedMeanwhile(e) /\ TakenIsUnselected(e) /\ \A f \in Operator \ {e} : Meanwhile(f)
    BY <2>1 DEF ArtifactInv
  <2>3. PreparedMeanwhile(e)' BY <2>1, <2>2 DEF PreparedMeanwhile
  <2>4. TakenIsUnselected(e)'
    <3>1. AtModel(e)' = AtModel(e) BY <2>1, SameModel
    <3>2. ASSUME x9[e].pc = "match", NEW f \in Operator, Recorded(f)', (x9[f].pc)' \in Asking
          PROVE  (x9[f].pc)' = "models" /\ (x9[f].done)' = {}
      <4>1. CASE f # d BY <1>2, <2>2, <3>2, <4>1 DEF TakenIsUnselected
      <4>2. CASE f = d BY <1>2, <2>2, <3>2, <4>2 DEF TakenIsUnselected
      <4> QED BY <4>1, <4>2
    <3>3. x9[e].pc = "remove" /\ AtModel(e) \in Model => x3'[AtModel(e)] = "torn"
      BY <2>2 DEF TakenIsUnselected, ModelsGrow
    <3> QED BY <2>1, <2>2, <3>1, <3>2, <3>3 DEF TakenIsUnselected
  <2>5. ASSUME NEW f \in Operator \ {e} PROVE Meanwhile(f)'
    <3>1. Meanwhile(f) BY <2>2, <2>5
    <3>2. CASE f # d BY <1>2, <3>1, <3>2 DEF Meanwhile
    <3>3. CASE f = d
      <4>1. (x9[d].pc)' = "abort" /\ Recorded(d)' => (x9[d].release)' # x7'
        <5>1. x9[d].release \in Release /\ (x7 \in x5 \/ x7 = None)
          BY DEF ArtifactInv, ArtifactTyped
        <5> QED BY <5>1, <1>2, <2>1, <3>1, <3>3, ArtifactAssumption DEF Meanwhile
      <4> QED BY <1>2, <3>1, <3>3, <4>1 DEF Meanwhile
    <3> QED BY <3>2, <3>3
  <2> QED BY <2>3, <2>4, <2>5
<1> QED BY <1>1, <1>3, <1>4, <1>5, <1>7, <1>8 DEF ArtifactInv

LEMMA Deploying ==
  ASSUME ArtifactInv, NEW d \in Operator, x9[d].pc # "idle"
  PROVE  ArtifactTyped /\ x9[d].release \in Release
BY DEF ArtifactInv, ArtifactTyped

LEMMA ModelsStay == ASSUME ArtifactTyped, UNCHANGED x3 PROVE ModelsGrow
BY DEF ArtifactTyped, ModelsGrow

LEMMA ArtifactGivesUp ==
  ASSUME ArtifactInv, ArtifactAssumption, NEW d \in Operator, x9[d].pc \in Before,
         Artifact!Fails(d)
  PROVE  ArtifactInv'
<1>1. /\ x9[d].pc \in OnRecord /\ x9[d].pc # "idle" /\ "abort" \in OnRecord /\ "abort" \notin Asking
      /\ "abort" \notin Before
  BY DEF OnRecord, Before, Asking
<1>2. Artifact!Goto(d, "abort") /\ UNCHANGED <<x1, x3, x5, x6, x7, x8, x11>>
  BY DEF Artifact!Fails, Artifact!host
<1>3. ArtifactTyped /\ x9[d].release \in Release BY <1>1, Deploying
<1>4. Passes(d, "abort") BY <1>1, <1>2, <1>3, ArtifactGoto
<1>5. (x1 = [o \in Artifact!Object |-> x1[o]])' BY <1>2, <1>3 DEF ArtifactTyped
<1>6. ModelsGrow BY <1>2, <1>3, ModelsStay
<1> QED BY <1>1, <1>2, <1>3, <1>4, <1>5, <1>6, ArtifactMoves

LEMMA ArtifactCarries ==
  ASSUME ArtifactInv, ArtifactAssumption, NEW d \in Operator,
         \/ Artifact!Ask(d) \/ Artifact!Guard(d) \/ Artifact!UploadObjects(d) \/ Artifact!Finalize(d)
         \/ Artifact!InstallObject(d) \/ Artifact!EndFinalize(d)
         \/ Artifact!CallFails(d) \/ Artifact!GuardStops(d)
  PROVE  ArtifactInv'
<1> USE DEF Artifact!At
<1>1. ASSUME x9[d].pc \in Before, NEW pc \in {"guard", "upload", "finalize", "install"},
             Passes(d, pc),
             UNCHANGED <<x3, x5, x6, x7, x8, x11>>, (x1 = [o \in Artifact!Object |-> x1[o]])'
      PROVE  ArtifactInv'
  <2>1. /\ x9[d].pc \in OnRecord /\ x9[d].pc # "idle" /\ pc \in OnRecord /\ pc \notin Asking
        /\ pc \in Before /\ pc # "ask" /\ pc # "abort"
    BY <1>1 DEF OnRecord, Before, Asking
  <2>2. x9[d].release \in Release /\ ModelsGrow BY <1>1, <2>1, Deploying, ModelsStay
  <2> QED BY <1>1, <2>1, <2>2, ArtifactMoves
<1>2. /\ x1 = [o \in Artifact!Object |-> x1[o]] /\ ArtifactTyped
      /\ {"guard", "upload", "finalize", "install"} \subseteq OnRecord
  BY DEF ArtifactInv, ArtifactTyped, OnRecord, Before
<1>3. ASSUME x9[d].pc \in {"ask", "install"}, (x9[d].done)' = {}, Passes(d, "models"),
             UNCHANGED <<x1, x3, x5, x6, x7, x8, x11>>
      PROVE  ArtifactInv'
  <2>1. /\ x9[d].pc \in OnRecord /\ "models" \in OnRecord /\ "models" \in Asking /\ x9[d].pc \in Before
        /\ x9[d].pc # "idle"
    BY <1>3 DEF OnRecord, Before, Asking
  <2>2. x9[d].release \in Release BY <2>1, Deploying
  <2> QED BY <1>2, <1>3, <2>1, <2>2, ModelsStay, ArtifactMoves
<1>4. CASE Artifact!Ask(d)
  <2> DEFINE list == Artifact!Lacking(x9[d].release)
             pc == IF list = {} THEN "models" ELSE "guard"
  <2>1. /\ x9[d].pc = "ask" /\ UNCHANGED <<x1, x3, x5, x6, x7, x8, x11>>
        /\ x9' = [x9 EXCEPT ![d].list = list, ![d].pc = pc]
    BY <1>4 DEF Artifact!Ask, Artifact!host
  <2> HIDE DEF list
  <2>2. CASE list = {}
    <3>1. ArtifactTyped /\ x9[d].done = {} BY <2>1 DEF ArtifactInv, FoundStays
    <3>2. "models" \in OnRecord BY DEF OnRecord, Before, Asking
    <3>3. x9' = [x9 EXCEPT ![d].list = list, ![d].pc = "models"] BY <2>1, <2>2
    <3>4. Passes(d, "models") /\ (x9[d].done)' = {} BY <2>1, <3>1, <3>2, <3>3, ArtifactLists
    <3> QED BY <1>3, <2>1, <3>4
  <2>3. CASE list # {}
    <3>1. x9' = [x9 EXCEPT ![d].list = list, ![d].pc = "guard"] BY <2>1, <2>3
    <3>2. x9[d].pc \in Before BY <2>1 DEF Before
    <3>3. Passes(d, "guard") BY <1>2, <2>1, <3>1, ArtifactLists
    <3> QED BY <1>1, <1>2, <2>1, <3>2, <3>3
  <2> QED BY <2>2, <2>3
<1>5. CASE Artifact!Guard(d)
  <2>1. x9[d].pc \in Before BY <1>5 DEF Artifact!Guard, Before
  <2>2. Artifact!Fails(d) \/ (Artifact!Goto(d, "upload") /\ UNCHANGED <<x1, x3, x5, x6, x7, x8, x11>>)
    BY <1>5 DEF Artifact!Guard, Artifact!host
  <2>3. Artifact!Goto(d, "upload") => Passes(d, "upload")
    BY <1>2, ArtifactGoto, <1>5 DEF Artifact!Guard
  <2> QED BY <1>1, <1>2, <2>1, <2>2, <2>3, ArtifactGivesUp
<1>6. CASE Artifact!UploadObjects(d)
  <2>1. x9[d].pc \in Before BY <1>6 DEF Artifact!UploadObjects, Before
  <2>2. Artifact!Goto(d, "finalize") /\ UNCHANGED <<x1, x3, x5, x6, x7, x8, x11>>
    BY <1>6 DEF Artifact!UploadObjects
  <2>3. Passes(d, "finalize") BY <1>2, <2>2, ArtifactGoto, <1>6 DEF Artifact!UploadObjects
  <2> QED BY <1>1, <1>2, <2>1, <2>2, <2>3
<1>7. CASE Artifact!Finalize(d)
  <2>1. x9[d].pc \in Before BY <1>7 DEF Artifact!Finalize, Before
  <2>2. \/ Artifact!Fails(d)
        \/ /\ x9' = [x9 EXCEPT ![d].pc = "install", ![d].done = {}]
           /\ UNCHANGED <<x1, x3, x5, x6, x7, x8, x11>>
    BY <1>7 DEF Artifact!Finalize, Artifact!host
  <2>3. x9' = [x9 EXCEPT ![d].pc = "install", ![d].done = {}] => Passes(d, "install")
    BY <1>2, ArtifactGoes, <1>7 DEF Artifact!Finalize
  <2> QED BY <1>1, <1>2, <2>1, <2>2, <2>3, ArtifactGivesUp
<1>8. CASE Artifact!InstallObject(d)
  <2> DEFINE o == Artifact!Min(x9[d].list \ x9[d].done)
  <2>1. x9[d].pc \in Before /\ x9[d].pc = "install" BY <1>8 DEF Artifact!InstallObject, Before
  <2>2. \/ Artifact!Fails(d)
        \/ /\ x1' = [x1 EXCEPT ![o] = "whole"]
           /\ x9' = [x9 EXCEPT ![d].done = @ \cup {o}]
           /\ UNCHANGED <<x3, x5, x6, x7, x8, x11>>
    BY <1>8 DEF Artifact!InstallObject
  <2> HIDE DEF o
  <2>3. ASSUME x1' = [x1 EXCEPT ![o] = "whole"] PROVE (x1 = [p \in Artifact!Object |-> x1[p]])'
    <3>1. x1' = [p \in Artifact!Object |-> IF p = o THEN "whole" ELSE x1[p]] BY <1>2, <2>3
    <3>2. Artifact!Object' = Artifact!Object BY DEF Artifact!Object
    <3> QED BY <3>1, <3>2
  <2>4. CASE x9' = [x9 EXCEPT ![d].done = @ \cup {o}] /\ x1' = [x1 EXCEPT ![o] = "whole"]
             /\ UNCHANGED <<x3, x5, x6, x7, x8, x11>>
    <3>1. x9' = [x9 EXCEPT ![d].done = x9[d].done \cup {o}] BY <2>4
    <3>2. Passes(d, "install") BY <1>2, <2>1, <3>1, ArtifactAdds
    <3> QED BY <1>1, <2>1, <2>3, <2>4, <3>2
  <2> QED BY <2>1, <2>2, <2>4, ArtifactGivesUp
<1>9. CASE Artifact!EndFinalize(d)
  <2>1. /\ x9[d].pc = "install" /\ x9' = [x9 EXCEPT ![d].pc = "models", ![d].done = {}]
        /\ UNCHANGED <<x1, x3, x5, x6, x7, x8, x11>>
    BY <1>9 DEF Artifact!EndFinalize
  <2>2. "models" \in OnRecord \cup Retiring BY DEF OnRecord, Before, Asking
  <2>3. Passes(d, "models") /\ (x9[d].done)' = {}
    BY <2>1, <2>2, ArtifactGoes DEF ArtifactInv
  <2> QED BY <1>3, <2>1, <2>3
<1>10. CASE Artifact!CallFails(d)
  <2>1. Artifact!Fails(d) /\ x9[d].pc \in {"upload", "sending", "install", "copy"}
    BY <1>10 DEF Artifact!CallFails
  <2>2. x9[d].pc \in Before BY <2>1 DEF Before, Asking
  <2> QED BY <2>1, <2>2, ArtifactGivesUp
<1>11. CASE Artifact!GuardStops(d)
  <2>1. /\ x9[d].pc \in Before /\ Artifact!Goto(d, "abort")
        /\ UNCHANGED <<x1, x3, x5, x6, x7, x8, x11>>
    BY <1>11 DEF Artifact!GuardStops, Before
  <2>2. /\ x9[d].pc \in OnRecord /\ x9[d].pc # "idle" /\ "abort" \in OnRecord /\ "abort" \notin Asking
        /\ "abort" \notin Before
    BY <2>1 DEF OnRecord, Before, Asking
  <2>3. ArtifactTyped /\ x9[d].release \in Release BY <2>2, Deploying
  <2>4. Passes(d, "abort") BY <2>1, <2>2, <2>3, ArtifactGoto
  <2> QED BY <1>2, <2>1, <2>2, <2>3, <2>4, ModelsStay, ArtifactMoves
<1> QED BY <1>4, <1>5, <1>6, <1>7, <1>8, <1>9, <1>10, <1>11

\* Of what a deploy asks for, what it finds or carries is there from then on.
LEMMA ArtifactAsks ==
  ASSUME ArtifactInv, ArtifactAssumption, ArtifactGranted, NEW d \in Operator,
         \/ Artifact!AskModel(d) \/ Artifact!ClearStage(d) \/ Artifact!SendModel(d)
         \/ Artifact!ModelSent(d) \/ Artifact!PlaceModel(d)
  PROVE  ArtifactInv'
<1> USE DEF Artifact!At
<1>0. PICK m : m = Artifact!Next1(d) OBVIOUS
<1>1. x1 = [o \in Artifact!Object |-> x1[o]] /\ ArtifactTyped BY DEF ArtifactInv, ArtifactTyped
<1>2. ASSUME x9[d].pc \in Asking, NEW pc \in Asking, Passes(d, pc),
             \/ (x9[d].done)' = x9[d].done /\ x9[d].pc # "models"
             \/ /\ x3[m] = "whole" /\ (x9[d].done)' = x9[d].done \cup {m}
                /\ x9[d].pc # "models" \/ \A e \in Operator : x9[e].pc # "match"
             \/ /\ (x9[d].done)' = x9[d].done /\ x9[d].pc = "models"
                /\ \A e \in Operator : x9[e].pc # "match",
             UNCHANGED <<x1, x3, x5, x6, x7, x8, x11>>
      PROVE  ArtifactInv'
  <2>1. /\ x9[d].pc \in OnRecord /\ x9[d].pc # "idle" /\ x9[d].pc \in Before
        /\ pc \in OnRecord /\ pc # "ask" /\ pc # "abort"
    BY <1>2 DEF OnRecord, Before, Asking
  <2>2. x9[d].release \in Release BY <2>1, Deploying
  <2>3. x3[m] = "whole" => Found(m)' BY <1>2 DEF Found
  <2> QED BY <1>1, <1>2, <2>1, <2>2, <2>3, ModelsStay, ArtifactMoves
<1>3. ASSUME x9[d].pc \in {"clear", "send", "sending", "place"},
             NEW pc \in {"send", "sending", "place", "copy"}, Artifact!Goto(d, pc),
             UNCHANGED <<x1, x3, x5, x6, x7, x8, x11>>
      PROVE  ArtifactInv'
  <2>1. /\ x9[d].pc \in Asking /\ pc \in Asking /\ x9[d].pc # "models" /\ x9[d].pc # "idle"
        /\ pc \in OnRecord \cup Retiring
    BY <1>3 DEF OnRecord, Before, Asking
  <2>2. Passes(d, pc) /\ (x9[d].done)' = x9[d].done BY <1>1, <1>3, <2>1, ArtifactGoto
  <2> QED BY <1>2, <1>3, <2>1, <2>2
<1>4. CASE Artifact!AskModel(d)
  <2>1. /\ x9[d].pc = "models" /\ \A e \in Operator : x9[e].pc # "match"
        /\ IF x3[m] = "whole" THEN x9' = [x9 EXCEPT ![d].done = @ \cup {m}]
           ELSE Artifact!Goto(d, "clear")
        /\ UNCHANGED <<x1, x3, x5, x6, x7, x8, x11>>
    BY <1>0, <1>4 DEF Artifact!AskModel, Artifact!host, ArtifactGranted
  <2>2. {"models", "clear"} \subseteq Asking /\ "clear" \in OnRecord \cup Retiring
    BY DEF OnRecord, Before, Asking
  <2>3. CASE x3[m] = "whole"
    <3>1. x9' = [x9 EXCEPT ![d].done = x9[d].done \cup {m}] BY <2>1, <2>3
    <3>2. Passes(d, "models") /\ (x9[d].done)' = x9[d].done \cup {m}
      BY <1>1, <2>1, <3>1, ArtifactAdds
    <3> QED BY <1>2, <2>1, <2>2, <2>3, <3>2
  <2>4. CASE x3[m] # "whole"
    <3>1. Passes(d, "clear") /\ (x9[d].done)' = x9[d].done
      BY <1>1, <2>1, <2>2, <2>4, ArtifactGoto
    <3> QED BY <1>2, <2>1, <2>2, <2>4, <3>1
  <2> QED BY <2>3, <2>4
<1>5. CASE Artifact!ClearStage(d)
  <2>1. /\ x9[d].pc = "clear" /\ Artifact!Goto(d, "send") /\ UNCHANGED <<x1, x3, x5, x6, x7, x8, x11>>
    BY <1>5 DEF Artifact!ClearStage
  <2> QED BY <1>3, <2>1
<1>6. CASE Artifact!SendModel(d)
  <2>1. /\ x9[d].pc = "send" /\ Artifact!Goto(d, "sending")
        /\ UNCHANGED <<x1, x3, x5, x6, x7, x8, x11>>
    BY <1>6 DEF Artifact!SendModel
  <2> QED BY <1>3, <2>1
<1>7. CASE Artifact!ModelSent(d)
  <2>1. /\ x9[d].pc = "sending" /\ Artifact!Goto(d, "place")
        /\ UNCHANGED <<x1, x3, x5, x6, x7, x8, x11>>
    BY <1>7 DEF Artifact!ModelSent
  <2> QED BY <1>3, <2>1
<1>8. CASE Artifact!PlaceModel(d)
  <2>1. /\ x9[d].pc = "place"
        /\ \/ /\ x3[m] = "whole" /\ x9' = [x9 EXCEPT ![d].pc = "models", ![d].done = @ \cup {m}]
              /\ UNCHANGED <<x1, x3, x5, x6, x7, x8, x11>>
           \/ Artifact!Goto(d, "copy") /\ UNCHANGED <<x1, x3, x5, x6, x7, x8, x11>>
           \/ Artifact!Fails(d)
    BY <1>0, <1>8 DEF Artifact!PlaceModel, Artifact!host
  <2>2. x9[d].pc \in Asking /\ "models" \in Asking /\ "models" \in OnRecord \cup Retiring
        /\ x9[d].pc \in Before
    BY <2>1 DEF OnRecord, Before, Asking
  <2>3. CASE /\ x3[m] = "whole" /\ x9' = [x9 EXCEPT ![d].pc = "models", ![d].done = @ \cup {m}]
             /\ UNCHANGED <<x1, x3, x5, x6, x7, x8, x11>>
    <3>1. x9' = [x9 EXCEPT ![d].pc = "models", ![d].done = x9[d].done \cup {m}] BY <2>3
    <3>2. Passes(d, "models") /\ (x9[d].done)' = x9[d].done \cup {m}
      BY <1>1, <2>1, <2>2, <3>1, ArtifactGoes
    <3> QED BY <1>2, <2>1, <2>2, <2>3, <3>2
  <2> QED BY <1>3, <2>1, <2>2, <2>3, ArtifactGivesUp
<1> QED BY <1>4, <1>5, <1>6, <1>7, <1>8

LEMMA ArtifactCopies ==
  ASSUME ArtifactInv, ArtifactAssumption, NEW d \in Operator, Artifact!CopyModel(d)
  PROVE  ArtifactInv'
<1>0. PICK m : m = Artifact!Next1(d) OBVIOUS
<1>1. /\ x9[d].pc = "copy"
      /\ \/ /\ x3[m] = "absent" /\ x3' = [x3 EXCEPT ![m] = "whole"]
            /\ x9' = [x9 EXCEPT ![d].pc = "models", ![d].done = x9[d].done \cup {m}]
            /\ UNCHANGED <<x1, x5, x6, x7, x8, x11>>
         \/ Artifact!Fails(d)
  BY <1>0 DEF Artifact!CopyModel, Artifact!At
<1>2. /\ x9[d].pc \in Before /\ x9[d].pc \in OnRecord /\ x9[d].pc # "idle"
      /\ x9[d].pc \in Asking /\ x9[d].pc # "models"
      /\ "models" \in OnRecord /\ "models" \in Before
  BY <1>1 DEF OnRecord, Before, Asking
<1>3. CASE /\ x3[m] = "absent" /\ x3' = [x3 EXCEPT ![m] = "whole"]
           /\ x9' = [x9 EXCEPT ![d].pc = "models", ![d].done = x9[d].done \cup {m}]
           /\ UNCHANGED <<x1, x5, x6, x7, x8, x11>>
  <2>1. ArtifactTyped /\ x9[d].release \in Release BY <1>2, Deploying
  <2>2. x3' = [k \in Model |-> IF k = m THEN "whole" ELSE x3[k]]
    BY <1>3, <2>1 DEF ArtifactTyped
  <2>3. ModelsGrow /\ Found(m)' BY <1>3, <2>2 DEF ModelsGrow, Found
  <2>4. Passes(d, "models") /\ (x9[d].done)' = x9[d].done \cup {m}
    BY <1>2, <1>3, <2>1, ArtifactGoes
  <2>5. (x1 = [o \in Artifact!Object |-> x1[o]])' BY <1>3, <2>1 DEF ArtifactTyped
  <2> QED BY <1>2, <1>3, <2>1, <2>3, <2>4, <2>5, ArtifactMoves
<1> QED BY <1>1, <1>2, <1>3, ArtifactGivesUp

\* A release is built when all it selects was found and is still there.
LEMMA ArtifactBuilds ==
  ASSUME ArtifactInv, ArtifactAssumption, TwoDrivers, NEW d \in Operator, Artifact!Build(d)
  PROVE  ArtifactInv'
<1> DEFINE r == x9[d].release
<1>1. /\ x9[d].pc = "models" /\ Artifact!Wanted(d) = {}
      /\ \/ /\ x5' = x5 \cup {r} /\ Artifact!Goto(d, "activate")
            /\ x11' = IF x9[d].lost THEN x11 \ {r} ELSE x11 \cup {r}
            /\ UNCHANGED <<x1, x3, x6, x7, x8>>
         \/ Artifact!Fails(d)
  BY DEF Artifact!Build, Artifact!At, Artifact!host
<1>2. /\ x9[d].pc \in Before /\ x9[d].pc \in OnRecord /\ x9[d].pc # "idle" /\ x9[d].pc \in Asking
      /\ "activate" \in OnRecord /\ "activate" \notin Before /\ "activate" \notin Asking
      /\ x9[d].pc \notin Retiring /\ "activate" \notin Retiring
  BY <1>1 DEF OnRecord, Before, Asking, Retiring
<1>3. CASE /\ x5' = x5 \cup {r} /\ Artifact!Goto(d, "activate")
           /\ x11' = IF x9[d].lost THEN x11 \ {r} ELSE x11 \cup {r}
           /\ UNCHANGED <<x1, x3, x6, x7, x8>>
  <2>1. ArtifactTyped /\ r \in Release BY <1>2, Deploying
  <2>2. Passes(d, "activate") BY <1>2, <1>3, <2>1, ArtifactGoto
  <2>3. Recorded(d) <=> ~x9[d].lost BY <1>2 DEF Recorded
  <2>4. \A s \in x11' \cap x5' : s \in x11 \cap x5 \/ (s = r /\ Recorded(d))
    BY <1>3, <2>3
  <2>5. Selects[r] \subseteq x9[d].done BY <1>1 DEF Artifact!Wanted
  <2>6. Recorded(d) => \A m \in Selects[r] : x3[m] = "whole"
    BY <1>2, <2>5 DEF ArtifactInv, FoundStays
  <2>7. \A e \in Operator : Recorded(e)' <=> Recorded(e) BY <1>2, <2>2 DEF Passes, Recorded
  <2>8. ArtifactTyped' BY <1>2, <1>3, <2>1, <2>2 DEF ArtifactTyped, Passes
  <2>9. PreparedWhole' BY <1>3, <2>4, <2>6 DEF ArtifactInv, PreparedWhole
  <2>10. MarkerNames' /\ FoundStays' /\ OneRetires'
    BY <1>2, <1>3, <2>2, <2>7 DEF Passes, ArtifactInv, MarkerNames, FoundStays, OneRetires
  <2>11. ASSUME NEW e \in Operator, (x9[e].pc)' \in Retiring
         PROVE  /\ PreparedMeanwhile(e)' /\ TakenIsUnselected(e)'
                /\ \A f \in Operator \ {e} : Meanwhile(f)'
    <3>1. e # d /\ x9'[e] = x9[e] /\ x9[e].pc \in Retiring BY <1>2, <2>2, <2>11 DEF Passes
    <3>2. PreparedMeanwhile(e) /\ TakenIsUnselected(e) /\ Meanwhile(d)
      BY <3>1 DEF ArtifactInv
    <3>3. PreparedMeanwhile(e)'
      BY <1>3, <2>4, <3>1, <3>2 DEF PreparedMeanwhile, ArtifactInv, MarkerNames
    <3>4. AtModel(e)' = AtModel(e) BY <3>1, SameModel
    <3>5. x9[e].pc = "match" /\ Recorded(d) => Selects[r] = {}
      BY <1>2, <2>5, <3>2 DEF TakenIsUnselected
    <3>6. x9[e].pc = "remove" /\ Recorded(d) => AtModel(e) \notin Selects[r]
      <4>1. Selects[r] \subseteq Model BY <2>1, ArtifactAssumption
      <4> QED BY <2>6, <3>2, <4>1 DEF TakenIsUnselected
    <3>7. TakenIsUnselected(e)'
      BY <1>2, <1>3, <2>2, <2>4, <2>7, <3>1, <3>2, <3>4, <3>5, <3>6 DEF Passes, TakenIsUnselected
    <3>8. \A f \in Operator \ {e} : f = d BY <3>1 DEF TwoDrivers
    <3>9. Meanwhile(d)' BY <1>2, <1>3, <2>2, <2>7, <3>2 DEF Passes, Meanwhile
    <3> QED BY <3>3, <3>7, <3>8, <3>9
  <2> QED BY <2>8, <2>9, <2>10, <2>11 DEF ArtifactInv
<1> QED BY <1>1, <1>2, <1>3, ArtifactGivesUp

LEMMA ArtifactActivates ==
  ASSUME ArtifactInv, ArtifactAssumption, TwoDrivers, NEW d \in Operator, Artifact!Activate(d)
  PROVE  ArtifactInv'
<1> DEFINE r == x9[d].release
<1>1. /\ x9[d].pc = "activate"
      /\ \/ /\ r \in x5 /\ x6' = r /\ x7' \in {x7, None, x6}
            /\ x9' = [x9 EXCEPT ![d].pc = "gate", ![d].from = x6]
            /\ x11' \subseteq x11
            /\ UNCHANGED <<x1, x3, x5, x8>>
         \/ r \notin x5 /\ Artifact!Fails(d)
  BY DEF Artifact!Activate, Artifact!At, Artifact!host
<1>2. /\ x9[d].pc \in OnRecord /\ x9[d].pc # "idle"
      /\ {"gate", "abort"} \subseteq OnRecord \ (Before \cup Asking \cup Retiring)
      /\ x9[d].pc \notin Retiring
  BY <1>1 DEF OnRecord, Before, Asking, Retiring
<1>3. ArtifactTyped /\ r \in Release BY <1>2, Deploying
<1>4. CASE /\ r \in x5 /\ x6' = r /\ x7' \in {x7, None, x6}
           /\ x9' = [x9 EXCEPT ![d].pc = "gate", ![d].from = x6]
           /\ x11' \subseteq x11
           /\ UNCHANGED <<x1, x3, x5, x8>>
  <2>1. x6 \in Release BY <1>3 DEF ArtifactTyped
  <2>2. Passes(d, "gate") BY <1>2, <1>3, <1>4, <2>1, ArtifactStarts
  <2>3. \A e \in Operator : Recorded(e)' <=> Recorded(e) BY <1>2, <2>2 DEF Passes, Recorded
  <2>4. ArtifactTyped' BY <1>2, <1>3, <1>4, <2>2 DEF ArtifactTyped, Passes
  <2>5. PreparedWhole' /\ MarkerNames' /\ FoundStays' /\ OneRetires'
    BY <1>2, <1>4, <2>2, <2>3
    DEF Passes, ArtifactInv, PreparedWhole, MarkerNames, FoundStays, OneRetires
  <2>6. ASSUME NEW e \in Operator, (x9[e].pc)' \in Retiring
        PROVE  /\ PreparedMeanwhile(e)' /\ TakenIsUnselected(e)'
               /\ \A f \in Operator \ {e} : Meanwhile(f)'
    <3>1. e # d /\ x9'[e] = x9[e] /\ x9[e].pc \in Retiring BY <1>2, <2>2, <2>6 DEF Passes
    <3>2. PreparedMeanwhile(e) /\ TakenIsUnselected(e) /\ Meanwhile(d)
      BY <3>1 DEF ArtifactInv
    <3>3. PreparedMeanwhile(e)' BY <1>4, <3>1, <3>2 DEF PreparedMeanwhile
    <3>4. AtModel(e)' = AtModel(e) BY <3>1, SameModel
    <3>5. TakenIsUnselected(e)'
      BY <1>2, <1>4, <2>2, <2>3, <3>1, <3>2, <3>4 DEF Passes, TakenIsUnselected
    <3>6. \A f \in Operator \ {e} : f = d BY <3>1 DEF TwoDrivers
    <3>7. Meanwhile(d)' BY <1>2, <1>4, <2>2, <2>3, <3>2 DEF Passes, Meanwhile
    <3> QED BY <3>3, <3>5, <3>6, <3>7
  <2> QED BY <2>4, <2>5, <2>6 DEF ArtifactInv
<1>5. CASE r \notin x5 /\ Artifact!Fails(d)
  <2>1. Artifact!Goto(d, "abort") /\ UNCHANGED <<x1, x3, x5, x6, x7, x8, x11>>
    BY <1>5 DEF Artifact!Fails, Artifact!host
  <2>2. Passes(d, "abort") /\ ModelsGrow BY <1>2, <1>3, <2>1, ArtifactGoto, ModelsStay
  <2>3. (x1 = [o \in Artifact!Object |-> x1[o]])' BY <1>3, <2>1 DEF ArtifactTyped
  <2> QED BY <1>2, <1>3, <1>5, <2>1, <2>2, <2>3, ArtifactMoves
<1> QED BY <1>1, <1>4, <1>5

\* The links are put back, or the last process of the release before ends.
LEMMA ArtifactFallsBack ==
  ASSUME ArtifactInv, ArtifactAssumption, NEW d \in Operator,
         Artifact!GateFails(d) \/ Artifact!LastProcessEnds
  PROVE  ArtifactInv'
<1>1. /\ x7' = None /\ UNCHANGED <<x1, x3, x5, x8, x11>> /\ x6' \in x5
  BY DEF Artifact!GateFails, Artifact!LastProcessEnds, Artifact!host, ArtifactInv, ArtifactTyped
<1>2. \/ UNCHANGED x9
      \/ x9[d].pc = "gate" /\ Passes(d, "abort") /\ (x9[d].done)' = x9[d].done
  <2>1. CASE Artifact!GateFails(d)
    <3>1. x9[d].pc = "gate" /\ Artifact!Goto(d, "abort")
      BY <2>1 DEF Artifact!GateFails, Artifact!At
    <3>2. x9[d].pc # "idle" /\ "abort" \in OnRecord BY <3>1 DEF OnRecord
    <3> QED BY <3>1, <3>2, ArtifactGoto DEF ArtifactInv
  <2> QED BY <2>1 DEF Artifact!LastProcessEnds
<1>3. /\ {"gate", "abort"} \subseteq OnRecord \ (Before \cup Asking \cup Retiring)
      /\ "idle" \notin OnRecord
  BY DEF OnRecord, Before, Asking, Retiring
<1>4. /\ \A e \in Operator : Recorded(e)' <=> Recorded(e)
      /\ \A e \in Operator :
           /\ (x9[e].release)' = x9[e].release /\ (x9[e].lost)' = x9[e].lost
           /\ (x9[e].done)' = x9[e].done
           /\ (x9[e].pc)' = x9[e].pc \/ (x9[e].pc = "gate" /\ (x9[e].pc)' = "abort")
  BY <1>2, <1>3 DEF Passes, Recorded
<1>5. ArtifactTyped'
  <2>1. \E S : x9' \in [Operator -> Deploy(S)] BY <1>2 DEF Passes, ArtifactInv, ArtifactTyped
  <2> QED BY <1>1, <1>4, <2>1 DEF ArtifactInv, ArtifactTyped
<1>6. PreparedWhole' /\ MarkerNames' /\ FoundStays' /\ OneRetires'
  BY <1>1, <1>3, <1>4
  DEF ArtifactInv, PreparedWhole, MarkerNames, FoundStays, OneRetires
<1>7. ASSUME NEW e \in Operator, (x9[e].pc)' \in Retiring
      PROVE  /\ PreparedMeanwhile(e)' /\ TakenIsUnselected(e)'
             /\ \A f \in Operator \ {e} : Meanwhile(f)'
  <2>1. (x9[e].pc)' = x9[e].pc /\ x9[e].pc \in Retiring BY <1>3, <1>4, <1>7
  <2>2. PreparedMeanwhile(e) /\ TakenIsUnselected(e) /\ \A f \in Operator \ {e} : Meanwhile(f)
    BY <2>1 DEF ArtifactInv
  <2>3. PreparedMeanwhile(e)' BY <1>1, <1>4, <2>2 DEF PreparedMeanwhile
  <2>4. AtModel(e)' = AtModel(e) BY <1>4, SameModel
  <2>5. TakenIsUnselected(e)'
    BY <1>1, <1>3, <1>4, <2>1, <2>2, <2>4 DEF TakenIsUnselected
  <2>6. ASSUME NEW f \in Operator \ {e} PROVE Meanwhile(f)'
    <3>1. Recorded(f) => x9[f].release \in Release
      BY <1>3 DEF Recorded, ArtifactInv, ArtifactTyped
    <3> QED BY <1>1, <1>3, <1>4, <2>2, <3>1, ArtifactAssumption DEF Meanwhile
  <2> QED BY <2>3, <2>5, <2>6
<1> QED BY <1>5, <1>6, <1>7 DEF ArtifactInv

\* A deploy that leaves the record takes the others of its release off it.
LEMMA ArtifactOffRecord ==
  ASSUME ArtifactInv, ArtifactAssumption, NEW d \in Operator, x9[d].pc \in OnRecord,
         x8 \in {None, x9[d].release}, NEW next,
         \/ next = Artifact!Idle
         \/ /\ next = [x9[d] EXCEPT !.pc = "retire", !.done = {}]
            /\ x6 = x9[d].release /\ x7 = None,
         NEW kept \in SUBSET {x9[d].release}, Artifact!Swept(kept), Artifact!OffRecord(d, next),
         UNCHANGED <<x1, x3, x6, x7, x11>>,
         \A e \in Operator : x9[e].pc \in Retiring =>
           next = Artifact!Idle /\ kept = {} /\ x6 # x9[d].release /\ x9[d].pc = "abort"
  PROVE  ArtifactInv'
<1> DEFINE r == x9[d].release
<1>1. /\ x9[d].pc # "idle" /\ x9[d].pc \notin Retiring /\ "retire" \in Retiring
      /\ {"retire", "idle"} \cap OnRecord = {} /\ "idle" \notin Retiring /\ "retire" # "idle"
      /\ Asking \subseteq OnRecord /\ Before \subseteq OnRecord /\ "ask" \in OnRecord
      /\ "match" \notin OnRecord /\ "remove" \notin OnRecord /\ "abort" \in OnRecord
  BY DEF OnRecord, Before, Asking, Retiring
<1>2. ArtifactTyped /\ r \in Release BY <1>1, Deploying
<1>3. PICK S : x9 \in [Operator -> Deploy(S)] BY <1>2 DEF ArtifactTyped
<1> DEFINE T == S \cup {{}}
<1>4. x9 \in [Operator -> Deploy(T)] BY <1>3 DEF Deploy
<1>5. /\ next \in Deploy(T)
      /\ next.pc = "idle" \/ (next.pc = "retire" /\ next.release = r /\ x6 = r /\ x7 = None)
      /\ next = Artifact!Idle => next.pc = "idle"
  <2>1. {} \in T OBVIOUS
  <2>2. Artifact!Idle \in Deploy(T) /\ Artifact!Idle.pc = "idle"
    BY <2>1 DEF Deploy, Artifact!Idle
  <2>3. [x9[d] EXCEPT !.pc = "retire", !.done = {}] \in Deploy(T)
    <3>1. x9[d] \in Deploy(T) BY <1>4
    <3> HIDE DEF T
    <3> QED BY <1>1, <2>1, <3>1 DEF Deploy
  <2>4. /\ [x9[d] EXCEPT !.pc = "retire", !.done = {}].pc = "retire"
        /\ [x9[d] EXCEPT !.pc = "retire", !.done = {}].release = r
    BY <1>4 DEF Deploy
  <2> HIDE DEF T
  <2> QED BY <2>2, <2>3, <2>4
<1>6. /\ x8' = None /\ x5' = x5 \cap (kept \cup {x6, x7})
      /\ x9' = [e \in Operator |-> IF e = d THEN next
               ELSE [x9[e] EXCEPT !.lost = @ \/ x9[e].release = r]]
  BY DEF Artifact!OffRecord, Artifact!Swept
<1> HIDE DEF T
<1>7. /\ x9' \in [Operator -> Deploy(T)] /\ x9'[d] = next
      /\ \A e \in Operator \ {d} :
           /\ x9'[e].pc = x9[e].pc /\ x9'[e].release = x9[e].release /\ x9'[e].done = x9[e].done
           /\ ~x9'[e].lost => ~x9[e].lost /\ x9[e].release # r
  BY <1>4, <1>5, <1>6 DEF Deploy
<1>8. \A e \in Operator : Recorded(e)' => Recorded(e) /\ e # d /\ x9[e].release # r
  BY <1>1, <1>5, <1>7 DEF Recorded
<1>9. \A e \in Operator : ~Recorded(e)'
  <2> SUFFICES ASSUME NEW e \in Operator, Recorded(e)' PROVE FALSE OBVIOUS
  <2>1. x8 = x9[e].release /\ x9[e].release # r BY <1>8 DEF ArtifactInv, MarkerNames
  <2>2. x9[e].release \in Release BY <1>1, <1>8 DEF Recorded, ArtifactInv, ArtifactTyped, OnRecord, Before, Asking
  <2> QED BY <2>1, <2>2, ArtifactAssumption
<1>10. ArtifactTyped'
  <2>1. \A e \in Operator : x9'[e].pc # "idle" => x9'[e].release \in Release
    BY <1>2, <1>5, <1>7 DEF ArtifactTyped
  <2> QED BY <1>2, <1>6, <1>7, <2>1 DEF ArtifactTyped
<1>11. MarkerNames' /\ PreparedWhole' BY <1>6, <1>9 DEF ArtifactInv, MarkerNames, PreparedWhole
<1>12. FoundStays'
  <2>1. \A e \in Operator : x9'[e].pc = "ask" => e # d
    BY <1>1, <1>5, <1>7
  <2> QED BY <1>7, <1>9, <2>1 DEF ArtifactInv, FoundStays
<1>13. \A e \in Operator : x9'[e].pc \in Retiring =>
         (e = d /\ next # Artifact!Idle) \/ (e # d /\ x9[e].pc \in Retiring)
  BY <1>1, <1>5, <1>7
<1>14. OneRetires' BY <1>13 DEF ArtifactInv, OneRetires
<1>15. ASSUME NEW e \in Operator, (x9[e].pc)' \in Retiring
       PROVE  /\ PreparedMeanwhile(e)' /\ TakenIsUnselected(e)'
              /\ \A f \in Operator \ {e} : Meanwhile(f)'
  <2>1. \A f \in Operator : Meanwhile(f)' BY <1>6, <1>9 DEF Meanwhile
  <2>2. CASE e = d
    <3>1. x9'[d].pc = "retire" /\ x9'[d].release = r /\ x6 = r /\ x7 = None
      BY <1>1, <1>5, <1>7, <1>15, <2>2
    <3>2. None \notin x5 BY <1>2, ArtifactAssumption DEF ArtifactTyped
    <3>3. PreparedMeanwhile(d)' BY <1>6, <3>1, <3>2 DEF PreparedMeanwhile
    <3>4. TakenIsUnselected(d)' BY <3>1 DEF TakenIsUnselected
    <3> QED BY <2>1, <2>2, <3>3, <3>4
  <2>3. CASE e # d
    <3>1. /\ x9[e].pc \in Retiring /\ x9'[e].pc = x9[e].pc /\ x9'[e].release = x9[e].release
          /\ x9'[e].done = x9[e].done
      BY <1>7, <1>15, <2>3
    <3>2. next = Artifact!Idle /\ kept = {} /\ x6 # r /\ x9[d].pc = "abort" BY <3>1
    <3>3. PreparedMeanwhile(e) /\ TakenIsUnselected(e) /\ Meanwhile(d)
      BY <2>3, <3>1 DEF ArtifactInv
    <3>4. PreparedMeanwhile(e)'
      <4> SUFFICES ASSUME NEW s \in x11 \cap x5, s \in {x6, x7} PROVE s = x9[e].release
        BY <1>6, <3>1, <3>2 DEF PreparedMeanwhile
      <4>1. s \in Release /\ s # None BY <1>2, ArtifactAssumption DEF ArtifactTyped
      <4>2. s = x9[e].release \/ s = x8 BY <3>3 DEF PreparedMeanwhile
      <4>3. CASE s = x8
        <5>1. s = r /\ x7 = r /\ x8 # None BY <3>2, <4>1, <4>3
        <5>2. ~x9[d].lost BY <5>1, <1>1, <3>3 DEF Meanwhile
        <5> QED BY <1>1, <3>2, <3>3, <5>1, <5>2 DEF Meanwhile, Recorded
      <4> QED BY <4>2, <4>3
    <3>5. AtModel(e)' = AtModel(e) BY <3>1, SameModel
    <3>6. TakenIsUnselected(e)'
      BY <1>6, <1>9, <3>1, <3>3, <3>5 DEF TakenIsUnselected
    <3> QED BY <2>1, <3>4, <3>6
  <2> QED BY <2>2, <2>3
<1> QED BY <1>10, <1>11, <1>12, <1>14, <1>15 DEF ArtifactInv

LEMMA ArtifactFailsLate ==
  ASSUME ArtifactInv, ArtifactAssumption, NEW d \in Operator, x9[d].pc \in OnRecord,
         Artifact!Fails(d), \A e \in Operator : x9[e].pc \notin Retiring
  PROVE  ArtifactInv'
<1>1. /\ x9[d].pc # "idle" /\ "abort" \in OnRecord /\ "abort" \notin Asking /\ "abort" \notin Before
  BY DEF OnRecord, Before, Asking
<1>2. Artifact!Goto(d, "abort") /\ UNCHANGED <<x1, x3, x5, x6, x7, x8, x11>>
  BY DEF Artifact!Fails, Artifact!host
<1>3. ArtifactTyped /\ x9[d].release \in Release BY <1>1, Deploying
<1>4. Passes(d, "abort") /\ ModelsGrow BY <1>1, <1>2, <1>3, ArtifactGoto, ModelsStay
<1>5. (x1 = [o \in Artifact!Object |-> x1[o]])' BY <1>2, <1>3 DEF ArtifactTyped
<1> QED BY <1>1, <1>2, <1>3, <1>4, <1>5, ArtifactMoves

LEMMA ArtifactEnds ==
  ASSUME ArtifactInv, ArtifactAssumption, ArtifactGranted, NEW d \in Operator,
         Artifact!Retain(d) \/ Artifact!Commit(d)
  PROVE  ArtifactInv'
<1>1. /\ x9[d].pc \in {"activate", "gate"}
      /\ \A e \in Operator : x9[e].pc \notin Retiring
  BY DEF Artifact!Retain, Artifact!Commit, Artifact!At, Artifact!RetirementsOver, ArtifactGranted,
    Retiring
<1>2. x9[d].pc \in OnRecord BY <1>1 DEF OnRecord
<1>3. CASE Artifact!Fails(d) BY <1>1, <1>2, <1>3, ArtifactFailsLate
<1>4. ASSUME NEW next,
             \/ next = Artifact!Idle
             \/ /\ next = [x9[d] EXCEPT !.pc = "retire", !.done = {}]
                /\ x6 = x9[d].release /\ x7 = None,
             x8 \in {None, x9[d].release}, Artifact!Swept({x9[d].release}),
             Artifact!OffRecord(d, next), UNCHANGED <<x1, x3, x6, x7, x11>>
      PROVE  ArtifactInv'
  <2>1. {x9[d].release} \in SUBSET {x9[d].release} OBVIOUS
  <2> QED BY <1>1, <1>2, <1>4, <2>1, ArtifactOffRecord
<1>5. CASE Artifact!Retain(d)
  BY <1>3, <1>4, <1>5 DEF Artifact!Retain, Artifact!host
<1>6. CASE Artifact!Commit(d)
  <2>1. CASE x7 = None
    BY <1>3, <1>4, <1>6, <2>1 DEF Artifact!Commit, Artifact!host
  <2>2. CASE x7 # None
    BY <1>3, <1>4, <1>6, <2>2 DEF Artifact!Commit, Artifact!host
  <2> QED BY <2>1, <2>2
<1> QED BY <1>5, <1>6

\* A deploy that is over changes nothing for the others.
LEMMA ArtifactRests ==
  ASSUME ArtifactInv, NEW d \in Operator, x9' = [x9 EXCEPT ![d] = Artifact!Idle],
         UNCHANGED <<x1, x3, x5, x6, x7, x8, x11>>
  PROVE  ArtifactInv'
<1>1. "idle" \notin OnRecord /\ "idle" \notin Retiring /\ "ask" # "idle"
  BY DEF OnRecord, Before, Asking, Retiring
<1>2. /\ \E S : x9' \in [Operator -> Deploy(S)]
      /\ \A e \in Operator \ {d} : x9'[e] = x9[e]
      /\ x9'[d].pc = "idle"
  BY ArtifactIdles DEF ArtifactInv
<1>3. \A e \in Operator : Recorded(e)' <=> (Recorded(e) /\ e # d)
  BY <1>1, <1>2 DEF Recorded
<1>4. ArtifactTyped' BY <1>2 DEF ArtifactInv, ArtifactTyped
<1>5. PreparedWhole' /\ MarkerNames' /\ FoundStays' /\ OneRetires'
  BY <1>1, <1>2, <1>3 DEF ArtifactInv, PreparedWhole, MarkerNames, FoundStays, OneRetires
<1>6. ASSUME NEW e \in Operator, (x9[e].pc)' \in Retiring
      PROVE  /\ PreparedMeanwhile(e)' /\ TakenIsUnselected(e)'
             /\ \A f \in Operator \ {e} : Meanwhile(f)'
  <2>1. e # d /\ x9'[e] = x9[e] /\ x9[e].pc \in Retiring BY <1>1, <1>2, <1>6
  <2>2. PreparedMeanwhile(e) /\ TakenIsUnselected(e) /\ \A f \in Operator \ {e} : Meanwhile(f)
    BY <2>1 DEF ArtifactInv
  <2>3. PreparedMeanwhile(e)' BY <2>1, <2>2 DEF PreparedMeanwhile
  <2>4. AtModel(e)' = AtModel(e) BY <2>1, SameModel
  <2>5. TakenIsUnselected(e)'
    BY <1>2, <1>3, <2>1, <2>2, <2>4 DEF TakenIsUnselected
  <2>6. ASSUME NEW f \in Operator \ {e} PROVE Meanwhile(f)'
    BY <1>1, <1>2, <1>3, <2>2 DEF Meanwhile
  <2> QED BY <2>3, <2>5, <2>6
<1> QED BY <1>4, <1>5, <1>6 DEF ArtifactInv

LEMMA ArtifactAborts ==
  ASSUME ArtifactInv, ArtifactAssumption, NEW d \in Operator, Artifact!Abort(d)
  PROVE  ArtifactInv'
<1>1. /\ x9[d].pc = "abort" /\ UNCHANGED <<x1, x3, x6, x7, x11>>
      /\ IF x8 \in {None, x9[d].release} /\ x6 # x9[d].release
         THEN Artifact!Swept({}) /\ Artifact!OffRecord(d, Artifact!Idle)
         ELSE x9' = [x9 EXCEPT ![d] = Artifact!Idle] /\ UNCHANGED <<x5, x8>>
  BY DEF Artifact!Abort, Artifact!At, Artifact!host
<1>2. x9[d].pc \in OnRecord BY <1>1 DEF OnRecord
<1>3. {} \in SUBSET {x9[d].release} OBVIOUS
<1> QED BY <1>1, <1>2, <1>3, ArtifactOffRecord, ArtifactRests

LEMMA ArtifactBegins ==
  ASSUME ArtifactInv, ArtifactAssumption, TwoDrivers, NEW d \in Operator, NEW r \in Release,
         NEW rehearses \in BOOLEAN, Artifact!Begin(d, r, rehearses)
  PROVE  ArtifactInv'
<1>0. PICK pc : pc = IF r \in x5 THEN "activate" ELSE "ask" OBVIOUS
<1> DEFINE new == [Artifact!Idle EXCEPT !.pc = pc, !.release = r, !.rehearses = rehearses]
<1>1. /\ x9[d].pc = "idle" /\ x8 \in {None, r} /\ x8' = r
      /\ x5' = x5 \cap ({r} \cup {x6, x7})
      /\ x9' = [x9 EXCEPT ![d] = new]
      /\ UNCHANGED <<x1, x3, x6, x7, x11>>
  BY <1>0 DEF Artifact!Begin, Artifact!At, Artifact!Swept, Artifact!host
<1>2. Artifact!Idle \in Deploy({{}}) /\ Artifact!Idle.done = {} /\ Artifact!Idle.lost = FALSE
  BY DEF Deploy, Artifact!Idle
<1>3. /\ "idle" \notin OnRecord /\ "idle" \notin Retiring
      /\ {"activate", "ask"} \subseteq OnRecord \ (Asking \cup Retiring)
      /\ "activate" \notin Before
  BY DEF OnRecord, Before, Asking, Retiring
<1>4. PICK S : x9 \in [Operator -> Deploy(S)] BY DEF ArtifactInv, ArtifactTyped
<1> DEFINE T == S \cup {{}}
<1>5. x9 \in [Operator -> Deploy(T)] BY <1>4 DEF Deploy
<1>6. new \in Deploy(T)
  <2>1. pc \in {"idle"} \cup OnRecord \cup Retiring BY <1>0, <1>3
  <2>2. Artifact!Idle \in Deploy(T) BY <1>2 DEF Deploy
  <2> HIDE DEF T
  <2> QED BY <2>1, <2>2 DEF Deploy
<1>7. /\ new.pc = pc /\ new.release = r /\ new.done = {} /\ new.lost = FALSE
      /\ pc \in {"activate", "ask"} /\ (pc = "ask" => r \notin x5)
      /\ pc # "idle" /\ pc \notin Retiring /\ pc \notin Asking /\ pc \in OnRecord
      /\ pc # "abort" /\ (pc \in Before => r \notin x5)
  BY <1>0, <1>2, <1>3 DEF Deploy, OnRecord, Before, Asking, Retiring
<1> HIDE DEF T, new
<1>8. /\ x9' \in [Operator -> Deploy(T)] /\ x9'[d] = new
      /\ \A e \in Operator \ {d} : x9'[e] = x9[e]
  BY <1>1, <1>2, <1>5, <1>6
<1>9. \A e \in Operator : e # d => (Recorded(e)' <=> Recorded(e))
  BY <1>8 DEF Recorded
<1>10. ArtifactTyped' BY <1>1, <1>7, <1>8 DEF ArtifactInv, ArtifactTyped
<1>11. MarkerNames'
  <2> SUFFICES ASSUME NEW e \in Operator, Recorded(e)' PROVE x8' = x9'[e].release
    BY DEF MarkerNames
  <2>1. CASE e = d BY <1>1, <1>7, <1>8, <2>1
  <2>2. CASE e # d
    <3>1. x8 = x9[e].release /\ x9[e].release \in Release
      BY <1>3, <1>9, <2>2 DEF ArtifactInv, ArtifactTyped, MarkerNames, Recorded
    <3> QED BY <1>1, <1>8, <2>2, <3>1, ArtifactAssumption
  <2> QED BY <2>1, <2>2
<1>12. PreparedWhole' BY <1>1 DEF ArtifactInv, PreparedWhole
<1>13. FoundStays' BY <1>1, <1>3, <1>7, <1>8, <1>9 DEF ArtifactInv, FoundStays
<1>14. OneRetires' BY <1>3, <1>7, <1>8 DEF ArtifactInv, OneRetires
<1>15. ASSUME NEW e \in Operator, (x9[e].pc)' \in Retiring
       PROVE  /\ PreparedMeanwhile(e)' /\ TakenIsUnselected(e)'
              /\ \A f \in Operator \ {e} : Meanwhile(f)'
  <2>1. e # d /\ x9'[e] = x9[e] /\ x9[e].pc \in Retiring BY <1>3, <1>7, <1>8, <1>15
  <2>2. PreparedMeanwhile(e) /\ TakenIsUnselected(e) BY <2>1 DEF ArtifactInv
  <2>3. None \notin x5 BY ArtifactAssumption DEF ArtifactInv, ArtifactTyped
  <2>4. PreparedMeanwhile(e)' BY <1>1, <2>1, <2>2, <2>3 DEF PreparedMeanwhile
  <2>5. AtModel(e)' = AtModel(e) BY <2>1, SameModel
  <2>6. TakenIsUnselected(e)'
    BY <1>1, <1>3, <1>7, <1>8, <1>9, <2>1, <2>2, <2>5 DEF TakenIsUnselected
  <2>7. \A f \in Operator \ {e} : f = d BY <2>1 DEF TwoDrivers
  <2>8. Meanwhile(d)'
    <3>1. pc # "abort" /\ r \notin x5 => r \notin x5' BY <1>1, <1>7
    <3> QED BY <1>3, <1>7, <1>8, <3>1 DEF Meanwhile
  <2> QED BY <2>4, <2>6, <2>7, <2>8
<1> QED BY <1>10, <1>11, <1>12, <1>13, <1>14, <1>15 DEF ArtifactInv

\* A step of the one that retires, to the next step of its retirement.
LEMMA ArtifactRetires ==
  ASSUME ArtifactInv, NEW d \in Operator, x9[d].pc \in Retiring, NEW pc \in Retiring, Passes(d, pc),
         UNCHANGED <<x1, x5, x6, x7, x8, x11>>, (x3 = [m \in Model |-> x3[m]])',
         PreparedWhole', FoundStays', TakenIsUnselected(d)'
  PROVE  ArtifactInv'
<1>1. \A p \in Retiring : p \notin OnRecord /\ p # "idle"
  BY DEF OnRecord, Before, Asking, Retiring
<1>2. \A e \in Operator : Recorded(e)' <=> Recorded(e) BY <1>1 DEF Passes, Recorded
<1>3. ArtifactTyped' BY <1>1 DEF Passes, ArtifactInv, ArtifactTyped
<1>4. MarkerNames' /\ OneRetires' BY <1>2 DEF Passes, ArtifactInv, MarkerNames, OneRetires
<1>5. ASSUME NEW e \in Operator, (x9[e].pc)' \in Retiring
      PROVE  /\ PreparedMeanwhile(e)' /\ TakenIsUnselected(e)'
             /\ \A f \in Operator \ {e} : Meanwhile(f)'
  <2>1. e = d BY <1>5 DEF Passes, ArtifactInv, OneRetires
  <2>2. PreparedMeanwhile(d) /\ \A f \in Operator \ {d} : Meanwhile(f) BY DEF ArtifactInv
  <2>3. PreparedMeanwhile(d)' BY <2>2 DEF Passes, PreparedMeanwhile
  <2>4. ASSUME NEW f \in Operator \ {d} PROVE Meanwhile(f)'
    BY <1>2, <2>2 DEF Passes, Meanwhile
  <2> QED BY <2>1, <2>3, <2>4
<1> QED BY <1>3, <1>4, <1>5 DEF ArtifactInv

LEMMA ArtifactTakesNext ==
  ASSUME ArtifactInv, ArtifactAssumption, NEW d \in Operator,
         Artifact!Retire(d) \/ Artifact!EndRetire(d) \/ Artifact!RetirementFails(d)
  PROVE  ArtifactInv'
<1>1. UNCHANGED <<x1, x3, x5, x6, x7, x8, x11>> /\ ArtifactTyped
  BY DEF Artifact!Retire, Artifact!EndRetire, Artifact!RetirementFails, Artifact!host, ArtifactInv
<1>2. CASE x9' = [x9 EXCEPT ![d] = Artifact!Idle] BY <1>1, <1>2, ArtifactRests
<1>3. CASE /\ x9[d].pc = "retire" /\ Artifact!MayRetire(d, AtModel(d))
           /\ x9' = [x9 EXCEPT ![d].pc = "match"]
  <2>1. x9[d].pc \in Retiring /\ "match" \in Retiring /\ "match" \notin OnRecord /\ x9[d].pc # "idle"
    BY <1>3 DEF OnRecord, Before, Asking, Retiring
  <2>2. Artifact!Goto(d, "match") BY <1>3 DEF Artifact!Goto
  <2>3. Passes(d, "match") /\ (x9[d].done)' = x9[d].done
    BY <1>1, <2>1, <2>2, ArtifactGoto
  <2>4. \A e \in Operator : Recorded(e)' => Recorded(e) /\ e # d
    BY <2>1, <2>3 DEF Passes, Recorded
  <2>5. PreparedWhole' BY <1>1 DEF ArtifactInv, PreparedWhole
  <2>6. FoundStays' BY <1>1, <2>3, <2>4 DEF Passes, ArtifactInv, FoundStays
  <2>7. x6 = x9[d].release /\ x8 = None /\ AtModel(d) \notin Selects[x6]
    BY <1>3 DEF Artifact!MayRetire
  <2>8. \A s \in x11 \cap x5 : s = x6
    BY <1>1, <2>1, <2>7, ArtifactAssumption DEF ArtifactInv, ArtifactTyped, PreparedMeanwhile
  <2>9. \A e \in Operator : ~Recorded(e)
    <3> SUFFICES ASSUME NEW e \in Operator, Recorded(e) PROVE FALSE OBVIOUS
    <3>1. x9[e].pc # "idle" BY DEF Recorded, OnRecord, Before, Asking
    <3>2. x9[e].release = None /\ x9[e].release \in Release
      BY <1>1, <2>7, <3>1 DEF ArtifactInv, ArtifactTyped, MarkerNames
    <3> QED BY <3>2, ArtifactAssumption
  <2>10. AtModel(d)' = AtModel(d) BY <2>3, SameModel DEF Passes
  <2>11. TakenIsUnselected(d)'
    BY <1>1, <2>3, <2>4, <2>7, <2>8, <2>9, <2>10 DEF Passes, TakenIsUnselected
  <2>12. (x3 = [m \in Model |-> x3[m]])' BY <1>1 DEF ArtifactTyped
  <2> QED BY <1>1, <2>1, <2>3, <2>5, <2>6, <2>11, <2>12, ArtifactRetires
<1>4. CASE Artifact!Retire(d)
  <2>1. x9[d].pc = "retire" BY <1>4 DEF Artifact!Retire, Artifact!At
  <2>2. CASE Artifact!MayRetire(d, AtModel(d))
    <3>1. x9' = [x9 EXCEPT ![d] = [@ EXCEPT !.pc = "match"]]
      BY <1>4, <2>2 DEF Artifact!Retire, AtModel
    <3>2. x9' = [x9 EXCEPT ![d].pc = "match"] BY <1>1, <3>1 DEF ArtifactTyped
    <3> QED BY <1>3, <2>1, <2>2, <3>2
  <2>3. CASE ~Artifact!MayRetire(d, AtModel(d))
    BY <1>2, <1>4, <2>3 DEF Artifact!Retire, AtModel
  <2> QED BY <2>2, <2>3
<1> QED BY <1>2, <1>4 DEF Artifact!EndRetire, Artifact!RetirementFails

\* What a retirement takes away is of nothing that may still be served.
LEMMA ArtifactTakes ==
  ASSUME ArtifactInv, ArtifactAssumption, NEW d \in Operator,
         Artifact!MatchModel(d) \/ Artifact!RemoveModel(d)
  PROVE  ArtifactInv'
<1>0. PICK m : m = AtModel(d) OBVIOUS
<1>1. UNCHANGED <<x1, x5, x6, x7, x8, x11>> /\ ArtifactTyped
  BY DEF Artifact!MatchModel, Artifact!RemoveModel, ArtifactInv
<1>2. /\ Retiring \cap OnRecord = {} /\ {"match", "remove", "retire"} \subseteq Retiring
      /\ "idle" \notin Retiring
      /\ Asking \subseteq OnRecord /\ "ask" \in OnRecord
  BY DEF OnRecord, Before, Asking, Retiring
<1>3. x9[d].pc \in {"match", "remove"} /\ x9[d].pc \in Retiring /\ x9[d].pc # "idle"
  BY <1>2 DEF Artifact!MatchModel, Artifact!RemoveModel, Artifact!At
<1>4. TakenIsUnselected(d) /\ \A s \in x11 \cap x5 : m \notin Selects[s]
  BY <1>0, <1>3 DEF ArtifactInv, TakenIsUnselected
<1>5. ASSUME NEW pc \in Retiring, Passes(d, pc)
      PROVE  \A e \in Operator : /\ Recorded(e)' => Recorded(e) /\ e # d
                                 /\ e # d => x9'[e] = x9[e]
                                 /\ x9'[e].pc = "ask" => e # d
  BY <1>2, <1>5 DEF Passes, Recorded
<1>6. ASSUME NEW v, x3' = [x3 EXCEPT ![m] = v]
      PROVE  /\ PreparedWhole' /\ (x3 = [k \in Model |-> x3[k]])'
             /\ m \in Model => x3'[m] = v
             /\ \A k \in Model : k # m => x3'[k] = x3[k]
  <2>1. x3' = [k \in Model |-> IF k = m THEN v ELSE x3[k]]
    BY <1>1, <1>6 DEF ArtifactTyped
  <2>2. \A s \in x5 : Selects[s] \subseteq Model
    BY <1>1, ArtifactAssumption DEF ArtifactTyped
  <2>3. PreparedWhole' BY <1>1, <1>4, <2>1, <2>2 DEF ArtifactInv, PreparedWhole
  <2> QED BY <2>1, <2>3
<1>7. \A e \in Operator : Recorded(e) => Selects[x9[e].release] \subseteq Model
  <2> SUFFICES ASSUME NEW e \in Operator, Recorded(e) PROVE Selects[x9[e].release] \subseteq Model
    OBVIOUS
  <2>1. x9[e].pc # "idle" BY DEF Recorded, OnRecord, Before, Asking
  <2> QED BY <1>1, <2>1, ArtifactAssumption DEF ArtifactTyped
<1>8. CASE /\ x9[d].pc = "match" /\ x3' = [x3 EXCEPT ![m] = "torn"] /\ Artifact!Goto(d, "remove")
  <2>1. Passes(d, "remove") /\ (x9[d].done)' = x9[d].done
    BY <1>1, <1>2, <1>3, <1>8, ArtifactGoto
  <2>2. AtModel(d)' = m BY <1>0, <2>1, SameModel DEF Passes
  <2>3. TakenIsUnselected(d)'
    BY <1>1, <1>2, <1>4, <1>6, <1>8, <2>1, <2>2 DEF Passes, TakenIsUnselected
  <2>4. \A e \in Operator : Recorded(e) /\ x9[e].pc \in Asking => x9[e].done = {}
    BY <1>4, <1>8 DEF TakenIsUnselected
  <2>5. FoundStays' BY <1>2, <1>5, <2>1, <2>4 DEF ArtifactInv, FoundStays
  <2> QED BY <1>1, <1>2, <1>3, <1>6, <1>8, <2>1, <2>3, <2>5, ArtifactRetires
<1>9. CASE /\ x3' = x3
           /\ x9' = [x9 EXCEPT ![d].pc = "retire", ![d].done = x9[d].done \cup {m}]
  <2>1. Passes(d, "retire") BY <1>1, <1>2, <1>3, <1>9, ArtifactGoes
  <2>2. TakenIsUnselected(d)' BY <2>1 DEF Passes, TakenIsUnselected
  <2>3. FoundStays' BY <1>2, <1>5, <1>9, <2>1 DEF ArtifactInv, FoundStays
  <2>4. PreparedWhole' /\ (x3 = [k \in Model |-> x3[k]])'
    BY <1>1, <1>9 DEF ArtifactInv, ArtifactTyped, PreparedWhole
  <2> QED BY <1>1, <1>2, <1>3, <2>1, <2>2, <2>3, <2>4, ArtifactRetires
<1>10. CASE /\ x9[d].pc = "remove" /\ x3' = [x3 EXCEPT ![m] = "absent"]
            /\ x9' = [x9 EXCEPT ![d].pc = "retire", ![d].done = x9[d].done \cup {m}]
  <2>1. Passes(d, "retire") BY <1>1, <1>2, <1>3, <1>10, ArtifactGoes
  <2>2. TakenIsUnselected(d)' BY <2>1 DEF Passes, TakenIsUnselected
  <2>3. m \in Model => x3[m] = "torn" BY <1>0, <1>4, <1>10 DEF TakenIsUnselected
  <2>4. FoundStays'
    <3> SUFFICES ASSUME NEW e \in Operator
                 PROVE  /\ x9'[e].pc = "ask" => x9'[e].done = {}
                        /\ Recorded(e)' /\ x9'[e].pc \in Asking =>
                             \A k \in x9'[e].done \cap Selects[x9'[e].release] : x3'[k] = "whole"
      BY DEF FoundStays
    <3>1. x9'[e].pc = "ask" => x9'[e].done = {}
      BY <1>2, <1>5, <2>1 DEF ArtifactInv, FoundStays
    <3>2. ASSUME Recorded(e)', x9'[e].pc \in Asking,
                 NEW k \in x9'[e].done \cap Selects[x9'[e].release]
          PROVE  x3'[k] = "whole"
      <4>1. Recorded(e) /\ x9'[e] = x9[e] BY <1>2, <1>5, <2>1, <3>2
      <4>2. x3[k] = "whole" /\ k \in Model
        BY <1>7, <3>2, <4>1 DEF ArtifactInv, FoundStays
      <4> QED BY <1>6, <1>10, <2>3, <4>2
    <3> QED BY <3>1, <3>2
  <2> QED BY <1>1, <1>2, <1>3, <1>6, <1>10, <2>1, <2>2, <2>4, ArtifactRetires
<1>11. CASE Artifact!MatchModel(d)
  BY <1>0, <1>8, <1>9, <1>11 DEF Artifact!MatchModel, Artifact!At, AtModel
<1>12. CASE Artifact!RemoveModel(d)
  BY <1>0, <1>10, <1>12 DEF Artifact!RemoveModel, Artifact!At, AtModel
<1> QED BY <1>11, <1>12

LEMMA ArtifactStep ==
  ASSUME ArtifactInv, ArtifactAssumption, ArtifactGranted, TwoDrivers, Artifact!Next
  PROVE  ArtifactInv'
<1>1. CASE Artifact!LastProcessEnds
  <2>1. CASE Operator = {}
    BY <1>1, <2>1 DEF Artifact!LastProcessEnds, Artifact!host, ArtifactInv, ArtifactTyped,
      PreparedWhole, MarkerNames, FoundStays, OneRetires
  <2>2. CASE Operator # {} BY <1>1, <2>2, ArtifactFallsBack
  <2> QED BY <2>1, <2>2
<1>2. ASSUME NEW d \in Operator,
             \/ \E r \in Release, rehearses \in BOOLEAN : Artifact!Begin(d, r, rehearses)
             \/ Artifact!Proceed(d) \/ Artifact!CallFails(d) \/ Artifact!GuardStops(d)
             \/ Artifact!RetirementFails(d) \/ Artifact!GateFails(d)
      PROVE  ArtifactInv'
  BY <1>2, ArtifactBegins, ArtifactCarries, ArtifactAsks, ArtifactCopies, ArtifactBuilds, ArtifactEnds,
     ArtifactActivates, ArtifactAborts, ArtifactTakesNext, ArtifactTakes, ArtifactFallsBack
     DEF Artifact!Proceed
<1> QED BY <1>1, <1>2 DEF Artifact!Next

\* Nothing but a retirement breaks a model, and nothing an object.
LEMMA ArtifactPublishes ==
  ASSUME ArtifactTyped, Artifact!Next
  PROVE  Artifact!PublishedWhole
<1> USE DEF Artifact!PublishedWhole
<1>1. CASE UNCHANGED <<x1, x3>> BY <1>1
<1>2. ASSUME NEW d \in Operator, Artifact!InstallObject(d) PROVE Artifact!PublishedWhole
  <2>1. PICK o : UNCHANGED x3 /\ (UNCHANGED x1 \/ x1' = [x1 EXCEPT ![o] = "whole"])
    BY <1>2 DEF Artifact!InstallObject, Artifact!Fails, Artifact!host
  <2>2. \A p \in Artifact!Object : x1'[p] \in {x1[p], "whole"} BY <2>1 DEF ArtifactTyped
  <2> QED BY <2>1, <2>2
<1>3. ASSUME NEW d \in Operator, Artifact!CopyModel(d) \/ Artifact!RemoveModel(d)
      PROVE  Artifact!PublishedWhole
  <2>1. ASSUME NEW m, NEW v \in {"whole", "absent"}, UNCHANGED x1, x3' = [x3 EXCEPT ![m] = v]
        PROVE  Artifact!PublishedWhole
    <3>1. \A k \in Model : x3'[k] \in {x3[k], v} BY <2>1 DEF ArtifactTyped
    <3> QED BY <2>1, <3>1
  <2>2. PICK m : m = Artifact!Next1(d) OBVIOUS
  <2>3. CASE Artifact!CopyModel(d)
    <3>1. UNCHANGED x1 /\ (UNCHANGED x3 \/ x3' = [x3 EXCEPT ![m] = "whole"])
      BY <2>2, <2>3 DEF Artifact!CopyModel, Artifact!Fails, Artifact!host
    <3> QED BY <1>1, <2>1, <3>1
  <2>4. PICK n : n = AtModel(d) OBVIOUS
  <2>5. CASE Artifact!RemoveModel(d)
    <3>1. UNCHANGED x1 /\ x3' = [x3 EXCEPT ![n] = "absent"]
      BY <2>4, <2>5 DEF Artifact!RemoveModel, AtModel
    <3> QED BY <2>1, <3>1
  <2> QED BY <1>3, <2>3, <2>5
<1>4. ASSUME NEW d \in Operator, Artifact!MatchModel(d) PROVE Artifact!PublishedWhole
  <2>1. UNCHANGED x1 BY <1>4 DEF Artifact!MatchModel
  <2>2. CASE UNCHANGED x3 BY <2>1, <2>2
  <2>3. CASE Artifact!Goto(d, "remove")
    <3>1. x9[d].pc = "match" /\ x9[d].pc # "idle" /\ "remove" \in Retiring
      BY <1>4 DEF Artifact!MatchModel, Artifact!At, Retiring
    <3>2. (x9[d].pc)' = "remove" BY <2>3, <3>1, ArtifactGoto DEF Passes
    <3> QED BY <2>1, <3>1, <3>2 DEF Artifact!At
  <2> QED BY <1>4, <2>2, <2>3 DEF Artifact!MatchModel
<1>5. ASSUME NEW d \in Operator,
             \/ \E r \in Release, rehearses \in BOOLEAN : Artifact!Begin(d, r, rehearses)
             \/ Artifact!CallFails(d) \/ Artifact!GuardStops(d)
             \/ Artifact!RetirementFails(d) \/ Artifact!GateFails(d)
      PROVE  UNCHANGED <<x1, x3>>
  BY <1>5
  DEF Artifact!Begin, Artifact!CallFails, Artifact!GuardStops, Artifact!RetirementFails,
    Artifact!GateFails, Artifact!Fails, Artifact!host
<1>6. ASSUME NEW d \in Operator,
             \/ Artifact!Ask(d) \/ Artifact!Guard(d) \/ Artifact!UploadObjects(d)
             \/ Artifact!Finalize(d) \/ Artifact!EndFinalize(d) \/ Artifact!AskModel(d)
             \/ Artifact!ClearStage(d) \/ Artifact!SendModel(d) \/ Artifact!ModelSent(d)
             \/ Artifact!PlaceModel(d)
      PROVE  UNCHANGED <<x1, x3>>
  BY <1>6
  DEF Artifact!Ask, Artifact!Guard, Artifact!UploadObjects, Artifact!Finalize,
    Artifact!EndFinalize, Artifact!AskModel, Artifact!ClearStage, Artifact!SendModel,
    Artifact!ModelSent, Artifact!PlaceModel, Artifact!Fails, Artifact!host
<1>7. ASSUME NEW d \in Operator,
             \/ Artifact!Build(d) \/ Artifact!Retain(d) \/ Artifact!Activate(d)
             \/ Artifact!Commit(d) \/ Artifact!Abort(d) \/ Artifact!Retire(d)
             \/ Artifact!EndRetire(d)
      PROVE  UNCHANGED <<x1, x3>>
  BY <1>7
  DEF Artifact!Build, Artifact!Retain, Artifact!Activate, Artifact!Commit, Artifact!Abort,
    Artifact!Retire, Artifact!EndRetire, Artifact!Fails, Artifact!host
<1>8. ASSUME NEW d \in Operator, Artifact!Proceed(d) PROVE Artifact!PublishedWhole
  BY <1>1, <1>2, <1>3, <1>4, <1>6, <1>7, <1>8 DEF Artifact!Proceed
<1>9. CASE Artifact!LastProcessEnds
  BY <1>1, <1>9 DEF Artifact!LastProcessEnds, Artifact!host
<1> HIDE DEF Artifact!PublishedWhole
<1> QED BY <1>1, <1>5, <1>8, <1>9 DEF Artifact!Next

\* What is served may be activated without a question.
LEMMA ArtifactServes ==
  ASSUME ArtifactInv, ArtifactAssumption
  PROVE  Artifact!ServedHasModels
BY DEF ArtifactInv, ArtifactTyped, PreparedWhole, Artifact!ServedHasModels

\* ModelsKept: for any releases, models and selections, whatever breaks or stops
\* and however often, what is served of a deploy that stayed on record has its
\* models whole, and no broken copy takes a name; of two workstations, while no
\* deploy asks what is held during another's retirement, nor ends before it.
THEOREM ServedKeepsModels ==
  ASSUME ArtifactGranted, TwoDrivers
  PROVE  Spec => ModelsKept
<1> DEFINE I == machine = "artifacts" => ArtifactInv
           A == machine = "artifacts" => Artifact!PublishedWhole /\ Artifact!ServedHasModels'
<1>1. Init => I
  BY ArtifactAssumption, ArtifactInit DEF Init
<1>2. (I /\ machine = "artifacts" => Artifact!ServedHasModels)'
  <2>1. I /\ machine = "artifacts" => Artifact!ServedHasModels
    BY ArtifactAssumption, ArtifactServes
  <2> QED BY <2>1, PTL
<1>3. I /\ [Next]_vars => I' /\ [A]_vars
  <2>1. CASE Next
    <3>1. I => I' BY <2>1, OneMachine, ArtifactAssumption, ArtifactStep
    <3>2. I => A
      <4>1. machine' = machine BY <2>1, OneMachine
      <4>2. machine = "artifacts" /\ ArtifactInv' => Artifact!ServedHasModels' BY <1>2, <4>1
      <4> QED BY <2>1, <3>1, <4>1, <4>2, OneMachine, ArtifactPublishes DEF ArtifactInv
    <3> QED BY <3>1, <3>2
  <2>2. CASE UNCHANGED vars
    <3>1. UNCHANGED <<x1, x3, x5, x6, x7, x8, x9, x11, machine>> BY <2>2 DEF vars
    <3>2. \A e : AtModel(e)' = AtModel(e) BY <3>1, SameModel
    <3>3. ArtifactInv => ArtifactInv'
      BY <3>1, <3>2 DEF ArtifactInv, ArtifactTyped, MarkerNames, PreparedWhole, FoundStays, OneRetires,
        PreparedMeanwhile, TakenIsUnselected, Meanwhile, Recorded
    <3> QED BY <2>2, <3>1, <3>3
  <2> QED BY <2>1, <2>2
<1>4. Spec => [][A]_vars
  BY <1>1, <1>3, PTL DEF Spec
<1> QED BY <1>4, PTL DEF ModelsKept

-----------------------------------------------------------------------------
(* OwnerDirectory: x1 keys, x2 directory, x3 litter, x4 port, x5 era,       *)
(* x6 contract, x7 hub, x8 package, x9 call, x10 issued, x11 commands,      *)
(* x12 shown.                                                               *)

Doc == [generation : Nat, revision : Nat, port : Port, era : Nat, contract : Nat \ {0}, id : Nat]
KeyRing ==
  [root : Operator \cup {None, Half}, signer : {None, Half, 1},
   certificate : Nat \cup {None}, key : Nat \cup {None}]
Hub ==
  [owner : Operator \cup {None}, generation : Nat, directory : Doc \cup {None},
   leaf : Nat \cup {None}]
\* The steps before a directory is issued.
BeforeIssue == {"root", "root certificate", "signer", "signer certificate", "leaf", "leaf key", "adopt"}
OwnerCall ==
  [pc : {"idle", "observe", "issue", "deliver", "gate"} \cup BeforeIssue, restores : BOOLEAN,
   generation : Nat, served : Doc \cup {None}, before : Hub \cup {None}]
OwnerTyped ==
  /\ x1 \in [Operator -> KeyRing]
  /\ x2 \in [Operator -> Doc \cup {None}]
  /\ x4 \in Port /\ x5 \in Nat /\ x6 \in Nat \ {0}
  /\ x7 \in Hub
  /\ x8 \in [generation : Nat, keys : KeyRing, directory : Doc \cup {None}] \cup {None}
  /\ x9 \in [Operator -> OwnerCall]
  /\ x10 \in Nat
  /\ x12 \subseteq Doc

\* The generation of the Host, which it keeps from its first Authority on.
Gen == IF x7.owner = None THEN 1 ELSE x7.generation
OfTheLine(d) == d # None => d.generation = Gen /\ d.contract <= x6
OneLine ==
  /\ \A d \in x12 : OfTheLine(d)
  /\ \A k \in Operator : OfTheLine(x2[k])
  /\ OfTheLine(x7.directory)
  /\ x8 # None => OfTheLine(x8.directory) /\ x8.generation = Gen
  /\ \A k \in Operator : x9[k].pc \notin {"idle", "observe"} => x9[k].generation = Gen
  /\ MaxContract = 1 => x6 = 1

OneTurn == \A a, b \in Operator : x9[a].pc # "idle" /\ x9[b].pc # "idle" => a = b

\* Keepers of the root by which the Authority was established.
Keeps(k) == x7.owner # None /\ x1[k].root = x7.owner
Established ==
  IF x7.owner = None
  THEN /\ x12 = {} /\ x7.directory = None /\ x8 = None
       /\ \A k \in Operator : x1[k].root \in {None, Half, k}
  ELSE /\ x7.directory \in x12
       /\ \A k \in Operator : Keeps(k) => x2[k] # None
       /\ x8 # None => x8.directory # None /\ x8.keys.root = x7.owner

\* d is newer than s, or is s; than everything a device may hold.
Covers(d, s) == s = d \/ s.revision < d.revision
CoversShown(d) == d # None /\ \A s \in x12 : Covers(d, s)

\* What a gate has taken back is covered by every keeper's own directory, which
\* can be read whenever the served one can, and by what a backup may bring.
TakenBackKept ==
  \A s \in x12 : Covers(x7.directory, s) \/
    /\ \A k \in Operator : Keeps(k) =>
         Covers(x2[k], s) /\ x2[k].contract >= x7.directory.contract
    /\ x8 # None => Owner!Behind(x8.directory) \/ x8.directory.contract >= x7.directory.contract

\* As long as no material can have been lost, an only keeper has the newest directory.
Lossless == "material_lost" \notin Faults \/ faults = 0
LossStays == Lossless' => Lossless
Tops(k, d) == Covers(x2[k], d) /\ x2[k].contract >= d.contract
OnlyKeeper ==
  x7.owner # None =>
    /\ \E k \in Operator : Keeps(k)
    /\ \A k \in Operator : Keeps(k) /\ (\A e \in Operator : Keeps(e) => e = k) =>
         /\ \A s \in x12 : Tops(k, s)
         /\ x8 # None => Tops(k, x8.directory)

\* What a command has found out, and goes by.
Observed(k) ==
  LET pc == x9[k].pc IN
  /\ pc \in {"idle", "observe"} => ~x9[k].restores
  /\ pc \in BeforeIssue \cup {"issue", "deliver", "gate"} =>
       /\ x7.owner = None \/ Keeps(k)
       /\ x9[k].restores => x7.owner # None /\ x9[k].served = None
  /\ pc \in BeforeIssue /\ ~x9[k].restores => x9[k].served = x7.directory
  /\ pc \in BeforeIssue /\ x9[k].restores => CoversShown(x2[k])
  /\ pc = "root certificate" => x7.owner = None
  /\ pc \notin {"idle", "observe", "root", "root certificate"} => x1[k].root \in Operator
  /\ pc \in {"issue", "deliver", "gate"} => x7.owner = None \/ CoversShown(x2[k])
  /\ pc \in {"deliver", "gate"} => x2[k] # None /\ x2[k].contract = x6
  /\ pc = "gate" =>
       /\ x7.owner # None /\ x7.directory = x2[k]
       /\ x9[k].before \in Hub /\ x9[k].before.directory \in x12 \cup {None}

OwnerInv ==
  /\ OwnerTyped /\ OneLine /\ OneTurn /\ Established
  /\ Owner!OneDocument /\ TakenBackKept
  /\ Lossless => OnlyKeeper
  /\ \A k \in Operator : Observed(k)

OwnerGranted ==
  /\ {"meanwhile", "stale_restore", "fails_elsewhere"} \cap Faults = {}
  /\ \/ MaxContract = 1 \/ "material_lost" \notin Faults
     \/ "gate_fails" \notin Faults \/ MaxFaults.owner \in 0..1

LEMMA OwnerInit == ASSUME OwnerAssumption, UpkeepAssumption, Owner!Init PROVE OwnerInv
<1>1. /\ x4 \in Port /\ x5 = 1 /\ x6 = 1 /\ x8 = None
      /\ x9 = [k \in Operator |-> Owner!Resting]
  BY DEF Owner!Init
<1>2. Owner!Resting \in OwnerCall /\ Owner!Resting.pc = "idle" /\ Owner!Resting.restores = FALSE
  BY DEF Owner!Resting, OwnerCall
<1>3. x9 \in [Operator -> OwnerCall] /\ \A k \in Operator : x9[k].pc = "idle" /\ Observed(k)
  BY <1>1, <1>2 DEF Observed, BeforeIssue
<1>4. OneTurn BY <1>3 DEF OneTurn
<1>5. Lead \in Operator /\ None \notin Operator /\ None \notin Doc BY UpkeepAssumption, OwnerAssumption DEF Doc
<1>6. Owner!NoKeys \in KeyRing /\ Owner!NoKeys.root = None BY DEF Owner!NoKeys, KeyRing
<1>7. CASE /\ x1 = [k \in Operator |-> Owner!NoKeys] /\ x2 = [k \in Operator |-> None]
           /\ x7 = [owner |-> None, generation |-> 0, directory |-> None, leaf |-> None]
           /\ x10 = 0 /\ x12 = {}
  <2>1. OwnerTyped
    <3>1. x1 \in [Operator -> KeyRing] BY <1>6, <1>7
    <3>2. x7 \in Hub BY <1>7 DEF Hub
    <3> QED BY <1>1, <1>3, <1>7, <3>1, <3>2 DEF OwnerTyped
  <2>2. x7.owner = None /\ x7.directory = None BY <1>7
  <2>3. OneLine BY <1>1, <1>3, <1>7, <2>2 DEF OneLine, OfTheLine
  <2>4. Established BY <1>1, <1>6, <1>7, <2>2 DEF Established
  <2>5. Owner!OneDocument /\ TakenBackKept /\ OnlyKeeper
    BY <1>7, <2>2 DEF Owner!OneDocument, TakenBackKept, OnlyKeeper
  <2> QED BY <1>3, <1>4, <2>1, <2>3, <2>4, <2>5 DEF OwnerInv
<1>8. ASSUME NEW g \in 1..MaxGeneration, NEW doc,
             doc = [generation |-> g, revision |-> 1, port |-> x4, era |-> 1, contract |-> 1, id |-> 1],
             x1 = [k \in Operator |-> IF k # Lead THEN Owner!NoKeys ELSE
               [root |-> Lead, signer |-> 1, certificate |-> 1, key |-> 1]],
             x2 = [k \in Operator |-> IF k = Lead THEN doc ELSE None],
             x7 = [owner |-> Lead, generation |-> g, directory |-> doc, leaf |-> 1],
             x10 = 1, x12 = {doc}
      PROVE  OwnerInv
  <2>1. g \in Nat BY OwnerAssumption, <1>8
  <2>2. doc \in Doc /\ doc.generation = g /\ doc.contract = 1 BY <1>1, <1>8, <2>1 DEF Doc
  <2>3. /\ x7 \in Hub /\ x7.owner = Lead /\ x7.directory = doc /\ x7.generation = g
        /\ Lead # None
    BY <1>5, <1>8, <2>1, <2>2 DEF Hub
  <2>4. x1 \in [Operator -> KeyRing]
    <3>1. [root |-> Lead, signer |-> 1, certificate |-> 1, key |-> 1] \in KeyRing
      BY <1>5 DEF KeyRing
    <3> QED BY <1>6, <1>8, <3>1
  <2>5. OwnerTyped BY <1>1, <1>3, <1>8, <2>2, <2>3, <2>4 DEF OwnerTyped
  <2>6. \A k \in Operator : Keeps(k) <=> k = Lead
    BY <1>5, <1>6, <1>8, <2>3 DEF Keeps
  <2>7. OneLine BY <1>1, <1>3, <1>8, <2>2, <2>3 DEF OneLine, OfTheLine, Gen
  <2>8. Established BY <1>1, <1>5, <1>8, <2>2, <2>3, <2>6 DEF Established
  <2>9. Owner!OneDocument BY <1>8 DEF Owner!OneDocument
  <2>10. TakenBackKept BY <1>8, <2>3 DEF TakenBackKept, Covers
  <2>11. OnlyKeeper BY <1>1, <1>5, <1>8, <2>2, <2>6 DEF OnlyKeeper, Tops, Covers
  <2> QED BY <1>3, <1>4, <2>5, <2>7, <2>8, <2>9, <2>10, <2>11 DEF OwnerInv
<1> QED BY <1>7, <1>8 DEF Owner!Init

\* While one runs a command, nobody else does.
LEMMA OthersRest ==
  ASSUME OwnerInv, NEW k \in Operator, x9[k].pc # "idle" \/ Owner!Alone
  PROVE  \A e \in Operator \ {k} : x9[e].pc = "idle" /\ ~x9[e].restores
BY DEF OwnerInv, OneTurn, Observed, Owner!Alone, Owner!At

\* A step of the one whose turn it is.
LEMMA OwnerSteps ==
  ASSUME NEW k \in Operator,
         \A e \in Operator \ {k} : x9[e].pc = "idle" /\ ~x9[e].restores /\ x9'[e] = x9[e],
         OwnerTyped', OneLine', Established', Owner!OneDocument', TakenBackKept',
         Lossless' => OnlyKeeper', Observed(k)'
  PROVE  OwnerInv'
<1>1. OneTurn' BY DEF OneTurn
<1>2. ASSUME NEW e \in Operator PROVE Observed(e)'
  <2>1. CASE e = k BY <2>1
  <2>2. CASE e # k
    <3>1. (x9[e].pc)' = "idle" /\ ~(x9[e].restores)' BY <2>2
    <3> QED BY <3>1 DEF Observed, BeforeIssue
  <2> QED BY <2>1, <2>2
<1> QED BY <1>1, <1>2 DEF OwnerInv

\* One that leaves the directories, the Host and the backup, and makes a root
\* only for a Host that has no Authority.
LEMMA OwnerWalks ==
  ASSUME OwnerInv, LossStays, NEW k \in Operator, x9[k].pc # "idle" \/ Owner!Alone,
         x9' \in [Operator -> OwnerCall], x1' \in [Operator -> KeyRing],
         \A e \in Operator \ {k} : x9'[e] = x9[e] /\ x1'[e] = x1[e],
         x1'[k].root = x1[k].root \/ (x7.owner = None /\ x1'[k].root \in {None, Half, k}),
         UNCHANGED <<x2, x4, x5, x6, x7, x8, x10, x12>>,
         x9'[k].pc \notin {"idle", "observe"} => x9'[k].generation = Gen,
         Observed(k)'
  PROVE  OwnerInv'
<1>1. \A e \in Operator \ {k} : x9[e].pc = "idle" /\ ~x9[e].restores BY OthersRest
<1>2. OwnerTyped' BY DEF OwnerInv, OwnerTyped
<1>3. Gen' = Gen BY DEF Gen
<1>4. OneLine' BY <1>1, <1>3 DEF OwnerInv, OneLine, OfTheLine
<1>5. \A e \in Operator : Keeps(e)' <=> Keeps(e) BY DEF Keeps
<1>6. Established' BY <1>5 DEF OwnerInv, Established
<1>7. Owner!OneDocument' BY DEF OwnerInv, Owner!OneDocument
<1>8. TakenBackKept' BY <1>5 DEF OwnerInv, TakenBackKept, Covers, Owner!Behind
<1>9. Lossless' => OnlyKeeper'
  BY <1>5 DEF OwnerInv, LossStays, OnlyKeeper, Tops, Covers
<1> QED BY <1>1, <1>2, <1>4, <1>6, <1>7, <1>8, <1>9, OwnerSteps

LEMMA CallGoes ==
  ASSUME OwnerTyped, NEW k \in Operator,
         NEW pc \in {"idle", "observe", "issue", "deliver", "gate"} \cup BeforeIssue, Owner!Goto(k, pc)
  PROVE  /\ x9' \in [Operator -> OwnerCall]
         /\ \A e \in Operator \ {k} : x9'[e] = x9[e]
         /\ x9'[k].pc = pc /\ x9'[k].restores = x9[k].restores
         /\ x9'[k].generation = x9[k].generation
         /\ x9'[k].served = x9[k].served /\ x9'[k].before = x9[k].before
BY DEF OwnerTyped, OwnerCall, Owner!Goto

LEMMA CallEnds ==
  ASSUME OwnerTyped, NEW k \in Operator, Owner!Fails(k)
  PROVE  /\ x9' \in [Operator -> OwnerCall]
         /\ \A e \in Operator \ {k} : x9'[e] = x9[e]
         /\ x9'[k].pc = "idle" /\ x9'[k].restores = FALSE
<1>1. Owner!Resting \in OwnerCall /\ Owner!Resting.pc = "idle" /\ Owner!Resting.restores = FALSE
  BY DEF Owner!Resting, OwnerCall
<1> QED BY <1>1 DEF OwnerTyped, Owner!Fails

LEMMA OwnerGivesUp ==
  ASSUME OwnerInv, LossStays, NEW k \in Operator, x9[k].pc # "idle", Owner!Fails(k),
         UNCHANGED <<x1, x2, x4, x5, x6, x7, x8, x10, x12>>
  PROVE  OwnerInv'
<1>1. /\ x9' \in [Operator -> OwnerCall] /\ \A e \in Operator \ {k} : x9'[e] = x9[e]
      /\ x9'[k].pc = "idle" /\ x9'[k].restores = FALSE
  BY CallEnds DEF OwnerInv
<1>2. Observed(k)' BY <1>1 DEF Observed, BeforeIssue
<1>3. x1' \in [Operator -> KeyRing] BY DEF OwnerInv, OwnerTyped
<1> QED BY <1>1, <1>2, <1>3, OwnerWalks

LEMMA OwnerBegins ==
  ASSUME OwnerInv, LossStays, OwnerGranted, NEW k \in Operator, Owner!Begin(k) \/ Owner!Observe(k)
  PROVE  OwnerInv'
<1>1. /\ UNCHANGED <<x1, x2, x4, x5, x6, x7, x8, x10, x12>> /\ OwnerTyped
      /\ x1' \in [Operator -> KeyRing]
  BY DEF Owner!Begin, Owner!Observe, Owner!outside, OwnerInv, OwnerTyped
<1>2. CASE Owner!Begin(k)
  <2>1. Owner!Alone /\ Owner!Goto(k, "observe") /\ x9[k].pc = "idle"
    BY <1>2 DEF Owner!Begin, Owner!At, OwnerGranted
  <2>2. /\ x9' \in [Operator -> OwnerCall] /\ \A e \in Operator \ {k} : x9'[e] = x9[e]
        /\ x9'[k].pc = "observe" /\ x9'[k].restores = x9[k].restores
    BY <1>1, <2>1, CallGoes
  <2>3. Observed(k)' BY <2>1, <2>2 DEF OwnerInv, Observed, BeforeIssue
  <2> QED BY <1>1, <2>1, <2>2, <2>3, OwnerWalks
<1>3. CASE Owner!Observe(k)
  <2>1. x9[k].pc = "observe" BY <1>3 DEF Owner!Observe, Owner!At
  <2>2. CASE Owner!Fails(k) BY <1>1, <2>1, <2>2, OwnerGivesUp
  <2>3. CASE /\ x7.owner \in {None, x1[k].root}
             /\ x9' = [x9 EXCEPT ![k].pc = "root", ![k].generation = Gen,
                                 ![k].served = x7.directory]
    <3>1. Gen \in Nat /\ x7.directory \in Doc \cup {None} BY <1>1 DEF Gen, OwnerTyped, Hub
    <3>2. /\ x9' \in [Operator -> OwnerCall] /\ \A e \in Operator \ {k} : x9'[e] = x9[e]
          /\ x9'[k].pc = "root" /\ x9'[k].restores = x9[k].restores
          /\ x9'[k].generation = Gen /\ x9'[k].served = x7.directory
      <4>1. "root" \in {"idle", "observe", "issue", "deliver", "gate"} \cup BeforeIssue
        BY DEF BeforeIssue
      <4>2. PICK g \in Nat, d \in Doc \cup {None} : g = Gen /\ d = x7.directory BY <3>1
      <4>3. x9' = [x9 EXCEPT ![k].pc = "root", ![k].generation = g, ![k].served = d]
        BY <2>3, <4>2
      <4>4. x9 \in [Operator -> OwnerCall] BY <1>1 DEF OwnerTyped
      <4>5. x9[k] \in OwnerCall BY <4>4
      <4> DEFINE c == [x9[k] EXCEPT !.pc = "root", !.generation = g, !.served = d]
      <4>6. c \in OwnerCall /\ c.pc = "root" /\ c.restores = x9[k].restores
            /\ c.generation = g /\ c.served = d
        BY <4>1, <4>5 DEF OwnerCall
      <4>7. x9' = [x9 EXCEPT ![k] = c] BY <4>3, <4>4
      <4> HIDE DEF c
      <4> QED BY <4>2, <4>4, <4>6, <4>7
    <3>3. x7.owner = None \/ Keeps(k) BY <2>3 DEF Keeps
    <3>4. ~x9[k].restores BY <2>1 DEF OwnerInv, Observed
    <3>5. Observed(k)' BY <1>1, <3>2, <3>3, <3>4 DEF Observed, BeforeIssue, Keeps
    <3> QED BY <1>1, <2>1, <3>2, <3>5, OwnerWalks
  <2>4. x7.owner = None => x7.directory = None BY DEF OwnerInv, Established
  <2> QED BY <1>3, <2>2, <2>3, <2>4 DEF Owner!Observe, Gen
<1> QED BY <1>2, <1>3

\* From one of the steps before the directory to another.
LEMMA OwnerPrepares ==
  ASSUME OwnerInv, LossStays, NEW k \in Operator, x9[k].pc \in BeforeIssue, NEW pc \in BeforeIssue, Owner!Goto(k, pc),
         UNCHANGED <<x2, x4, x5, x6, x7, x8, x10, x12>>,
         x1' \in [Operator -> KeyRing], \A e \in Operator \ {k} : x1'[e] = x1[e],
         x1'[k].root = x1[k].root \/ (x7.owner = None /\ x1'[k].root \in {None, Half, k}),
         pc = "root certificate" => x7.owner = None,
         pc \notin {"root", "root certificate"} => x1'[k].root \in Operator
  PROVE  OwnerInv'
<1>1. /\ x9' \in [Operator -> OwnerCall] /\ \A e \in Operator \ {k} : x9'[e] = x9[e]
      /\ x9'[k].pc = pc /\ x9'[k].restores = x9[k].restores
      /\ x9'[k].generation = x9[k].generation /\ x9'[k].served = x9[k].served
  BY CallGoes DEF OwnerInv
<1>2. pc \notin {"idle", "observe", "issue", "deliver", "gate"} /\ x9[k].pc \notin {"idle", "observe"}
  BY DEF BeforeIssue
<1>3. x9[k].generation = Gen BY <1>2 DEF OwnerInv, OneLine
<1>4. Keeps(k) => Keeps(k)' BY DEF Keeps
<1>5. CoversShown(x2[k])' = CoversShown(x2[k]) BY DEF CoversShown, Covers
<1>6. Observed(k) BY DEF OwnerInv
<1>7. Observed(k)' BY <1>1, <1>2, <1>4, <1>5, <1>6 DEF Observed
<1> QED BY <1>1, <1>2, <1>3, <1>7, OwnerWalks

LEMMA RootWritten ==
  ASSUME x1 \in [Operator -> KeyRing], NEW k \in Operator, x1' = [x1 EXCEPT ![k].root = Half]
  PROVE  /\ x1' \in [Operator -> KeyRing] /\ \A e \in Operator \ {k} : x1'[e] = x1[e]
         /\ x1'[k].root = Half
BY DEF KeyRing

LEMMA KeyWritten ==
  ASSUME x1 \in [Operator -> KeyRing], NEW k \in Operator, NEW v,
         \/ v \in {Half, 1} /\ x1' = [x1 EXCEPT ![k].signer = v]
         \/ v \in Nat /\ x1' = [x1 EXCEPT ![k].certificate = v]
         \/ v \in Nat /\ x1' = [x1 EXCEPT ![k].key = v]
  PROVE  /\ x1' \in [Operator -> KeyRing] /\ \A e \in Operator \ {k} : x1'[e] = x1[e]
         /\ x1'[k].root = x1[k].root
<1>1. CASE v \in {Half, 1} /\ x1' = [x1 EXCEPT ![k].signer = v] BY <1>1 DEF KeyRing
<1>2. CASE v \in Nat /\ x1' = [x1 EXCEPT ![k].certificate = v] BY <1>2 DEF KeyRing
<1>3. CASE v \in Nat /\ x1' = [x1 EXCEPT ![k].key = v] BY <1>3 DEF KeyRing
<1> QED BY <1>1, <1>2, <1>3

LEMMA OwnerMakesKeys ==
  ASSUME OwnerInv, LossStays, OwnerAssumption, UpkeepAssumption, NEW k \in Operator,
         \/ Owner!MakeRoot(k) \/ Owner!CertifyRoot(k) \/ Owner!MakeSigner(k)
         \/ Owner!CertifySigner(k) \/ Owner!MakeLeaf(k) \/ Owner!WriteLeafKey(k)
  PROVE  OwnerInv'
<1> USE DEF Owner!At
<1>1. UNCHANGED <<x2, x4, x5, x6, x7, x8, x10, x12>> /\ x1 \in [Operator -> KeyRing] /\ x5 \in Nat
  BY DEF Owner!MakeRoot, Owner!CertifyRoot, Owner!MakeSigner, Owner!CertifySigner,
    Owner!MakeLeaf, Owner!WriteLeafKey, Owner!outside, OwnerInv, OwnerTyped
<1>2. x9[k].pc \in BeforeIssue \ {"adopt"} /\ x9[k].pc # "idle"
  BY DEF Owner!MakeRoot, Owner!CertifyRoot, Owner!MakeSigner, Owner!CertifySigner,
    Owner!MakeLeaf, Owner!WriteLeafKey, BeforeIssue
<1>3. CASE Owner!Fails(k) /\ UNCHANGED x1 BY <1>1, <1>2, <1>3, OwnerGivesUp
<1>4. x7.owner = None \/ (x7.owner = x1[k].root /\ x7.owner \in Operator)
  BY <1>2 DEF OwnerInv, OwnerTyped, Hub, Observed, Keeps
<1>5. ASSUME Owner!MakeRoot(k), ~Owner!Fails(k) PROVE OwnerInv'
  <2>1. \/ /\ x1[k].root = None /\ x1' = [x1 EXCEPT ![k].root = Half]
           /\ Owner!Goto(k, "root certificate")
        \/ x1[k].root \notin {None, Half} /\ Owner!Goto(k, "signer") /\ UNCHANGED x1
    BY <1>5 DEF Owner!MakeRoot, Owner!Unsafe
  <2>2. {"root certificate", "signer"} \subseteq BeforeIssue BY DEF BeforeIssue
  <2>3. CASE /\ x1[k].root = None /\ x1' = [x1 EXCEPT ![k].root = Half]
             /\ Owner!Goto(k, "root certificate")
    <3>1. /\ x1' \in [Operator -> KeyRing] /\ \A e \in Operator \ {k} : x1'[e] = x1[e]
          /\ x1'[k].root = Half
      BY <1>1, <2>3, RootWritten
    <3>2. x7.owner = None BY <1>4, <2>3, UpkeepAssumption
    <3> QED BY <1>1, <1>2, <2>2, <2>3, <3>1, <3>2, OwnerPrepares
  <2>4. CASE x1[k].root \notin {None, Half} /\ Owner!Goto(k, "signer") /\ UNCHANGED x1
    <3>1. x1[k].root \in Operator BY <1>1, <2>4 DEF KeyRing
    <3> QED BY <1>1, <1>2, <2>2, <2>4, <3>1, OwnerPrepares
  <2> QED BY <2>1, <2>3, <2>4
<1>6. CASE Owner!CertifyRoot(k)
  <2>1. /\ x1' = [x1 EXCEPT ![k].root = k] /\ Owner!Goto(k, "signer")
        /\ x9[k].pc = "root certificate" /\ "signer" \in BeforeIssue
    BY <1>6 DEF Owner!CertifyRoot, BeforeIssue
  <2>2. x7.owner = None BY <2>1 DEF OwnerInv, Observed
  <2>3. /\ x1' \in [Operator -> KeyRing] /\ \A e \in Operator \ {k} : x1'[e] = x1[e]
        /\ x1'[k].root = k
    BY <1>1, <2>1 DEF KeyRing
  <2> QED BY <1>1, <1>2, <2>1, <2>2, <2>3, OwnerPrepares
<1>7. ASSUME \/ Owner!MakeSigner(k) \/ Owner!CertifySigner(k)
             \/ Owner!MakeLeaf(k) \/ Owner!WriteLeafKey(k),
             ~Owner!Fails(k)
      PROVE  OwnerInv'
  <2>1. x9[k].pc \notin {"idle", "observe", "root", "root certificate"}
    BY <1>7 DEF Owner!MakeSigner, Owner!CertifySigner, Owner!MakeLeaf, Owner!WriteLeafKey
  <2>2. x1[k].root \in Operator BY <2>1 DEF OwnerInv, Observed
  <2>3. PICK pc \in {"signer certificate", "leaf", "leaf key", "adopt"} :
          /\ Owner!Goto(k, pc)
          /\ \/ UNCHANGED x1
             \/ x1' = [x1 EXCEPT ![k].signer = Half] \/ x1' = [x1 EXCEPT ![k].signer = 1]
             \/ x1' = [x1 EXCEPT ![k].certificate = x5] \/ x1' = [x1 EXCEPT ![k].key = x5]
    BY <1>7 DEF Owner!MakeSigner, Owner!CertifySigner, Owner!MakeLeaf, Owner!WriteLeafKey
  <2>4. /\ x1' \in [Operator -> KeyRing] /\ \A e \in Operator \ {k} : x1'[e] = x1[e]
        /\ x1'[k].root = x1[k].root
    <3>1. CASE UNCHANGED x1 BY <1>1, <3>1
    <3>2. CASE x1' = [x1 EXCEPT ![k].signer = Half] BY <1>1, <3>2, KeyWritten
    <3>3. CASE x1' = [x1 EXCEPT ![k].signer = 1] BY <1>1, <3>3, KeyWritten
    <3>4. CASE x1' = [x1 EXCEPT ![k].certificate = x5] BY <1>1, <3>4, KeyWritten
    <3>5. CASE x1' = [x1 EXCEPT ![k].key = x5] BY <1>1, <3>5, KeyWritten
    <3> QED BY <2>3, <3>1, <3>2, <3>3, <3>4, <3>5
  <2>5. pc \in BeforeIssue /\ pc \notin {"root", "root certificate"} BY DEF BeforeIssue
  <2> QED BY <1>1, <1>2, <2>2, <2>3, <2>4, <2>5, OwnerPrepares
<1>8. CASE Owner!Fails(k)
  <2>1. ~\E pc \in BeforeIssue : Owner!Goto(k, pc)
    <3>1. x9'[k].pc = "idle" BY <1>8, CallEnds DEF OwnerInv
    <3>2. "idle" \notin BeforeIssue BY DEF BeforeIssue
    <3>3. ASSUME NEW pc \in BeforeIssue, Owner!Goto(k, pc) PROVE FALSE
      <4>1. x9'[k].pc = pc BY <3>3, CallGoes DEF OwnerInv
      <4> QED BY <3>1, <3>2, <4>1
    <3> QED BY <3>3
  <2>2. {"root certificate", "signer", "signer certificate", "leaf", "leaf key", "adopt"} \subseteq BeforeIssue
    BY DEF BeforeIssue
  <2>3. UNCHANGED x1
    BY <2>1, <2>2 DEF Owner!MakeRoot, Owner!CertifyRoot, Owner!MakeSigner, Owner!CertifySigner,
      Owner!MakeLeaf, Owner!WriteLeafKey
  <2> QED BY <1>3, <1>8, <2>3
<1> QED BY <1>5, <1>6, <1>7, <1>8

\* A directory a keeper takes for its own: it covers what its last one had to.
LEMMA OwnerTakes ==
  ASSUME OwnerInv, LossStays, OwnerAssumption, NEW k \in Operator, x9[k].pc # "idle", NEW d \in Doc,
         NEW pc \in {"issue", "deliver"}, Owner!Goto(k, pc),
         x2' = [x2 EXCEPT ![k] = d], x10' \in Nat, UNCHANGED <<x1, x4, x5, x6, x7, x8, x12>>,
         x9[k].generation = Gen, x1[k].root \in Operator,
         x7.owner = None \/ Keeps(k), x9[k].restores => x7.owner # None /\ x9[k].served = None,
         OfTheLine(d), x7.owner # None => \A s \in x12 : Covers(d, s),
         d.contract = x6,
         OnlyKeeper => (x7.owner # None /\ (\A e \in Operator : Keeps(e) => e = k) =>
                          /\ \A s \in x12 : Covers(d, s)
                          /\ x8 # None => Covers(d, x8.directory))
  PROVE  OwnerInv'
<1>1. /\ x9' \in [Operator -> OwnerCall] /\ \A e \in Operator \ {k} : x9'[e] = x9[e]
      /\ x9'[k].pc = pc /\ x9'[k].restores = x9[k].restores
      /\ x9'[k].generation = x9[k].generation /\ x9'[k].served = x9[k].served
  BY CallGoes DEF OwnerInv
<1>2. /\ x2' \in [Operator -> Doc \cup {None}] /\ x2'[k] = d
      /\ \A e \in Operator \ {k} : x2'[e] = x2[e]
  BY DEF OwnerInv, OwnerTyped
<1>3. OwnerTyped' BY <1>1, <1>2 DEF OwnerInv, OwnerTyped
<1>4. \A e \in Operator \ {k} : x9[e].pc = "idle" /\ ~x9[e].restores BY OthersRest
<1>5. Gen' = Gen BY DEF Gen
<1>6. OneLine'
  <2>1. \A e \in Operator : OfTheLine(x2'[e]) BY <1>2 DEF OwnerInv, OneLine
  <2> QED BY <1>1, <1>4, <1>5, <2>1 DEF OwnerInv, OneLine, OfTheLine
<1>7. \A e \in Operator : Keeps(e)' <=> Keeps(e) BY DEF Keeps
<1>8. d # None BY OwnerAssumption DEF Doc
<1>9. Established' BY <1>2, <1>7, <1>8 DEF OwnerInv, Established
<1>10. Owner!OneDocument' BY DEF OwnerInv, Owner!OneDocument
<1>11. \A s \in x12 : s.contract <= x6 /\ s # None
  BY OwnerAssumption DEF OwnerInv, OwnerTyped, OneLine, OfTheLine, Doc
<1>12. x7.owner # None => x7.directory \in x12 BY DEF OwnerInv, Established
<1>13. x7.owner = None => x12 = {} BY DEF OwnerInv, Established
<1>14. x6 \in Nat BY DEF OwnerInv, OwnerTyped
<1>15. TakenBackKept'
  <2> SUFFICES ASSUME NEW s \in x12, ~Covers(x7.directory, s)
               PROVE  /\ \A e \in Operator : Keeps(e) =>
                           Covers(x2'[e], s) /\ x2'[e].contract >= x7.directory.contract
                      /\ x8 # None => \/ Owner!Behind(x8.directory)
                                      \/ x8.directory.contract >= x7.directory.contract
    BY <1>7 DEF TakenBackKept, Covers, Owner!Behind
  <2>1. x7.directory.contract <= x6 BY <1>11, <1>12, <1>13
  <2>2. x7.directory \in Doc BY <1>12, <1>13 DEF OwnerInv, OwnerTyped
  <2>3. x7.directory.contract \in Nat /\ d.contract \in Nat BY <2>2 DEF Doc
  <2>4. Covers(x2'[k], s) /\ x2'[k].contract >= x7.directory.contract
    BY <1>2, <1>13, <1>14, <2>1, <2>3
  <2> QED BY <1>2, <2>4 DEF OwnerInv, TakenBackKept
<1>16. ASSUME Lossless' PROVE OnlyKeeper'
  <2> SUFFICES ASSUME x7.owner # None
               PROVE  /\ \E e \in Operator : Keeps(e)
                      /\ \A e \in Operator : Keeps(e) /\ (\A f \in Operator : Keeps(f) => f = e) =>
                           /\ \A s \in x12 : Tops(e, s)'
                           /\ x8 # None => Tops(e, x8.directory)'
    BY <1>7 DEF OnlyKeeper, Tops, Covers
  <2>1. OnlyKeeper BY <1>16 DEF OwnerInv, LossStays
  <2>2. \E e \in Operator : Keeps(e) BY <2>1 DEF OnlyKeeper
  <2>3. ASSUME NEW e \in Operator, Keeps(e), \A f \in Operator : Keeps(f) => f = e
        PROVE  /\ \A s \in x12 : Tops(e, s)'
               /\ x8 # None => Tops(e, x8.directory)'
    <3>1. e = k BY <2>3
    <3>2. x8 # None => x8.directory # None /\ x8.directory.contract <= x6
      BY DEF OwnerInv, Established, OneLine, OfTheLine
    <3>3. x8 # None => x8.directory \in Doc BY <3>2 DEF OwnerInv, OwnerTyped
    <3>4. \A s \in Doc : s.contract \in Nat BY DEF Doc
    <3>5. x12 \subseteq Doc BY DEF OwnerInv, OwnerTyped
    <3>6. x8 # None => x8.directory.contract <= d.contract BY <3>2
    <3>7. \A s \in x12 : s.contract <= d.contract BY <1>11
    <3>8. \A s \in x12 : d.contract >= s.contract BY <3>4, <3>5, <3>7
    <3>9. x8 # None => d.contract >= x8.directory.contract BY <3>3, <3>4, <3>6
    <3> QED BY <1>2, <2>1, <2>3, <3>1, <3>8, <3>9 DEF Tops, Covers
  <2> QED BY <2>2, <2>3
<1>17. Observed(k)'
  <2>1. x7.owner = None \/ (CoversShown(x2[k]))' BY <1>2, <1>8 DEF CoversShown, Covers
  <2> QED BY <1>1, <1>2, <1>7, <1>8, <2>1 DEF Observed, BeforeIssue
<1> QED BY <1>1, <1>3, <1>4, <1>6, <1>9, <1>10, <1>15, <1>16, <1>17, OwnerSteps

LEMMA CoversBoth ==
  ASSUME NEW a \in Doc, NEW b \in Doc, NEW c \in Doc, Covers(a, b), Covers(b, c)
  PROVE  Covers(a, c)
BY DEF Covers, Doc

LEMMA OwnerAdopts ==
  ASSUME OwnerInv, LossStays, OwnerAssumption, NEW k \in Operator, Owner!Adopt(k)
  PROVE  OwnerInv'
<1>1. UNCHANGED <<x1, x4, x5, x6, x7, x8, x10, x12>> /\ x9[k].pc = "adopt"
  BY DEF Owner!Adopt, Owner!outside, Owner!At
<1>2. x9[k].pc \in BeforeIssue /\ x9[k].pc \notin {"idle", "observe", "root", "root certificate"}
  BY <1>1 DEF BeforeIssue
<1>3. /\ x7.owner = None \/ Keeps(k)
      /\ x9[k].restores => x7.owner # None /\ x9[k].served = None
      /\ ~x9[k].restores => x9[k].served = x7.directory
      /\ x9[k].restores => CoversShown(x2[k])
      /\ x1[k].root \in Operator /\ x9[k].generation = Gen
  BY <1>2 DEF OwnerInv, Observed, OneLine
<1>4. x1' \in [Operator -> KeyRing] BY <1>1 DEF OwnerInv, OwnerTyped
<1>5. /\ x7.owner = None => x12 = {} /\ x7.directory = None
      /\ x7.owner # None => x7.directory \in x12
      /\ x12 \subseteq Doc /\ None \notin Doc
  BY OwnerAssumption DEF OwnerInv, Established, OwnerTyped, Doc
<1>6. ASSUME Owner!Goto(k, "issue"), UNCHANGED x2, x7.owner = None \/ CoversShown(x2[k])
      PROVE  OwnerInv'
  <2>1. /\ x9' \in [Operator -> OwnerCall] /\ \A e \in Operator \ {k} : x9'[e] = x9[e]
        /\ x9'[k].pc = "issue" /\ x9'[k].restores = x9[k].restores
        /\ x9'[k].generation = x9[k].generation /\ x9'[k].served = x9[k].served
    BY <1>6, CallGoes DEF OwnerInv
  <2>2. Keeps(k)' <=> Keeps(k) BY <1>1 DEF Keeps
  <2>3. CoversShown(x2[k])' <=> CoversShown(x2[k]) BY <1>1, <1>6 DEF CoversShown, Covers
  <2>4. Observed(k)' BY <1>1, <1>3, <1>6, <2>1, <2>2, <2>3 DEF Observed, BeforeIssue
  <2> QED BY <1>1, <1>2, <1>3, <1>4, <1>6, <2>1, <2>4, OwnerWalks
<1>7. CASE x9[k].served = None /\ Owner!Goto(k, "issue") /\ UNCHANGED x2
  <2>1. x7.owner = None \/ CoversShown(x2[k]) BY <1>3, <1>5, <1>7
  <2> QED BY <1>6, <1>7, <2>1
<1>8. CASE Owner!Fails(k) /\ UNCHANGED x2 BY <1>1, <1>2, <1>8, OwnerGivesUp
<1>9. ASSUME Owner!Readable(x9[k].served), Owner!Goto(k, "issue"),
             x2' = [x2 EXCEPT ![k] = IF Owner!Newer(k) THEN @ ELSE x9[k].served]
      PROVE  OwnerInv'
  <2>1. /\ x9[k].served = x7.directory /\ x7.owner # None /\ Keeps(k)
        /\ x7.directory \in x12 /\ x7.directory.contract = x6
    BY <1>3, <1>5, <1>9 DEF Owner!Readable
  <2>2. /\ x2[k] \in Doc /\ x2[k].generation = Gen /\ x2[k].contract <= x6
        /\ x2 \in [Operator -> Doc \cup {None}]
    BY <2>1 DEF OwnerInv, Established, OwnerTyped, OneLine, OfTheLine
  <2>3. ASSUME NEW s \in x12, ~Covers(x7.directory, s)
        PROVE  Covers(x2[k], s) /\ x2[k].contract = x6
    <3>1. Covers(x2[k], s) /\ x2[k].contract >= x6
      BY <2>1, <2>3 DEF OwnerInv, TakenBackKept
    <3>2. x2[k].contract \in Nat /\ x6 \in Nat BY <2>2 DEF Doc, OwnerInv, OwnerTyped
    <3> QED BY <2>2, <3>1, <3>2
  <2>4. x7.directory \in Doc BY <1>5, <2>1
  <2>5. CASE Owner!Newer(k)
    <3>1. UNCHANGED x2 BY <1>9, <2>2, <2>5
    <3>2. x2[k].revision > x7.directory.revision BY <2>1, <2>5 DEF Owner!Newer
    <3>3. Covers(x2[k], x7.directory) BY <2>2, <2>4, <3>2 DEF Covers, Doc
    <3>4. \A s \in x12 : Covers(x2[k], s) BY <1>5, <2>2, <2>3, <2>4, <3>3, CoversBoth
    <3>5. CoversShown(x2[k]) BY <1>5, <2>2, <3>4 DEF CoversShown
    <3> QED BY <1>6, <1>9, <3>1, <3>5
  <2>6. CASE ~Owner!Newer(k)
    <3>1. x2' = [x2 EXCEPT ![k] = x7.directory] BY <1>9, <2>1, <2>6
    <3>2. x2[k].contract = x6 => x2[k].revision <= x7.directory.revision
      <4>1. x2[k].contract = x6 => ~(x2[k].revision > x7.directory.revision)
        BY <1>3, <1>5, <2>1, <2>2, <2>6 DEF Owner!Newer, Owner!Readable
      <4> QED BY <2>2, <2>4, <4>1 DEF Doc
    <3>3. \A s \in x12 : Covers(x7.directory, s)
      <4> SUFFICES ASSUME NEW s \in x12, ~Covers(x7.directory, s) PROVE FALSE OBVIOUS
      <4>1. s \in Doc /\ (s.revision = x7.directory.revision => s = x7.directory)
        BY <1>5, <2>1 DEF OwnerInv, OneLine, OfTheLine, Owner!OneDocument
      <4>2. Covers(x2[k], s) /\ x2[k].revision <= x7.directory.revision
        BY <2>3, <3>2
      <4> QED BY <2>2, <2>4, <4>1, <4>2 DEF Covers, Doc
    <3>4. ASSUME OnlyKeeper, x7.owner # None, \A e \in Operator : Keeps(e) => e = k, x8 # None
          PROVE  Covers(x7.directory, x8.directory)
      <4>1. Tops(k, x7.directory) /\ Tops(k, x8.directory) BY <2>1, <3>4 DEF OnlyKeeper
      <4>2. x2[k].contract \in Nat /\ x6 \in Nat BY <2>2 DEF Doc, OwnerInv, OwnerTyped
      <4>3. x2[k].contract = x6 BY <2>1, <2>2, <4>1, <4>2 DEF Tops
      <4>4. x2[k] = x7.directory BY <2>2, <2>4, <3>2, <4>1, <4>3 DEF Tops, Covers, Doc
      <4> QED BY <4>1, <4>4 DEF Tops
    <3>5. OfTheLine(x7.directory) BY DEF OwnerInv, OneLine
    <3>6. x10' \in Nat BY <1>1 DEF OwnerInv, OwnerTyped
    <3> QED
      BY <1>1, <1>2, <1>3, <1>9, <2>1, <2>4, <3>1, <3>3, <3>4, <3>5, <3>6, OwnerTakes
  <2> QED BY <2>5, <2>6
<1> QED BY <1>7, <1>8, <1>9 DEF Owner!Adopt

LEMMA OwnerIssues ==
  ASSUME OwnerInv, LossStays, OwnerAssumption, NEW k \in Operator, Owner!Issue(k)
  PROVE  OwnerInv'
<1>1. UNCHANGED <<x1, x4, x5, x6, x7, x8, x12>> /\ x9[k].pc = "issue" /\ Owner!Goto(k, "deliver")
  BY DEF Owner!Issue, Owner!outside, Owner!At
<1>2. /\ x7.owner = None \/ Keeps(k)
      /\ x9[k].restores => x7.owner # None /\ x9[k].served = None
      /\ x7.owner = None \/ CoversShown(x2[k])
      /\ x1[k].root \in Operator /\ x9[k].generation = Gen
  BY <1>1 DEF OwnerInv, Observed, OneLine
<1>3. /\ x7.owner = None => x12 = {}
      /\ x12 \subseteq Doc /\ None \notin Doc
      /\ x2[k] \in Doc \cup {None} /\ OfTheLine(x2[k]) /\ Gen \in Nat
      /\ x4 \in Port /\ x5 \in Nat /\ x6 \in Nat \ {0} /\ x10 \in Nat
      /\ x1' \in [Operator -> KeyRing]
  BY <1>1, OwnerAssumption DEF OwnerInv, Established, OwnerTyped, OneLine, Doc, Gen, Hub
<1>4. CASE Owner!Current(x2[k], x9[k].generation) /\ UNCHANGED <<x2, x10>>
  <2>1. /\ x9' \in [Operator -> OwnerCall] /\ \A e \in Operator \ {k} : x9'[e] = x9[e]
        /\ x9'[k].pc = "deliver" /\ x9'[k].restores = x9[k].restores
        /\ x9'[k].generation = x9[k].generation /\ x9'[k].served = x9[k].served
    BY <1>1, CallGoes DEF OwnerInv
  <2>2. Keeps(k)' <=> Keeps(k) BY <1>1 DEF Keeps
  <2>3. CoversShown(x2[k])' <=> CoversShown(x2[k]) BY <1>1, <1>4 DEF CoversShown, Covers
  <2>4. x2[k] # None /\ x2[k].contract = x6 BY <1>4 DEF Owner!Current, Owner!Readable
  <2>5. Observed(k)' BY <1>1, <1>2, <1>4, <2>1, <2>2, <2>3, <2>4 DEF Observed, BeforeIssue
  <2> QED BY <1>1, <1>2, <1>3, <1>4, <2>1, <2>5, OwnerWalks
<1>5. CASE /\ x10' = x10 + 1
           /\ x2' = [x2 EXCEPT ![k] =
                [generation |-> x9[k].generation, revision |-> Owner!Revision(k), port |-> x4,
                 era |-> x5, contract |-> x6, id |-> x10 + 1]]
  <2>1. PICK r : r = Owner!Revision(k) OBVIOUS
  <2>2. /\ r \in Nat
        /\ x2[k] # None => r = x2[k].revision + 1
    BY <1>2, <1>3, <2>1 DEF Owner!Revision, OfTheLine, Doc
  <2>3. PICK d : d = [generation |-> x9[k].generation, revision |-> r, port |-> x4,
                      era |-> x5, contract |-> x6, id |-> x10 + 1]
    OBVIOUS
  <2>4. d \in Doc /\ d.revision = r /\ d.contract = x6 /\ d.generation = Gen
    BY <1>2, <1>3, <2>2, <2>3 DEF Doc
  <2>5. x2' = [x2 EXCEPT ![k] = d] BY <1>5, <2>1, <2>3
  <2>6. OfTheLine(d) BY <1>3, <2>4 DEF OfTheLine
  <2>7. x2[k] # None => Covers(d, x2[k]) BY <1>3, <2>2, <2>4 DEF Covers, Doc
  <2>8. x7.owner # None => x2[k] # None /\ \A s \in x12 : Covers(d, s)
    <3> SUFFICES ASSUME x7.owner # None
                 PROVE  x2[k] # None /\ \A s \in x12 : Covers(d, s)
      OBVIOUS
    <3>1. x2[k] # None /\ x2[k] \in Doc /\ \A s \in x12 : Covers(x2[k], s)
      BY <1>2, <1>3 DEF CoversShown
    <3>2. Covers(d, x2[k]) BY <2>7, <3>1
    <3>3. ASSUME NEW s \in x12 PROVE Covers(d, s)
      <4>1. s \in Doc /\ Covers(x2[k], s) BY <1>3, <3>1
      <4> QED BY <2>4, <3>1, <3>2, <4>1, CoversBoth
    <3> QED BY <3>1, <3>3
  <2>9. ASSUME OnlyKeeper, x7.owner # None, \A e \in Operator : Keeps(e) => e = k, x8 # None
        PROVE  Covers(d, x8.directory)
    <3>1. Covers(x2[k], x8.directory) BY <1>2, <2>9 DEF OnlyKeeper, Tops
    <3>2. x8.directory \in Doc BY <2>9 DEF OwnerInv, OwnerTyped, Established
    <3> QED BY <1>3, <2>4, <2>7, <2>8, <2>9, <3>1, <3>2, CoversBoth
  <2>10. x10' \in Nat BY <1>3, <1>5
  <2> QED BY <1>1, <1>2, <2>4, <2>5, <2>6, <2>8, <2>9, <2>10, OwnerTakes
<1> QED BY <1>4, <1>5 DEF Owner!Issue

LEMMA OwnerDelivers ==
  ASSUME OwnerInv, LossStays, OwnerAssumption, UpkeepAssumption, NEW k \in Operator, Owner!Deliver(k)
  PROVE  OwnerInv' /\ Owner!OnlyUndone
<1> DEFINE first == x7.owner = None
<1>1. /\ UNCHANGED <<x1, x2, x4, x5, x6, x8, x10>> /\ x9[k].pc = "deliver"
      /\ x7' = [owner |-> IF first THEN x1[k].root ELSE x7.owner,
                generation |-> IF first THEN x9[k].generation ELSE x7.generation,
                directory |-> x2[k], leaf |-> x1[k].key]
      /\ x12' = x12 \cup {x2[k]}
      /\ x9' = [x9 EXCEPT ![k].pc = "gate", ![k].before = x7]
  BY DEF Owner!Deliver, Owner!outside, Owner!At
<1>2. /\ first \/ Keeps(k)
      /\ x9[k].restores => ~first /\ x9[k].served = None
      /\ first \/ CoversShown(x2[k])
      /\ x2[k] # None /\ x2[k].contract = x6
      /\ x1[k].root \in Operator /\ x9[k].generation = Gen
  BY <1>1 DEF OwnerInv, Observed, OneLine
<1>3. /\ first => x12 = {} /\ x7.directory = None /\ x8 = None
      /\ ~first => x7.directory \in x12
      /\ x12 \subseteq Doc /\ None \notin Doc /\ None \notin Operator
      /\ x2[k] \in Doc /\ OfTheLine(x2[k]) /\ Gen \in Nat /\ x7 \in Hub
      /\ x1 \in [Operator -> KeyRing] /\ x9 \in [Operator -> OwnerCall] /\ x6 \in Nat
  BY <1>2, OwnerAssumption, UpkeepAssumption
  DEF OwnerInv, Established, OwnerTyped, OneLine, Doc, Gen, Hub
<1>4. /\ x9' \in [Operator -> OwnerCall] /\ \A e \in Operator \ {k} : x9'[e] = x9[e]
      /\ x9'[k].pc = "gate" /\ x9'[k].restores = x9[k].restores
      /\ x9'[k].generation = x9[k].generation /\ x9'[k].served = x9[k].served
      /\ x9'[k].before = x7
  BY <1>1, <1>3 DEF OwnerCall
<1>5. x1[k].key \in Nat \cup {None} BY <1>3 DEF KeyRing
<1>6. /\ x7' \in Hub /\ x7'.directory = x2[k] /\ x7'.owner = x1[k].root
      /\ x7'.owner # None /\ Gen' = Gen
      /\ ~first => x7'.owner = x7.owner
  <2>1. x7.generation \in Nat BY <1>3 DEF Hub
  <2>2. ~first => x7.owner = x1[k].root BY <1>2 DEF Keeps
  <2>3. CASE first
    <3>1. x7' = [owner |-> x1[k].root, generation |-> x9[k].generation,
                 directory |-> x2[k], leaf |-> x1[k].key]
      BY <1>1, <2>3
    <3> QED BY <1>2, <1>3, <1>5, <2>3, <3>1 DEF Hub, Gen
  <2>4. CASE ~first
    <3>1. x7' = [owner |-> x7.owner, generation |-> x7.generation,
                 directory |-> x2[k], leaf |-> x1[k].key]
      BY <1>1, <2>4
    <3> QED BY <1>2, <1>3, <1>5, <2>1, <2>2, <2>4, <3>1 DEF Hub, Gen
  <2> QED BY <2>3, <2>4
<1> HIDE DEF first
<1>7. \A e \in Operator \ {k} : x9[e].pc = "idle" /\ ~x9[e].restores BY <1>1, OthersRest
<1>8. OwnerTyped' BY <1>1, <1>3, <1>4, <1>6 DEF OwnerInv, OwnerTyped
<1>9. OneLine' BY <1>1, <1>3, <1>4, <1>6, <1>7 DEF OwnerInv, OneLine, OfTheLine
<1>10. \A s \in x12 : Covers(x2[k], s) BY <1>2, <1>3 DEF CoversShown
<1>11. \A s \in x12' : Covers(x2[k], s) BY <1>1, <1>10 DEF Covers
<1>12. ~first => \A e \in Operator : Keeps(e)' <=> Keeps(e) BY <1>1, <1>6 DEF Keeps, first
<1>13. first => \A e \in Operator : Keeps(e)' <=> e = k
  <2>1. first => \A e \in Operator : x1[e].root \in {None, Half, e}
    BY DEF OwnerInv, Established, first
  <2> QED BY <1>1, <1>2, <1>3, <1>6, <2>1, OwnerAssumption DEF Keeps
<1>14. Established'
  <2>1. \A e \in Operator : Keeps(e)' => x2[e] # None
    BY <1>2, <1>12, <1>13 DEF OwnerInv, Established, first
  <2>2. x8 # None => x8.directory # None /\ x8.keys.root = x7'.owner
    BY <1>3, <1>6 DEF OwnerInv, Established, first
  <2> QED BY <1>1, <1>6, <2>1, <2>2 DEF Established
<1>15. Owner!OneDocument'
  <2>1. \A s \in x12 : s.revision = x2[k].revision => s = x2[k]
    BY <1>3, <1>10 DEF Covers, Doc
  <2> QED BY <1>1, <2>1 DEF OwnerInv, Owner!OneDocument
<1>16. TakenBackKept'
  <2>1. \A s \in x12' : Covers(x7'.directory, s) BY <1>6, <1>11
  <2> QED BY <2>1 DEF TakenBackKept, Covers
<1>17. ASSUME Lossless' PROVE OnlyKeeper'
  <2>1. OnlyKeeper BY <1>17 DEF OwnerInv, LossStays
  <2>2. \E e \in Operator : Keeps(e)'
    BY <1>12, <1>13, <2>1 DEF OnlyKeeper, first
  <2>3. ASSUME NEW e \in Operator, Keeps(e)', \A f \in Operator : Keeps(f)' => f = e
        PROVE  /\ \A s \in x12' : Tops(e, s)'
               /\ x8 # None => Tops(e, x8.directory)'
    <3>1. e = k BY <1>2, <1>12, <1>13, <2>3
    <3>2. \A s \in x12' : s.contract <= x6 /\ s.contract \in Nat
      BY <1>1, <1>3 DEF OwnerInv, OneLine, OfTheLine, Doc
    <3>3. \A s \in x12' : x2[k].contract >= s.contract BY <1>2, <1>3, <3>2
    <3>4. ASSUME x8 # None PROVE Tops(k, x8.directory)
      BY <1>2, <1>3, <1>12, <2>1, <2>3, <3>1, <3>4 DEF OnlyKeeper, first
    <3> QED BY <1>1, <1>11, <3>1, <3>3, <3>4 DEF Tops, Covers
  <2> QED BY <1>1, <2>2, <2>3 DEF OnlyKeeper, Tops, Covers
<1>18. Observed(k)'
  <2>1. (CoversShown(x2[k]))' BY <1>1, <1>2, <1>11 DEF CoversShown, Covers
  <2>2. Keeps(k)' BY <1>1, <1>6 DEF Keeps
  <2>3. x7.directory \in x12' \cup {None} BY <1>1, <1>3
  <2> QED BY <1>1, <1>2, <1>3, <1>4, <1>6, <2>1, <2>2, <2>3 DEF Observed, BeforeIssue
<1>19. Owner!OnlyUndone
  <2>1. ~first => Covers(x2[k], x7.directory) /\ x7.directory \in Doc BY <1>3, <1>10
  <2> QED BY <1>3, <1>6, <2>1 DEF Owner!OnlyUndone, Covers, Doc
<1> QED
  BY <1>4, <1>7, <1>8, <1>9, <1>14, <1>15, <1>16, <1>17, <1>18, <1>19, OwnerSteps

LEMMA OwnerCommits ==
  ASSUME OwnerInv, LossStays, NEW k \in Operator, Owner!Commit(k)
  PROVE  OwnerInv' /\ Owner!OnlyUndone
<1>1. /\ UNCHANGED <<x1, x2, x4, x5, x6, x8, x10, x12>> /\ x9[k].pc = "gate"
      /\ x7' = [x7 EXCEPT !.generation = IF x9[k].restores THEN x9[k].generation ELSE @]
      /\ Owner!Fails(k)
  BY DEF Owner!Commit, Owner!outside, Owner!At
<1>2. x7 \in Hub /\ x7.owner # None /\ x9[k].generation = x7.generation
  BY <1>1 DEF OwnerInv, OwnerTyped, Observed, OneLine, Gen
<1>3. x7' = x7 BY <1>1, <1>2 DEF Hub
<1>4. OwnerInv' BY <1>1, <1>3, OwnerGivesUp
<1> QED BY <1>3, <1>4 DEF Owner!OnlyUndone

\* What a gate takes back, its keeper has: nobody else keeps the root.
LEMMA OwnerTakesBack ==
  ASSUME OwnerInv, LossStays, OwnerAssumption, OwnerGranted, faults \in Nat,
         NEW k \in Operator, Owner!GateFails(k)
  PROVE  OwnerInv' /\ Owner!OnlyUndone
<1> DEFINE b == x9[k].before
<1>1. /\ UNCHANGED <<x1, x2, x4, x5, x6, x8, x10, x12>> /\ x9[k].pc = "gate"
      /\ b.directory # None /\ Owner!Holders = {k} /\ Owner!Fails(k)
      /\ x7' = [x7 EXCEPT !.directory = b.directory, !.leaf = b.leaf]
  BY DEF Owner!GateFails, Owner!outside, Owner!At, OwnerGranted
<1>2. /\ x7.owner # None /\ Keeps(k) /\ CoversShown(x2[k]) /\ x2[k].contract = x6
      /\ x7.directory = x2[k] /\ b \in Hub /\ b.directory \in x12
      /\ x7 \in Hub /\ x12 \subseteq Doc /\ x7.directory \in x12 /\ x6 \in Nat
      /\ x2[k] \in Doc
  BY <1>1 DEF OwnerInv, OwnerTyped, Observed, Established
<1>3. PICK d, l : d = b.directory /\ l = b.leaf OBVIOUS
<1>4. d \in x12 /\ d \in Doc /\ l \in Nat \cup {None} /\ d # None BY <1>1, <1>2, <1>3 DEF Hub
<1>5. x7' \in Hub /\ x7'.owner = x7.owner /\ x7'.generation = x7.generation /\ x7'.directory = d
  <2>1. x7' = [x7 EXCEPT !.directory = d, !.leaf = l] BY <1>1, <1>3
  <2> QED BY <1>2, <1>4, <2>1 DEF Hub
<1>6. /\ x9' \in [Operator -> OwnerCall] /\ \A e \in Operator \ {k} : x9'[e] = x9[e]
      /\ x9'[k].pc = "idle" /\ x9'[k].restores = FALSE
  BY <1>1, CallEnds DEF OwnerInv
<1>7. \A e \in Operator \ {k} : x9[e].pc = "idle" /\ ~x9[e].restores BY <1>1, OthersRest
<1>8. \A e \in Operator : (Keeps(e)' <=> Keeps(e)) /\ (Keeps(e) => e = k)
  <2>1. x7.owner \in Operator BY <1>2 DEF Hub
  <2> QED BY <1>1, <1>5, <2>1 DEF Keeps, Owner!Holders
<1>9. OwnerTyped' BY <1>1, <1>5, <1>6 DEF OwnerInv, OwnerTyped
<1>10. Gen' = Gen BY <1>5 DEF Gen
<1>11. OneLine'
  <2>1. OfTheLine(d) BY <1>4 DEF OwnerInv, OneLine
  <2> QED BY <1>1, <1>5, <1>6, <1>7, <1>10, <2>1 DEF OwnerInv, OneLine, OfTheLine
<1>12. Established' BY <1>1, <1>2, <1>4, <1>5, <1>8 DEF OwnerInv, Established
<1>13. Owner!OneDocument' BY <1>1 DEF OwnerInv, Owner!OneDocument
<1>14. \A s \in Doc : s.contract \in Nat \ {0} /\ s.revision \in Nat /\ s.generation \in Nat BY DEF Doc
<1>15. d.contract <= x6 /\ d.contract \in Nat
  BY <1>4, <1>14 DEF OwnerInv, OneLine, OfTheLine
<1>16. ASSUME x8 # None PROVE Owner!Behind(x8.directory) \/ x8.directory.contract >= d.contract
  <2>1. x8.directory \in Doc /\ x8.directory.generation = Gen /\ x8.directory.contract <= x6
    BY <1>2, <1>16 DEF OwnerInv, OwnerTyped, Established, OneLine, OfTheLine
  <2>2. CASE MaxContract = 1
    <3>1. x6 = 1 BY <2>2 DEF OwnerInv, OneLine
    <3> QED BY <1>14, <1>15, <2>1, <3>1
  <2>3. CASE Lossless
    <3>1. Tops(k, x8.directory) BY <1>2, <1>8, <1>16, <2>3 DEF OwnerInv, OnlyKeeper
    <3>2. CASE x8.directory = x2[k] BY <1>2, <1>14, <1>15, <2>1, <3>2
    <3>3. CASE x8.directory # x2[k]
      <4>1. x8.directory.revision < x2[k].revision BY <3>1, <3>3 DEF Tops, Covers
      <4>2. x2[k] \in x12 /\ x2[k].generation = Gen
        <5>1. x2[k] \in x12 /\ x2[k] # None BY <1>2 DEF CoversShown
        <5>2. OfTheLine(x2[k]) BY DEF OwnerInv, OneLine
        <5> QED BY <5>1, <5>2 DEF OfTheLine
      <4>3. x2[k].revision >= x8.directory.revision BY <1>2, <1>14, <2>1, <4>1
      <4> QED BY <2>1, <3>3, <4>2, <4>3 DEF Owner!Behind
    <3> QED BY <3>2, <3>3
  <2>4. "gate_fails" \in Faults /\ faults < MaxFaults.owner
    BY DEF Owner!GateFails, Owner!Fault
  <2>5. MaxFaults.owner \in 0..1 => faults = 0 BY <2>4
  <2> QED BY <2>2, <2>3, <2>4, <2>5 DEF OwnerGranted, Lossless
<1>17. TakenBackKept'
  <2>1. x2[k].contract >= d.contract BY <1>2, <1>15
  <2>2. \A s \in x12 : Covers(x2[k], s) BY <1>2 DEF CoversShown
  <2>3. \A s \in x12 : \A e \in Operator : Keeps(e)' => Covers(x2[e], s) /\ x2[e].contract >= d.contract
    BY <1>8, <2>1, <2>2
  <2> QED BY <1>1, <1>5, <1>16, <2>3 DEF TakenBackKept, Covers, Owner!Behind
<1>18. ASSUME Lossless' PROVE OnlyKeeper'
  BY <1>1, <1>5, <1>8, <1>18 DEF OwnerInv, LossStays, OnlyKeeper, Tops, Covers
<1>19. Observed(k)' BY <1>6 DEF Observed, BeforeIssue
<1>20. Owner!OnlyUndone BY <1>1, <1>3, <1>5 DEF Owner!OnlyUndone, Owner!At
<1> QED
  BY <1>6, <1>7, <1>9, <1>11, <1>12, <1>13, <1>17, <1>18, <1>19, <1>20, OwnerSteps

\* A command cut short; its litter is in nobody's way but its own.
LEMMA OwnerDies ==
  ASSUME OwnerInv, LossStays, NEW k \in Operator, Owner!Dies(k)
  PROVE  OwnerInv'
<1>1. /\ UNCHANGED <<x1, x2, x4, x5, x6, x7, x8, x10, x12>>
      /\ Owner!Fails(k) /\ x9[k].pc # "idle"
  BY DEF Owner!Dies, Owner!outside, Owner!At
<1> QED BY <1>1, OwnerGivesUp

\* Material that is lost is of nobody whose command runs, and of no line.
LEMMA OwnerLoses ==
  ASSUME OwnerInv, UpkeepAssumption, faults \in Nat, NEW k \in Operator, Owner!MaterialLost(k)
  PROVE  OwnerInv'
<1>1. /\ UNCHANGED <<x4, x5, x6, x7, x8, x9, x10, x12>> /\ x9[k].pc = "idle"
      /\ x8 # None /\ ~Lossless'
      /\ x1' = [x1 EXCEPT ![k] = Owner!NoKeys] /\ x2' = [x2 EXCEPT ![k] = None]
  BY DEF Owner!MaterialLost, Owner!outside, Owner!At, Owner!Fault, Lossless
<1>2. Owner!NoKeys \in KeyRing /\ Owner!NoKeys.root = None BY DEF Owner!NoKeys, KeyRing
<1>3. /\ x1' \in [Operator -> KeyRing] /\ x1'[k].root = None
      /\ x2' \in [Operator -> Doc \cup {None}] /\ x2'[k] = None
      /\ \A e \in Operator \ {k} : x1'[e] = x1[e] /\ x2'[e] = x2[e]
  BY <1>1, <1>2 DEF OwnerInv, OwnerTyped
<1>4. x7.owner # None BY <1>1 DEF OwnerInv, Established
<1>5. OwnerTyped' BY <1>1, <1>3 DEF OwnerInv, OwnerTyped
<1>6. Gen' = Gen BY <1>1 DEF Gen
<1>7. OneLine'
  <2>1. \A e \in Operator : OfTheLine(x2'[e]) BY <1>3 DEF OwnerInv, OneLine, OfTheLine
  <2> QED BY <1>1, <1>6, <2>1 DEF OwnerInv, OneLine, OfTheLine
<1>8. OneTurn' BY <1>1 DEF OwnerInv, OneTurn
<1>9. /\ ~Keeps(k)'
      /\ \A e \in Operator \ {k} : Keeps(e)' <=> Keeps(e)
  BY <1>1, <1>3, <1>4 DEF Keeps
<1>10. Established' BY <1>1, <1>3, <1>4, <1>9 DEF OwnerInv, Established
<1>11. Owner!OneDocument' BY <1>1 DEF OwnerInv, Owner!OneDocument
<1>12. TakenBackKept'
  <2> SUFFICES ASSUME NEW s \in x12, ~Covers(x7.directory, s)
               PROVE  /\ \A e \in Operator : Keeps(e)' =>
                           Covers(x2'[e], s) /\ x2'[e].contract >= x7.directory.contract
                      /\ x8 # None => \/ Owner!Behind(x8.directory)
                                      \/ x8.directory.contract >= x7.directory.contract
    BY <1>1 DEF TakenBackKept, Covers, Owner!Behind
  <2> QED BY <1>3, <1>9 DEF OwnerInv, TakenBackKept
<1>13. ASSUME NEW e \in Operator PROVE Observed(e)'
  <2>1. CASE e = k
    <3>1. x9'[e].pc = "idle" /\ ~x9'[e].restores BY <1>1, <2>1 DEF OwnerInv, Observed
    <3> QED BY <3>1 DEF Observed, BeforeIssue
  <2>2. CASE e # k
    <3>1. x1'[e] = x1[e] /\ x2'[e] = x2[e] BY <1>3, <2>2
    <3>2. (CoversShown(x2[e]))' <=> CoversShown(x2[e]) BY <1>1, <3>1 DEF CoversShown, Covers
    <3>3. Keeps(e)' <=> Keeps(e) BY <1>9, <2>2
    <3>4. Observed(e) BY DEF OwnerInv
    <3> QED BY <1>1, <3>1, <3>2, <3>3, <3>4 DEF Observed
  <2> QED BY <2>1, <2>2
<1> QED
  BY <1>1, <1>5, <1>7, <1>8, <1>10, <1>11, <1>12, <1>13 DEF OwnerInv

\* Where no command runs, none has found out anything.
LEMMA NobodyRuns ==
  ASSUME OwnerInv, Owner!Alone, UNCHANGED x9
  PROVE  OneTurn' /\ \A k \in Operator : x9[k].pc = "idle" /\ Observed(k)'
<1>1. \A k \in Operator : x9[k].pc = "idle" /\ ~x9[k].restores
  BY DEF OwnerInv, Observed, Owner!Alone, Owner!At
<1> QED BY <1>1 DEF OneTurn, Observed, BeforeIssue

\* A backup is a keeper's own directory, which has covered what was taken back.
LEMMA OwnerBacksUp ==
  ASSUME OwnerInv, LossStays, OwnerAssumption, NEW k \in Operator, Owner!Backup(k)
  PROVE  OwnerInv'
<1>1. /\ UNCHANGED <<x1, x2, x4, x5, x6, x7, x9, x10, x12>> /\ Owner!Alone
      /\ Keeps(k) /\ x7.owner = x1[k].root /\ x7.owner # None /\ x2[k] # None
  BY DEF Owner!Backup, Owner!outside, Keeps
<1>2. PICK g, r, d : g = x7.generation /\ r = x1[k] /\ d = x2[k] OBVIOUS
<1>3. /\ g \in Nat /\ r \in KeyRing /\ d \in Doc /\ OfTheLine(d) /\ g = Gen
      /\ r.root = x7.owner /\ d # None /\ None \notin Doc
  BY <1>1, <1>2, OwnerAssumption DEF OwnerInv, OwnerTyped, Hub, OneLine, Gen, Doc
<1>4. x8' = [generation |-> g, keys |-> r, directory |-> d] BY <1>2 DEF Owner!Backup
<1>5. OwnerTyped' BY <1>1, <1>3, <1>4 DEF OwnerInv, OwnerTyped
<1>6. x8'.generation = g /\ x8'.keys = r /\ x8'.directory = d BY <1>4
<1>7. Gen' = Gen BY <1>1 DEF Gen
<1>8. OneLine' BY <1>1, <1>3, <1>6, <1>7 DEF OwnerInv, OneLine, OfTheLine
<1>9. \A e \in Operator : Keeps(e)' <=> Keeps(e) BY <1>1 DEF Keeps
<1>10. Established' BY <1>1, <1>3, <1>6, <1>9 DEF OwnerInv, Established
<1>11. Owner!OneDocument' BY <1>1 DEF OwnerInv, Owner!OneDocument
<1>12. TakenBackKept'
  <2>1. \A s \in x12 : ~Covers(x7.directory, s) =>
          \A e \in Operator : Keeps(e) => Covers(x2[e], s) /\ x2[e].contract >= x7.directory.contract
    BY DEF OwnerInv, TakenBackKept
  <2> QED BY <1>1, <1>2, <1>6, <1>9, <2>1 DEF TakenBackKept, Covers
<1>13. ASSUME Lossless' PROVE OnlyKeeper'
  <2>1. OnlyKeeper BY <1>13 DEF OwnerInv, LossStays
  <2>2. ASSUME NEW e \in Operator, Keeps(e), \A f \in Operator : Keeps(f) => f = e
        PROVE  (\A s \in x12 : Tops(e, s)) /\ Tops(e, d)
    <3>1. e = k BY <1>1, <2>2
    <3>2. d.contract \in Nat BY <1>3 DEF Doc
    <3> QED BY <1>1, <1>2, <2>1, <2>2, <3>1, <3>2 DEF OnlyKeeper, Tops, Covers
  <2> QED BY <1>1, <1>6, <1>9, <2>1, <2>2 DEF OnlyKeeper, Tops, Covers
<1> QED
  BY <1>1, <1>5, <1>8, <1>10, <1>11, <1>12, <1>13, NobodyRuns DEF OwnerInv

\* The Host is moved, certificates run out, a newer Ops is used: between two
\* commands, and the line does not change by it.
LEMMA OwnerMoves == ASSUME OwnerInv, LossStays, Owner!Moves PROVE OwnerInv'
<1>1. /\ UNCHANGED <<x1, x2, x7, x8, x9, x10, x12>> /\ Owner!Alone
      /\ x4' \in Port /\ x5' \in Nat
  BY DEF Owner!Moves, OwnerInv, OwnerTyped
<1>2. /\ x6 \in Nat \ {0} /\ x6' \in Nat \ {0} /\ x6 <= x6' /\ (MaxContract = 1 => x6' = x6)
  BY DEF Owner!Moves, OwnerInv, OwnerTyped, OneLine
<1>3. OwnerTyped' BY <1>1, <1>2 DEF OwnerInv, OwnerTyped
<1>4. Gen' = Gen BY <1>1 DEF Gen
<1>5. ASSUME NEW d \in Doc \cup {None}, OfTheLine(d) PROVE d # None => d.generation = Gen /\ d.contract <= x6'
  <2>1. d \in Doc => d.contract \in Nat BY DEF Doc
  <2> QED BY <1>2, <1>5, <2>1 DEF OfTheLine
<1>6. OneLine'
  <2>1. \A d \in x12 : d # None => d.generation = Gen /\ d.contract <= x6'
    BY <1>5 DEF OwnerInv, OwnerTyped, OneLine
  <2>2. \A k \in Operator : x2[k] # None => x2[k].generation = Gen /\ x2[k].contract <= x6'
    <3> SUFFICES ASSUME NEW k \in Operator, x2[k] # None
                 PROVE  x2[k].generation = Gen /\ x2[k].contract <= x6'
      OBVIOUS
    <3>1. x2[k] \in Doc \cup {None} /\ OfTheLine(x2[k]) BY DEF OwnerInv, OwnerTyped, OneLine
    <3> QED BY <1>5, <3>1
  <2>3. x7.directory # None => x7.directory.generation = Gen /\ x7.directory.contract <= x6'
    <3>1. x7.directory \in Doc \cup {None} /\ OfTheLine(x7.directory)
      BY DEF OwnerInv, OwnerTyped, OneLine, Hub
    <3> QED BY <1>5, <3>1
  <2>4. x8 # None /\ x8.directory # None =>
          x8.directory.generation = Gen /\ x8.directory.contract <= x6'
    <3> SUFFICES ASSUME x8 # None, x8.directory # None
                 PROVE  x8.directory.generation = Gen /\ x8.directory.contract <= x6'
      OBVIOUS
    <3>1. x8.directory \in Doc \cup {None} /\ OfTheLine(x8.directory)
      BY DEF OwnerInv, OwnerTyped, OneLine
    <3> QED BY <1>5, <3>1
  <2>5. \A k \in Operator : x9[k].pc = "idle" BY <1>1 DEF Owner!Alone, Owner!At
  <2>6. MaxContract = 1 => x6' = 1 BY <1>2 DEF OwnerInv, OneLine
  <2>7. x8 # None => x8.generation = Gen BY DEF OwnerInv, OneLine
  <2> QED BY <1>1, <1>4, <2>1, <2>2, <2>3, <2>4, <2>5, <2>6, <2>7 DEF OneLine, OfTheLine
<1>7. \A k \in Operator : Keeps(k)' <=> Keeps(k) BY <1>1 DEF Keeps
<1>8. Established' BY <1>1, <1>7 DEF OwnerInv, Established
<1>9. Owner!OneDocument' BY <1>1 DEF OwnerInv, Owner!OneDocument
<1>10. TakenBackKept' BY <1>1, <1>7 DEF OwnerInv, TakenBackKept, Covers, Owner!Behind
<1>11. Lossless' => OnlyKeeper'
  BY <1>1, <1>7 DEF OwnerInv, LossStays, OnlyKeeper, Tops, Covers
<1> QED BY <1>1, <1>3, <1>6, <1>8, <1>9, <1>10, <1>11, NobodyRuns DEF OwnerInv

\* A directory with nothing newer on its line covers everything on it.
LEMMA NotBehind ==
  ASSUME OwnerInv, OwnerAssumption, NEW d \in Doc, d.generation = Gen, ~Owner!Behind(d)
  PROVE  CoversShown(d)
<1>1. d # None /\ d.revision \in Nat BY OwnerAssumption DEF Doc
<1>2. ASSUME NEW s \in x12 PROVE Covers(d, s)
  <2>1. s \in Doc /\ s # None /\ OfTheLine(s)
    BY OwnerAssumption DEF OwnerInv, OwnerTyped, OneLine, Doc
  <2>2. s.generation = d.generation /\ s.revision \in Nat BY <2>1 DEF OfTheLine, Doc
  <2>3. s = d \/ ~(s.revision >= d.revision) BY <2>2 DEF Owner!Behind
  <2> QED BY <1>1, <2>2, <2>3 DEF Covers
<1> QED BY <1>1, <1>2 DEF CoversShown

\* The package of a Host whose Authority is established is of its root and line.
LEMMA PackageOfTheLine ==
  ASSUME OwnerInv, OwnerAssumption, x8 # None
  PROVE  /\ x7.owner # None /\ x8.directory \in Doc /\ x8.directory.generation = Gen
         /\ x8.generation = Gen /\ Gen \in Nat
         /\ x8.keys \in KeyRing /\ x8.keys.root = x7.owner
<1>1. /\ x7.owner # None /\ x8.directory # None /\ x8.keys.root = x7.owner
      /\ x8.keys \in KeyRing /\ x8.directory \in Doc \cup {None} /\ x8.generation \in Nat
  BY DEF OwnerInv, Established, OwnerTyped
<1>2. OfTheLine(x8.directory) /\ x8.generation = Gen BY DEF OwnerInv, OneLine
<1> QED BY <1>1, <1>2 DEF OfTheLine

LEMMA RestoreCalls ==
  ASSUME OwnerTyped, NEW k \in Operator, NEW g \in Nat,
         x9' = [x9 EXCEPT ![k] = [Owner!Resting EXCEPT
           !.pc = "root", !.restores = TRUE, !.generation = g]]
  PROVE  /\ x9' \in [Operator -> OwnerCall]
         /\ \A e \in Operator \ {k} : x9'[e] = x9[e]
         /\ x9'[k].pc = "root" /\ x9'[k].restores = TRUE
         /\ x9'[k].generation = g /\ x9'[k].served = None
<1> DEFINE c == [Owner!Resting EXCEPT !.pc = "root", !.restores = TRUE, !.generation = g]
<1>1. /\ c \in OwnerCall /\ c.pc = "root" /\ c.restores = TRUE
      /\ c.generation = g /\ c.served = None
  BY DEF Owner!Resting, OwnerCall, BeforeIssue
<1>2. x9' = [x9 EXCEPT ![k] = c] OBVIOUS
<1> HIDE DEF c
<1> QED BY <1>1, <1>2 DEF OwnerTyped

\* What a restore brings, nothing that was shown is ahead of; and it makes a
\* keeper only beside another.
LEMMA OwnerRestores ==
  ASSUME OwnerInv, LossStays, OwnerAssumption, UpkeepAssumption, OwnerGranted,
         NEW k \in Operator, Owner!Restore(k)
  PROVE  OwnerInv'
<1>1. /\ UNCHANGED <<x4, x5, x6, x7, x8, x10, x12>> /\ Owner!Alone /\ x8 # None
      /\ x9' = [x9 EXCEPT ![k] = [Owner!Resting EXCEPT
           !.pc = "root", !.restores = TRUE, !.generation = x8.generation]]
  BY DEF Owner!Restore, Owner!outside, OwnerGranted
<1>2. /\ x7.owner # None /\ x8.directory \in Doc /\ x8.directory.generation = Gen
      /\ x8.generation = Gen /\ Gen \in Nat
      /\ x8.keys \in KeyRing /\ x8.keys.root = x7.owner
  BY <1>1, PackageOfTheLine
<1>3. /\ x9' \in [Operator -> OwnerCall] /\ \A e \in Operator \ {k} : x9'[e] = x9[e]
      /\ x9'[k].pc = "root" /\ x9'[k].restores = TRUE
      /\ x9'[k].generation = Gen /\ x9'[k].served = None
  <2>1. PICK g \in Nat : g = Gen BY <1>2
  <2>2. x9' = [x9 EXCEPT ![k] = [Owner!Resting EXCEPT
           !.pc = "root", !.restores = TRUE, !.generation = g]]
    BY <1>1, <1>2, <2>1
  <2>3. OwnerTyped BY DEF OwnerInv
  <2> QED BY <2>1, <2>2, <2>3, RestoreCalls
<1>4. /\ x1 \in [Operator -> KeyRing] /\ x2 \in [Operator -> Doc \cup {None}]
      /\ None \notin Doc /\ x7.directory \in Doc /\ x12 \subseteq Doc
  BY <1>2, OwnerAssumption DEF OwnerInv, OwnerTyped, Established, Doc
<1>5. PICK r \in KeyRing, d \in Doc :
        /\ r.root = x7.owner /\ d.generation = Gen /\ ~Owner!Behind(d)
        /\ x1' = [x1 EXCEPT ![k] = r] /\ x2' = [x2 EXCEPT ![k] = d]
        /\ \/ Keeps(k) /\ r = x1[k] /\ d = x2[k]
           \/ ~Keeps(k) /\ d = x8.directory
  <2>1. CASE x1[k] = Owner!NoKeys
    <3>1. ~Keeps(k) BY <1>2, <2>1 DEF Keeps, Owner!NoKeys
    <3>2. /\ ~Owner!Behind(x8.directory) /\ x1' = [x1 EXCEPT ![k] = x8.keys]
          /\ x2' = [x2 EXCEPT ![k] = x8.directory]
      BY <2>1 DEF Owner!Restore, OwnerGranted
    <3> QED BY <1>2, <3>1, <3>2
  <2>2. CASE x1[k] # Owner!NoKeys
    <3>1. /\ x1[k].root = x8.keys.root /\ UNCHANGED <<x1, x2>>
          /\ x2[k] = None \/ ~Owner!Behind(x2[k])
      BY <2>2 DEF Owner!Restore, OwnerGranted
    <3>2. Keeps(k) BY <1>2, <3>1 DEF Keeps
    <3>3. x2[k] # None /\ OfTheLine(x2[k]) BY <1>2, <3>2 DEF OwnerInv, Established, OneLine
    <3>4. x1[k] \in KeyRing /\ x2[k] \in Doc /\ x2[k].generation = Gen
      BY <1>4, <3>3 DEF OfTheLine
    <3>5. x1' = [x1 EXCEPT ![k] = x1[k]] /\ x2' = [x2 EXCEPT ![k] = x2[k]] BY <1>4, <3>1
    <3> QED BY <1>2, <3>1, <3>2, <3>3, <3>4, <3>5
  <2> QED BY <2>1, <2>2
<1>6. /\ x1' \in [Operator -> KeyRing] /\ x1'[k] = r
      /\ x2' \in [Operator -> Doc \cup {None}] /\ x2'[k] = d
      /\ \A e \in Operator \ {k} : x1'[e] = x1[e] /\ x2'[e] = x2[e]
  BY <1>4, <1>5
<1>7. CoversShown(d) BY <1>5, NotBehind
<1>8. \A e \in Operator \ {k} : x9[e].pc = "idle" /\ ~x9[e].restores BY <1>1, OthersRest
<1>9. OwnerTyped' BY <1>1, <1>3, <1>6 DEF OwnerInv, OwnerTyped
<1>10. Gen' = Gen BY <1>1 DEF Gen
<1>11. OfTheLine(d)
  <2>1. OfTheLine(x2[k]) /\ OfTheLine(x8.directory) BY <1>1 DEF OwnerInv, OneLine
  <2> QED BY <1>5, <2>1
<1>12. OneLine'
  <2>1. \A e \in Operator : OfTheLine(x2'[e]) BY <1>6, <1>11 DEF OwnerInv, OneLine
  <2> QED BY <1>1, <1>3, <1>8, <1>10, <2>1 DEF OwnerInv, OneLine, OfTheLine
<1>13. /\ Keeps(k)'
       /\ \A e \in Operator \ {k} : Keeps(e)' <=> Keeps(e)
  BY <1>1, <1>2, <1>5, <1>6 DEF Keeps
<1>14. Established'
  <2>1. d # None BY <1>7 DEF CoversShown
  <2> QED BY <1>1, <1>2, <1>6, <1>13, <2>1 DEF OwnerInv, Established
<1>15. Owner!OneDocument' BY <1>1 DEF OwnerInv, Owner!OneDocument
<1>16. TakenBackKept'
  <2> SUFFICES ASSUME NEW s \in x12, ~Covers(x7.directory, s)
               PROVE  /\ \A e \in Operator : Keeps(e)' =>
                           Covers(x2'[e], s) /\ x2'[e].contract >= x7.directory.contract
                      /\ x8 # None => \/ Owner!Behind(x8.directory)
                                      \/ x8.directory.contract >= x7.directory.contract
    BY <1>1 DEF TakenBackKept, Covers, Owner!Behind
  <2>1. /\ \A e \in Operator : Keeps(e) =>
             Covers(x2[e], s) /\ x2[e].contract >= x7.directory.contract
        /\ Owner!Behind(x8.directory) \/ x8.directory.contract >= x7.directory.contract
    BY <1>1 DEF OwnerInv, TakenBackKept
  <2>2. Covers(d, s) BY <1>7 DEF CoversShown
  <2>3. d.contract >= x7.directory.contract BY <1>5, <2>1
  <2> QED BY <1>6, <1>13, <2>1, <2>2, <2>3
<1>17. ASSUME Lossless' PROVE OnlyKeeper'
  <2>1. OnlyKeeper BY <1>17 DEF OwnerInv, LossStays
  <2>2. CASE Keeps(k) /\ r = x1[k] /\ d = x2[k]
    <3>1. UNCHANGED <<x1, x2>> BY <1>4, <1>5, <2>2
    <3> QED BY <1>1, <2>1, <3>1 DEF OnlyKeeper, Keeps, Tops, Covers
  <2>3. CASE ~Keeps(k)
    <3>1. PICK e \in Operator : Keeps(e) BY <1>2, <2>1 DEF OnlyKeeper
    <3>2. e # k /\ Keeps(e)' BY <1>13, <2>3, <3>1
    <3>3. ASSUME NEW f \in Operator PROVE ~(\A h \in Operator : Keeps(h)' => h = f)
      BY <1>13, <3>2
    <3>4. \E h \in Operator : Keeps(h)' BY <3>2
    <3> QED BY <3>3, <3>4 DEF OnlyKeeper
  <2> QED BY <1>5, <2>2, <2>3
<1>18. Observed(k)'
  <2>1. (CoversShown(x2[k]))' BY <1>1, <1>6, <1>7 DEF CoversShown, Covers
  <2> QED BY <1>1, <1>2, <1>3, <1>13, <2>1 DEF Observed, BeforeIssue
<1> QED
  BY <1>3, <1>8, <1>9, <1>12, <1>14, <1>15, <1>16, <1>17, <1>18, OwnerSteps

LEMMA FaultsCounted ==
  ASSUME faults \in Nat, Owner!Next
  PROVE  faults' \in Nat /\ LossStays
<1>1. faults' \in {faults, faults + 1}
  BY DEF Owner!Next, Owner!Moves, Owner!Begin, Owner!Restore, Owner!Backup, Owner!Proceed,
    Owner!Observe, Owner!MakeRoot, Owner!CertifyRoot, Owner!MakeSigner, Owner!CertifySigner,
    Owner!MakeLeaf, Owner!WriteLeafKey, Owner!Adopt, Owner!Issue, Owner!Deliver, Owner!Commit,
    Owner!GateFails, Owner!Dies, Owner!MaterialLost, Owner!Fault
<1> QED BY <1>1 DEF LossStays, Lossless

LEMMA OwnerStep ==
  ASSUME OwnerInv, faults \in Nat, OwnerAssumption, UpkeepAssumption, OwnerGranted, Owner!Next
  PROVE  OwnerInv' /\ faults' \in Nat /\ Owner!OnlyUndone
<1>0. faults' \in Nat /\ LossStays BY FaultsCounted
<1>1. CASE Owner!Moves
  <2>1. UNCHANGED x7 BY <1>1 DEF Owner!Moves
  <2> QED BY <1>0, <1>1, <2>1, OwnerMoves DEF Owner!OnlyUndone
<1>2. ASSUME NEW k \in Operator,
             \/ Owner!Begin(k) \/ Owner!Restore(k) \/ Owner!Backup(k) \/ Owner!Proceed(k)
             \/ Owner!GateFails(k) \/ Owner!Dies(k) \/ Owner!MaterialLost(k)
      PROVE  OwnerInv' /\ Owner!OnlyUndone
  <2>1. CASE Owner!Deliver(k) BY <1>0, <2>1, OwnerDelivers
  <2>2. CASE Owner!Commit(k) BY <1>0, <2>2, OwnerCommits
  <2>3. CASE Owner!GateFails(k) BY <1>0, <2>3, OwnerTakesBack
  <2>4. CASE Owner!Begin(k) \/ Owner!Observe(k)
    <3>1. UNCHANGED x7 BY <2>4 DEF Owner!Begin, Owner!Observe
    <3> QED BY <1>0, <2>4, <3>1, OwnerBegins DEF Owner!OnlyUndone
  <2>5. CASE Owner!Restore(k)
    <3>1. UNCHANGED x7 BY <2>5 DEF Owner!Restore
    <3> QED BY <1>0, <2>5, <3>1, OwnerRestores DEF Owner!OnlyUndone
  <2>6. CASE Owner!Backup(k)
    <3>1. UNCHANGED x7 BY <2>6 DEF Owner!Backup
    <3> QED BY <1>0, <2>6, <3>1, OwnerBacksUp DEF Owner!OnlyUndone
  <2>7. CASE \/ Owner!MakeRoot(k) \/ Owner!CertifyRoot(k) \/ Owner!MakeSigner(k)
             \/ Owner!CertifySigner(k) \/ Owner!MakeLeaf(k) \/ Owner!WriteLeafKey(k)
    <3>1. UNCHANGED x7
      BY <2>7 DEF Owner!MakeRoot, Owner!CertifyRoot, Owner!MakeSigner, Owner!CertifySigner,
        Owner!MakeLeaf, Owner!WriteLeafKey
    <3> QED BY <1>0, <2>7, <3>1, OwnerMakesKeys DEF Owner!OnlyUndone
  <2>8. CASE Owner!Adopt(k)
    <3>1. UNCHANGED x7 BY <2>8 DEF Owner!Adopt
    <3> QED BY <1>0, <2>8, <3>1, OwnerAdopts DEF Owner!OnlyUndone
  <2>9. CASE Owner!Issue(k)
    <3>1. UNCHANGED x7 BY <2>9 DEF Owner!Issue
    <3> QED BY <1>0, <2>9, <3>1, OwnerIssues DEF Owner!OnlyUndone
  <2>10. CASE Owner!Dies(k)
    <3>1. UNCHANGED x7 BY <2>10 DEF Owner!Dies
    <3> QED BY <1>0, <2>10, <3>1, OwnerDies DEF Owner!OnlyUndone
  <2>11. CASE Owner!MaterialLost(k)
    <3>1. UNCHANGED x7 BY <2>11 DEF Owner!MaterialLost
    <3> QED BY <1>0, <2>11, <3>1, OwnerLoses DEF Owner!OnlyUndone
  <2> QED
    BY <1>2, <2>1, <2>2, <2>3, <2>4, <2>5, <2>6, <2>7, <2>8, <2>9, <2>10, <2>11 DEF Owner!Proceed
<1> QED BY <1>0, <1>1, <1>2 DEF Owner!Next

\* DirectoryLineKept, for any keepers, ports and bounds: however often a command
\* is cut short, certificates run out or the Host is moved.  Granted are one
\* command at a time, a restore of a backup nothing has overtaken, a failed gate
\* only while its keeper is the only one; and, where a newer Ops may grow the
\* contract, not both that material is lost and that a gate fails.
THEOREM DirectoryIsOneLine ==
  ASSUME OwnerGranted
  PROVE  Spec => DirectoryLineKept
<1> DEFINE I == machine = "owner" => OwnerInv /\ faults \in Nat
           A == machine = "owner" => Owner!OneDocument' /\ Owner!OnlyUndone
<1>1. Init => I
  BY OwnerAssumption, UpkeepAssumption, OwnerInit DEF Init
<1>2. (I /\ machine = "owner" => Owner!OneDocument)'
  <2>1. I /\ machine = "owner" => Owner!OneDocument
    BY DEF OwnerInv
  <2> QED BY <2>1, PTL
<1>3. I /\ [Next]_vars => I' /\ [A]_vars
  <2>1. CASE Next
    <3>1. machine' = machine /\ (machine = "owner" => Owner!Next) BY <2>1, OneMachine
    <3>2. I => I' /\ (machine = "owner" => Owner!OnlyUndone)
      BY <3>1, OwnerAssumption, UpkeepAssumption, OwnerStep
    <3>3. I => A BY <1>2, <3>1, <3>2
    <3> QED BY <3>2, <3>3
  <2>2. CASE UNCHANGED vars
    <3>1. UNCHANGED <<x1, x2, x4, x5, x6, x7, x8, x9, x10, x12, machine, faults>> BY <2>2 DEF vars
    <3>2. OwnerInv => OwnerInv'
      <4> SUFFICES ASSUME OwnerInv PROVE OwnerInv' OBVIOUS
      <4>1. OwnerTyped' /\ OneLine' /\ OneTurn' /\ Established'
        BY <3>1 DEF OwnerInv, OwnerTyped, OneLine, OfTheLine, Gen, OneTurn, Established, Keeps
      <4>2. Owner!OneDocument' /\ TakenBackKept' /\ (Lossless' => OnlyKeeper')
        BY <3>1 DEF OwnerInv, Owner!OneDocument, TakenBackKept, Covers, Keeps, Owner!Behind, OnlyKeeper, Tops,
          Lossless
      <4>3. \A k \in Operator : Observed(k)'
        BY <3>1 DEF OwnerInv, Observed, Keeps, CoversShown, Covers
      <4> QED BY <4>1, <4>2, <4>3 DEF OwnerInv
    <3> QED BY <2>2, <3>1, <3>2
  <2> QED BY <2>1, <2>2
<1>4. Spec => [][A]_vars
  BY <1>1, <1>3, PTL DEF Spec
<1> QED BY <1>4, PTL DEF DirectoryLineKept
=============================================================================
