--------------------------- MODULE HostSelection ---------------------------
(***************************************************************************)
(* What one Host installs: the operations config and the Host profile that  *)
(* narrows it (config.py, paths.py), the components' contracts selected for *)
(* its capabilities and checked as one set (component_contract.py), and     *)
(* whether a reset may wipe it (controller.py).                             *)
(*                                                                         *)
(* The documents are read once and computed upon; what they say is the      *)
(* initial state.                                                           *)
(***************************************************************************)
EXTENDS Naturals, Sequences, SequencesExt

CONSTANTS
  None,
  Capability,   \* what a Host may offer
  Component,    \* the components with a repository of their own
  Platform,     \* the one whose contract ships with Ops
  Unit,         \* unit -> its component and the capability it asks for
  Targets,      \* dependencies systemd itself provides
  Dependency,   \* the dependencies a unit may declare: units, targets, misspellings
  Claim,        \* port role or installed file -> the component and the units that need it
  Extra,        \* the one component a capability adds a repository for
  Tasked,       \* the capability whose caller is told an address, and no more
  Local,        \* the capability whose caller names an address
  Cleared,      \* directories a wiping reset clears
  Path, Under   \* directories of this instance, and which lies in which

VARIABLES
  documents,    \* what the operator and the components wrote
  phase,
  caps,         \* the capabilities of this Host, once narrowed
  callers,      \* what each caller of a model is told
  kept,         \* the units the Host installs
  visiting, settled   \* the walk over their dependencies

vars == <<documents, phase, caps, callers, kept, visiting, settled>>

\* Documents in which nothing is out of the ordinary.
Plain == [
  reviewed |-> Capability, narrowed |-> None, modelled |-> TRUE,
  provider |-> [config |-> None, profile |-> None], address |-> None, remote |-> None,
  deps |-> [u \in DOMAIN Unit |-> {}], twin |-> None, silent |-> {},
  state |-> None, factory |-> {}]

Untold == [provider |-> {}, address |-> None, endpoint |-> None]

ProviderName == {None, "outside"} \cup Capability
Address == {None, "service", "elsewhere"}
Endpoint == {None, "service", "other port", "https", "http"}

Init ==
  /\ \/ \E reviewed \in SUBSET Capability, narrowed \in {None} \cup SUBSET Capability,
          modelled \in BOOLEAN, config, profile \in ProviderName, address \in Address, remote \in Endpoint :
          documents = [Plain EXCEPT !.reviewed = reviewed, !.narrowed = narrowed,
            !.modelled = modelled, !.provider = [config |-> config, profile |-> profile],
            !.address = address, !.remote = remote]
     \/ \E deps \in [DOMAIN Unit -> Dependency], narrowed \in SUBSET Capability :
          documents = [Plain EXCEPT !.deps = deps, !.narrowed = narrowed]
     \/ \E twin \in {None} \cup DOMAIN Claim, silent \in SUBSET Component,
          narrowed \in SUBSET Capability, state \in {None} \cup Path, factory \in SUBSET Path :
          documents = [Plain EXCEPT !.twin = twin, !.silent = silent, !.narrowed = narrowed,
            !.state = state, !.factory = factory]
  /\ phase = "documents" /\ caps = {} /\ callers = Untold /\ kept = {}
  /\ visiting = <<>> /\ settled = {}

-----------------------------------------------------------------------------
\* config.py: the document as reviewed, then narrowed to what the profile says
\* this Host does, and only then judged.

\* A repository is pinned exactly when a reviewed capability adds it.
Reviewed == documents.modelled <=> documents.reviewed # {}

Narrowed == IF documents.narrowed = None THEN documents.reviewed ELSE documents.narrowed

Providers == {documents.provider.config, documents.provider.profile} \ {None}

OverlayRefused(cs) ==
  \/ None \notin {documents.provider.config, documents.provider.profile}
  \/ \E v \in Providers : v \in Capability \ cs
  \/ documents.address # None /\ (Local \notin cs \/ documents.address # "service")

\* A Host that runs the model is told nothing else; one that does not names
\* https, or this service's own port on loopback.
EndpointRefused(cs) ==
  \/ Tasked \in cs /\ documents.remote # None
  \/ documents.remote \in {"other port", "http"}

Told(cs) ==
  [provider |-> Providers, address |-> documents.address,
   endpoint |-> IF Tasked \in cs THEN "service" ELSE documents.remote]

Judged(cs) == ~OverlayRefused(cs) /\ ~EndpointRefused(cs)

LoadConfig ==
  /\ phase = "documents"
  /\ IF Reviewed /\ Narrowed \subseteq documents.reviewed /\ Judged(Narrowed)
     THEN phase' = "configured" /\ caps' = Narrowed /\ callers' = Told(Narrowed)
     ELSE phase' = "refused" /\ UNCHANGED <<caps, callers>>
  /\ UNCHANGED <<documents, kept, visiting, settled>>

-----------------------------------------------------------------------------
\* component_contract.py: every contract is checked alone, then selected, then
\* checked with the others.

Pinned == (Component \ {Extra}) \cup (IF caps = {} THEN {} ELSE {Extra})
Declared == (Pinned \ documents.silent) \cup {Platform}

\* A factory reset must reach all the state a component declares.
Covered(path, roots) == \E root \in roots : <<path, root>> \in Under

Contradicts ==
  Extra \in Declared /\ documents.state # None /\ ~Covered(documents.state, documents.factory)

Selected(c) ==
  {u \in DOMAIN Unit : Unit[u].component = c /\ Unit[u].capability \in caps \cup {None}}
SelectedOf(cs) == UNION {Selected(c) : c \in cs}

\* A port role or a file that only dropped units needed is withdrawn with them.
Claims(c) ==
  {n \in DOMAIN Claim : Claim[n].component = c /\
     (Claim[n].units = {} \/ Claim[n].units \cap Selected(c) # {})}

\* The platform claims a name that a component keeps.
Claimed == documents.twin \in UNION {Claims(c) : c \in Declared}

Known == SelectedOf(Declared) \cup Targets
UnknownDependency == \E u \in SelectedOf(Declared) : ~ documents.deps[u] \subseteq Known

Select ==
  /\ phase = "configured"
  /\ IF Contradicts \/ Claimed \/ UnknownDependency
     THEN phase' = "refused" /\ UNCHANGED kept
     ELSE phase' = "walk" /\ kept' = SelectedOf(Declared)
  /\ UNCHANGED <<documents, caps, callers, visiting, settled>>

\* The walk for cycles: depth first, with the path on which it is.
Arcs(u) == documents.deps[u] \cap kept

Visit(u) == visiting' = Append(visiting, u) /\ UNCHANGED <<phase, settled>>
Settle(u) == visiting' = Front(visiting) /\ settled' = settled \cup {u} /\ UNCHANGED phase

FollowOnce(u) ==
  IF Arcs(u) \subseteq settled THEN Settle(u)
  ELSE \E v \in Arcs(u) \ settled :
         IF v \in Range(visiting) THEN Settle(u) ELSE Visit(v)
Follow(u) ==
  IF Arcs(u) \subseteq settled THEN Settle(u)
  ELSE \E v \in Arcs(u) \ settled :
         IF v \in Range(visiting) THEN phase' = "refused" /\ UNCHANGED <<visiting, settled>>
         ELSE Visit(v)

Walk ==
  /\ phase = "walk" /\ kept # settled
  /\ IF visiting = <<>> THEN \E u \in kept \ settled : Visit(u) ELSE Follow(Last(visiting))
  /\ UNCHANGED <<documents, caps, callers, kept>>

EndWalk ==
  /\ phase = "walk" /\ kept = settled
  /\ phase' = "installable"
  /\ UNCHANGED <<documents, caps, callers, kept, visiting, settled>>

-----------------------------------------------------------------------------
\* controller.py: a wipe asks every component, or none of them if none answers.

Stranded == Extra \in Declared /\ \E p \in documents.factory : ~Covered(p, Cleared)

PlanWipe ==
  /\ phase = "installable"
  /\ phase' = IF Declared = {Platform} THEN "unasked"
              ELSE IF Pinned \cap documents.silent # {} \/ Stranded THEN "wipe refused"
              ELSE "wipe admitted"
  /\ UNCHANGED <<documents, caps, callers, kept, visiting, settled>>

Next == LoadConfig \/ Select \/ Walk \/ EndWalk \/ PlanWipe

-----------------------------------------------------------------------------
\* A caller that is told to use a service of this Host is told so of one the
\* Host runs, whatever the shared config was reviewed for.
CallersReachServices ==
  /\ callers.provider \cap Capability \subseteq caps
  /\ callers.address # None => Local \in caps
  /\ callers.endpoint = "service" => Tasked \in caps \/ documents.remote = "service"

\* Some order starts each unit after all it needs: no set of units waits for
\* itself.
Startable ==
  /\ \A u \in kept : documents.deps[u] \subseteq kept \cup Targets
  /\ \A us \in (SUBSET kept) \ {{}} : \E u \in us : documents.deps[u] \cap us = {}

\* The walk accepts the sets that can be started, and no other.
WalkIsExact ==
  /\ phase \notin {"documents", "configured", "walk", "refused"} => Startable
  /\ phase = "refused" /\ kept # {} => ~Startable

\* A wipe that asked the components leaves none of the state they declare.
WipeReaches ==
  phase = "wipe admitted" =>
    /\ Pinned \cap documents.silent = {}
    /\ Extra \in Declared /\ documents.state # None => Covered(documents.state, Cleared)

Concluded == phase \in {"refused", "unasked", "wipe refused", "wipe admitted"}
=============================================================================
