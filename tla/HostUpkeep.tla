----------------------------- MODULE HostUpkeep -----------------------------
(***************************************************************************)
(* The upkeep commands, each of which puts a Host right by being run        *)
(* again: a source run's start (SourceRun), kernel-schema-reset             *)
(* (KernelSchema), converge-inputs and repair-credentials                   *)
(* (HostCredentials), bring-up and provision (HostFoundation); and what     *)
(* every deploy gives a Host anew: the artifacts and models it is to hold   *)
(* (ArtifactStore), its Owner's directory (OwnerDirectory), the units its   *)
(* capabilities select (HostSelection).  And how the workstation gets there *)
(* (HostLink): trust-host-key, and the link a release is uploaded over.     *)
(*                                                                         *)
(* They share no state, so that a behaviour is of one of them: the machine. *)
(***************************************************************************)
EXTENDS Naturals, FiniteSets

CONSTANTS
  Machine,      \* the ones of this instance
  Operator, Lead, None, Faults,
  MaxFaults,    \* bound: machine -> faults of all kinds
  Root, MaxEpoch, MaxAside,
  Uncounted, Schema, CountedFrom, MaxSelections, MaxTurns,
  Class, File, Provider, Slots, InstalledFiles, FirstSlots, MaxEdits,
  Artifacts, Wheel, Links, Service,
  Release, Goal, Objects, Model, Selects, MaxDeploys,
  Half, Port, MaxGeneration, MaxEra, MaxContract, MaxIssued, MaxCommands,
  Capability, Component, Platform, Unit, Targets, Dependency, Claim, Extra, Tasked, Local,
  Cleared, Path, Under,
  This, Name, Key, Interface, Kind, Reaches, HostAddress, LinkLocal, Lies, KnownHosts

VARIABLES machine, faults, x1, x2, x3, x4, x5, x6, x7, x8, x9, x10, x11, x12, x13, x14

vars == <<machine, faults, x1, x2, x3, x4, x5, x6, x7, x8, x9, x10, x11, x12, x13, x14>>

\* One machine runs in a behaviour, so that all keep their variables in the same
\* places; a place a machine has no use for stays None.
AtMost12 == x13 = None /\ x14 = None
AtMost11 == x12 = None /\ AtMost12
AtMost10 == x11 = None /\ AtMost11
AtMost8 == x9 = None /\ x10 = None /\ AtMost10
AtMost7 == x8 = None /\ AtMost8

Source == INSTANCE SourceRun WITH
  MaxFaults <- MaxFaults.source, roots <- x1, smarthome <- x2, generated <- x3, material <- x4,
  up <- x5, op <- x6, asides <- x7, served <- x8
Kernel == INSTANCE KernelSchema WITH
  Agent <- Operator, MaxFaults <- MaxFaults.kernel, supervisor <- x1, speaks <- x2,
  reconciler <- x3, kernel <- x4, db <- x5, log <- x6, aside <- x7, lock <- x8, agent <- x9,
  turns <- x10
Credentials == INSTANCE HostCredentials WITH
  Converger <- Operator, Keeper <- Lead, MaxFaults <- MaxFaults.credentials, declared <- x1,
  inputs <- x2, held <- x3, installed <- x4, setupCode <- x5, staged <- x6, cmd <- x7,
  edits <- x8
Foundation == INSTANCE HostFoundation WITH
  Driver <- Operator, MaxFaults <- MaxFaults.board, declaration <- x1, script <- x2,
  applied <- x3, accepted <- x4, driver <- x5, install <- x6, evidence <- x7, apt <- x8,
  cache <- x9, tree <- x10, bin <- x11, dropin <- x12, journald <- x13, enabled <- x14
Artifact == INSTANCE ArtifactStore WITH
  Driver <- Operator, MaxFaults <- MaxFaults.artifacts, store <- x1, carried <- x2, model <- x3,
  stage <- x4, prepared <- x5, active <- x6, lingering <- x7, marker <- x8, deploy <- x9,
  deploys <- x10, sound <- x11
Owner == INSTANCE OwnerDirectory WITH
  Keeper <- Operator, MaxFaults <- MaxFaults.owner, keys <- x1, directory <- x2, litter <- x3,
  port <- x4, era <- x5, contract <- x6, hub <- x7, package <- x8, call <- x9, issued <- x10,
  commands <- x11, shown <- x12
Selection == INSTANCE HostSelection WITH
  documents <- x1, phase <- x2, caps <- x3, callers <- x4, kept <- x5, visiting <- x6,
  settled <- x7
Link == INSTANCE HostLink WITH
  MaxFaults <- MaxFaults.link, profile <- x1, up <- x2, board <- x3, at <- x4, offered <- x5,
  known <- x6, cmd <- x7, turns <- x8

\* What is absent is none of what it is absent from; a Kernel counts its selections.
ASSUME UpkeepAssumption ==
  /\ Lead \in Operator /\ MaxSelections \in Nat \ {0}
  /\ None \notin Operator \cup Interface \cup [schema : Schema, selections : 0..MaxSelections]

\* What a root holds is told apart from a root that is not there.
ASSUME SourceAssumption ==
  {"bootstrap", "hub"} \subseteq Root /\ None \notin Root \cup [epoch : Nat, note : Nat]

\* A credential is shared between files, unless an operator supplies it: no
\* SHARED_CREDENTIALS names a key of EXTERNAL_KEYS (install_inputs.py:225).
ASSUME CredentialAssumption ==
  /\ Slots \subseteq Class \X File /\ IsFiniteSet(Slots)
  /\ FirstSlots \subseteq Slots /\ InstalledFiles \subseteq SUBSET File
  /\ \A s, t \in Slots : s[1] = t[1] /\ s[1] \in Provider => s = t

\* The wheel is one of the pinned artifacts, and has one executable.
ASSUME FoundationAssumption ==
  /\ Artifacts \in Nat /\ Wheel \in 1..Artifacts
  /\ Links \in [1..Artifacts -> Nat \ {0}] /\ Links[Wheel] = 1
  /\ None # Foundation!Installed

\* The files there are, and that the kernel sends what it can route by no worse
\* link than any that claims to lead there (endpoints.py:37).
ASSUME LinkAssumption ==
  /\ Kind \in [Interface -> {"wired", "unknown", "wireless"}]
  /\ Lies \in [HostAddress -> Interface]
  /\ This \in Name
  /\ KnownHosts \subseteq SUBSET [names : SUBSET Name, key : Key, pattern : BOOLEAN]
  /\ \A a \in HostAddress \ LinkLocal, i \in Interface :
       a \in Reaches[i] => Link!Rank(Kind[Lies[a]]) <= Link!Rank(Kind[i])

\* A release selects of the models there are.
ASSUME ArtifactAssumption == None \notin Release /\ Selects \in [Release -> SUBSET Model]

\* What half a pair is, and what no directory is.
ASSUME OwnerAssumption ==
  /\ Half \notin Operator \cup {None} /\ MaxGeneration \in Nat
  /\ None \notin [generation : Nat, revision : Nat, port : Port, era : Nat,
                  contract : Nat \ {0}, id : Nat]

\* A directory lies in what a directory it lies in lies in.
ASSUME SelectionAssumption ==
  /\ None # "service"
  /\ \A s, t \in Under : s[2] = t[1] => <<s[1], t[2]>> \in Under

Init ==
  /\ faults = 0
  /\ machine \in Machine
  /\ \/ machine = "source" /\ Source!Init /\ AtMost8
     \/ machine = "kernel" /\ Kernel!Init /\ AtMost10
     \/ machine = "credentials" /\ Credentials!Init /\ AtMost8
     \/ machine = "board" /\ Foundation!Init
     \/ machine = "artifacts" /\ Artifact!Init /\ AtMost11
     \/ machine = "owner" /\ Owner!Init /\ AtMost12
     \/ machine = "selection" /\ Selection!Init /\ AtMost7
     \/ machine = "link" /\ Link!Init /\ AtMost8

OnSource(A) ==
  machine = "source" /\ A /\ UNCHANGED <<machine, x9, x10, x11, x12, x13, x14>>
OnKernel(A) ==
  machine = "kernel" /\ A /\ UNCHANGED <<machine, x11, x12, x13, x14>>
OnCredentials(A) ==
  machine = "credentials" /\ A /\ UNCHANGED <<machine, x9, x10, x11, x12, x13, x14>>
OnBoard(A) == machine = "board" /\ A /\ UNCHANGED machine
OnArtifacts(A) ==
  machine = "artifacts" /\ A /\ UNCHANGED <<machine, x12, x13, x14>>
OnOwner(A) ==
  machine = "owner" /\ A /\ UNCHANGED <<machine, x13, x14>>
OnSelection(A) ==
  machine = "selection" /\ A /\ UNCHANGED <<machine, faults, x8, x9, x10, x11, x12, x13, x14>>
OnLink(A) ==
  machine = "link" /\ A /\ UNCHANGED <<machine, x9, x10, x11, x12, x13, x14>>

Next ==
  \/ OnSource(Source!Next) \/ OnKernel(Kernel!Next) \/ OnCredentials(Credentials!Next)
  \/ OnBoard(Foundation!Next) \/ OnArtifacts(Artifact!Next) \/ OnOwner(Owner!Next)
  \/ OnSelection(Selection!Next) \/ OnLink(Link!Next)

\* A command that runs goes on to its end; what it waits for answers; and an
\* operator runs again the command that heals.  Nothing is assumed of the other
\* commands, nor of any fault.
Runs(o) ==
  \/ OnSource(Source!Proceed) \/ OnKernel(Kernel!Proceed(o)) \/ OnCredentials(Credentials!Proceed(o))
  \/ OnBoard(Foundation!ScriptStep) \/ OnArtifacts(Artifact!Proceed(o)) \/ OnOwner(Owner!Proceed(o))
  \/ OnSelection(Selection!Next) \/ OnLink(Link!Proceed(o))
Answers == OnSource(Source!HubEstablishes) \/ OnKernel(Kernel!Answered) \/ OnBoard(Foundation!Install)
Opens == OnKernel(Kernel!KernelOpens) \/ OnBoard(Foundation!RunScript)
Starts ==
  \/ OnSource(Source!Command("start")) \/ OnKernel(Kernel!StartHost)
  \/ OnBoard(Foundation!Provision(Lead))
Repeats ==
  \/ OnCredentials(Credentials!Begin(Lead, "converge"))
  \/ OnArtifacts(Artifact!Begin(Lead, Goal, FALSE)) \/ OnOwner(Owner!Begin(Lead))
Repairs == OnCredentials(Credentials!Begin(Lead, "repair")) \/ OnLink(Link!Confirm(Lead))

Fairness ==
  /\ \A o \in Operator : WF_vars(Runs(o))
  /\ WF_vars(Answers) /\ WF_vars(Opens) /\ WF_vars(Starts)
  /\ SF_vars(Repeats) /\ SF_vars(Repairs)

Spec == Init /\ [][Next]_vars /\ Fairness

-----------------------------------------------------------------------------
\* A source run never loses the state a root was served at, whatever command
\* is cut short at whatever step, and only serves roots of one Host: the
\* rename journal of source_state.py, and the order of a start and of a reset.
SourceStateKept ==
  machine = "source" => (\A r \in Root : Source!Kept(r)) /\ Source!ServesOne

\* A Kernel database is set aside only while the installed Kernel refuses it,
\* at the loss the operator accepted, with no Kernel on it; and no Kernel
\* starts beside the log of another database (kernel_schema.py).
SetAsideWarranted ==
  [][machine = "kernel" => Kernel!WarrantedWhenSetAside /\ Kernel!OwnLog]_vars

\* A credential rotated on the Host by hand is never taken back by a command;
\* only copies that disagree are made equal (secret_inputs.py).
RotationKept == [][machine = "credentials" => Credentials!KeptByCommands]_vars

\* Foundation evidence that says installed is of a board with every part
\* whole and in force (foundation_install.py).
FoundationBacked == machine = "board" => Foundation!EvidenceBacked

\* While a release serves, or a process still runs from it, the models it
\* selects are whole; nothing that failed its digest takes the name of one
\* (component_artifacts.py, hostagent/staging.py).
ModelsKept ==
  [][machine = "artifacts" => Artifact!PublishedWhole /\ Artifact!ServedHasModels']_vars

\* A revision of the Owner's directory is one document, whatever command was
\* cut short, ran out or moved the Host in between (owner_domain_assets.py).
DirectoryLineKept ==
  [][machine = "owner" => Owner!OneDocument' /\ Owner!OnlyUndone]_vars

\* The set of units this Host is given can be started, the walk over it refuses
\* no other, and a wipe reaches the state it declares (component_contract.py).
SelectionStarts ==
  machine = "selection" =>
    Selection!CallersReachServices /\ Selection!WalkIsExact /\ Selection!WipeReaches

\* What a Host's name is trusted for changes by trust-host-key alone, to one key,
\* and from another key only if the operator named the new one; what the same
\* file says of other Hosts never does (host_keys.py, controller.py:848).
TrustNamed == [][machine = "link" => Link!TrustNamed]_vars

\* A release is uploaded over the link it reported, to its last call, and over a
\* cable where the Host asks for one (transport.py:97, release_transaction.py:509).
UploadKeepsLink == machine = "link" => Link!OverReported

\* Faults end, and the command run again puts the Host right, or refuses for
\* a reason only a person can remove.
UpkeepEnds ==
  []<>CASE machine = "source" -> x5 \/ Source!HalfWiped
        [] machine = "kernel" -> x4
        [] machine = "credentials" -> Credentials!Healthy \/ Credentials!Refused
        [] machine = "board" -> Foundation!Provisioned \/ Foundation!Obstructed
        [] machine = "artifacts" -> Artifact!Served \/ Artifact!Refused
        [] machine = "owner" -> Owner!Delivered \/ Owner!Refused
        [] machine = "selection" -> Selection!Concluded
        [] machine = "link" -> Link!Trusts \/ Link!Obstructed
=============================================================================
