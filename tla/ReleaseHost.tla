---------------------------- MODULE ReleaseHost ----------------------------
(***************************************************************************)
(* What one Pi Host keeps about releases, and the Host-agent handlers that *)
(* change it: the release collector (hostagent/reclamation.py), the upload *)
(* staging (hostagent/staging.py), the Host-layer configuration            *)
(* (hostagent/host_application.py), the cutover snapshot and receipt       *)
(* (hostagent/cutover.py) and the convergence of running processes onto    *)
(* the linked release (hostagent/runtime_release.py).  The sealed release  *)
(* activator and prepare_target.py are other repositories' programs; they  *)
(* are modelled from how this repository calls them and are marked         *)
(* external.                                                               *)
(*                                                                         *)
(* The module declares the Host's state and one operator per handler; who  *)
(* calls a handler, in which order, and what happens to the answer is      *)
(* ReleaseTransaction's business.                                          *)
(***************************************************************************)
EXTENDS Naturals, Sequences, FiniteSets

CONSTANTS
  Release,    \* release ids
  Component,  \* components with a link in /opt/eidolon/current and a unit
  HostFile,   \* the Host-layer configuration files a release refreshes
  Operator,   \* workstations that may drive this Host
  Installed,  \* the release the Host serves at first
  ForwardOnly,\* releases whose sealed descriptor says forward-only
  NoRelease,  \* "none", for the marker, the builder and a stopped unit
  Faults      \* which of FaultKind may happen

FaultKind == { "answer_lost",       \* the call ran, its answer never arrived
               "operator_dies",     \* the workstation process is killed
               "activator_dies",    \* the activator process goes down
               "host_reboots",      \* and with it every process and /run
               "activator_breaks",  \* a restore by the activator fails
               "unit_reexec",       \* systemd restarts a unit by itself
               "sweep_torn",        \* rmtree stops in the middle
               "receipt_refused",   \* finalize fails although the graph is right
               "restore_breaks",    \* the restore of the Host layer fails
               "early_abandon",     \* `abandon` of a candidate still driven
               "rolls_back" }       \* `rollback` by hand, whoever deploys

ASSUME ReleaseAssumption ==
  /\ Installed \in Release
  /\ NoRelease \notin Release
  /\ ForwardOnly \subseteq Release
  /\ Faults \subseteq FaultKind

VARIABLES
  disk,      \* per release directory: what /opt/eidolon/releases holds
  upload,    \* per release: its bundle directory in /var/tmp
  secrets,   \* releases with a private configuration stage in /var/tmp
  marker,    \* the candidate marker, or NoRelease
  building,  \* what prepare_target.py builds (holds the prepare lock)
  links,     \* the release each current link names
  running,   \* the release each unit's process executes from
  act,       \* each operator's activator process and the answer it left
  crossed,   \* the release whose start migrated state, in the last activation
  config,    \* the release each Host-layer file was rendered for
  ingress,   \* the configuration the ingress process has loaded
  receipts   \* the cutover documents, in order of creation

storeVars == <<disk, upload, secrets, marker, building>>
graphVars == <<links, running, act, crossed>>
layerVars == <<config, ingress, receipts>>
hostVars  == <<storeVars, graphVars, layerVars>>

Everywhere(r) == [c \in Component |-> r]
Rendered(r)   == [f \in HostFile |-> r]

Mode == {"reversible", "forward-only"}

\* The cutover mode is sealed into the bundle; a caller names one as well.
SealedMode(r) == IF r \in ForwardOnly THEN "forward-only" ELSE "reversible"

\* A cutover document, and what an activator process knows.
Document == [release : Release, mode : Mode,
             status : {"snapshotted", "host_restored", "activated",
                       "forward_fix_required"},
             migration : {"not_started", "not_mutated", "crossed"},
             targets : [Component -> Release], files : [HostFile -> Release]]

Activation == [pc : {"idle", "switching", "started"}, release : Release,
               prev : [Component -> Release],
               result : {"none", "activated", "forward_fix_required", "error"}]

HostTypeOK ==
  /\ disk \in [Release -> {"absent", "unsealed", "sealed", "torn"}]
  /\ upload \in [Release -> {"absent", "marked", "closed"}]
  /\ secrets \subseteq Release
  /\ marker \in Release \cup {NoRelease}
  /\ building \in Release \cup {NoRelease}
  /\ links \in [Component -> Release]
  /\ running \in [Component -> Release \cup {NoRelease}]
  /\ act \in [Operator -> Activation]
  /\ crossed \in Release \cup {NoRelease}
  /\ config \in [HostFile -> Release]
  /\ ingress \in [HostFile -> Release]
  /\ receipts \in Seq(Document)

\* A Host that was installed and whose install was committed.
HostInit ==
  /\ disk = [r \in Release |-> IF r = Installed THEN "sealed" ELSE "absent"]
  /\ upload = [r \in Release |-> "absent"]
  /\ secrets = {}
  /\ marker = NoRelease
  /\ building = NoRelease
  /\ links = Everywhere(Installed)
  /\ running = Everywhere(Installed)
  /\ act = [o \in Operator |-> [pc |-> "idle", release |-> Installed,
                                prev |-> Everywhere(Installed), result |-> "none"]]
  /\ crossed = NoRelease
  /\ config = Rendered(Installed)
  /\ ingress = Rendered(Installed)
  /\ receipts = <<>>

-----------------------------------------------------------------------------
(* The collector: hostagent/reclamation.py                                 *)

ReleaseLockFree == \A o \in Operator : act[o].pc = "idle"
PrepareLockFree == building = NoRelease

ActiveIds == {links[c] : c \in Component}

\* Mutant: the sweep only looks at the links.
LiveIgnored == {}

\* Release ids some live process executes from, whatever the links say.
Live == {running[c] : c \in Component} \ {NoRelease}

\* The sealing markers are present; a torn removal can leave them behind.
Prepared(r) == disk[r] \in {"sealed", "torn"}

Protected(phase, r) ==
  CASE phase = "commit" -> {r}
    [] phase = "abort"  -> ActiveIds
    [] OTHER            -> ActiveIds \cup {r}

\* Mutant: commit keeps the candidate's private stage.
ProtectedStagingKept(phase, r) == IF phase = "abort" THEN {} ELSE {r}

ProtectedStaging(phase, r) == IF phase \in {"commit", "abort"} THEN {} ELSE {r}

Obsolete(phase, r) ==
  {d \in Release : disk[d] # "absent"} \ (Protected(phase, r) \cup Live)

\* Mutants: the marker of another candidate is not looked at; an abort does not
\* look at the links.
AcceptsAnyMarker(phase, r) ==
  /\ ReleaseLockFree /\ PrepareLockFree
  /\ \A c \in Component : disk[links[c]] # "absent"
  /\ phase = "commit" => ActiveIds = {r} /\ Prepared(r)
  /\ phase = "abort" => r \notin ActiveIds
AcceptsLinked(phase, r) ==
  /\ ReleaseLockFree /\ PrepareLockFree
  /\ marker \in {NoRelease, r}
  /\ phase = "commit" => ActiveIds = {r} /\ Prepared(r)

\* Both locks are taken without waiting, every link must resolve, and a
\* marker of another candidate refuses every phase.
Accepts(phase, r) ==
  /\ ReleaseLockFree /\ PrepareLockFree
  /\ \A c \in Component : disk[links[c]] # "absent"
  /\ marker \in {NoRelease, r}
  /\ phase = "commit" => ActiveIds = {r} /\ Prepared(r)
  /\ phase = "abort" => r \notin ActiveIds

CleanStaging(phase, r) ==
  /\ upload' = [d \in Release |-> IF d \in ProtectedStaging(phase, r)
                                  THEN upload[d] ELSE "absent"]
  /\ secrets' = secrets \cap ProtectedStaging(phase, r)

CleanReleases(phase, r) ==
  disk' = [d \in Release |-> IF d \in Obsolete(phase, r) THEN "absent" ELSE disk[d]]

\* The whole handler.  Only a prepare that found enough space writes the
\* marker; the three other phases remove it, after everything was swept.
Reclaim(phase, r) ==
  /\ Accepts(phase, r)
  /\ CleanReleases(phase, r)
  /\ CleanStaging(phase, r)
  /\ marker' = IF phase = "prepare" THEN r ELSE NoRelease
  /\ UNCHANGED <<building, graphVars, layerVars>>

\* The sweep was done and the capacity gate said no.
ReclaimShort(r) ==
  /\ Accepts("prepare", r)
  /\ CleanReleases("prepare", r)
  /\ CleanStaging("prepare", r)
  /\ UNCHANGED <<marker, building, graphVars, layerVars>>

\* rmtree raised: some directories are gone, one is half gone, the staging
\* directories and the marker are as they were.
ReclaimTorn(phase, r) ==
  /\ "sweep_torn" \in Faults
  /\ Accepts(phase, r)
  /\ \E hit \in Obsolete(phase, r) :
       \E gone \in SUBSET (Obsolete(phase, r) \ {hit}),
          left \in IF Prepared(hit) THEN {"unsealed", "torn"} ELSE {"unsealed"} :
         disk' = [d \in Release |-> IF d \in gone THEN "absent"
                                    ELSE IF d = hit THEN left ELSE disk[d]]
  /\ UNCHANGED <<upload, secrets, marker, building, graphVars, layerVars>>

ReclaimRefused(phase, r) == ~Accepts(phase, r) /\ UNCHANGED hostVars

ReclaimFails(phase, r) == ReclaimRefused(phase, r) \/ ReclaimTorn(phase, r)

-----------------------------------------------------------------------------
(* Upload staging: hostagent/staging.py, and the target-native build       *)

\* Claims the bundle directory, or finds the state an earlier upload left.
GuardUpload(r) ==
  /\ ~Prepared(r)
  /\ upload' = [upload EXCEPT ![r] = IF @ = "absent" THEN "marked" ELSE @]
  /\ UNCHANGED <<disk, secrets, marker, building, graphVars, layerVars>>

\* The uploaded shape and digest are right: the marker file is removed.
FinalizeUpload(r) ==
  /\ upload[r] \in {"marked", "closed"}
  /\ upload' = [upload EXCEPT ![r] = "closed"]
  /\ UNCHANGED <<disk, secrets, marker, building, graphVars, layerVars>>

\* prepare_target.py (external): the tree is visible before it is finished.
BuildBegin(r) ==
  /\ PrepareLockFree
  /\ upload[r] = "closed"
  /\ ~Prepared(r)
  /\ building' = r
  /\ disk' = [disk EXCEPT ![r] = "unsealed"]
  /\ UNCHANGED <<upload, secrets, marker, graphVars, layerVars>>

BuildEnd ==
  /\ building # NoRelease
  /\ \E left \in {"sealed", "unsealed"} : disk' = [disk EXCEPT ![building] = left]
  /\ building' = NoRelease
  /\ UNCHANGED <<upload, secrets, marker, graphVars, layerVars>>

-----------------------------------------------------------------------------
(* The Host layer: hostagent/host_application.py                           *)

\* cleanup-stage, then the rendered files are uploaded.
StageConfiguration(r) ==
  /\ secrets' = secrets \cup {r}
  /\ UNCHANGED <<disk, upload, marker, building, graphVars, layerVars>>

\* Validation on every interpreter precedes the first write; then the files
\* are replaced one by one and no process is restarted.
RefreshConfiguration(r) ==
  /\ r \in secrets
  /\ disk[r] = "sealed"
  /\ config' = Rendered(r)
  /\ UNCHANGED <<ingress, receipts, storeVars, graphVars>>

\* It failed before the first replacement, after some of them, or after the
\* last one, in the reload that follows.
RefreshFails(r) ==
  /\ \E written \in SUBSET HostFile :
       /\ written # {} => r \in secrets /\ disk[r] = "sealed"
       /\ config' = [f \in HostFile |-> IF f \in written THEN r ELSE config[f]]
  /\ UNCHANGED <<ingress, receipts, storeVars, graphVars>>

-----------------------------------------------------------------------------
(* The cutover document: hostagent/cutover.py                              *)

CutoverSnapshot(r, mode) ==
  /\ receipts' = Append(receipts,
       [release |-> r, mode |-> mode, status |-> "snapshotted",
        migration |-> "not_started", targets |-> links, files |-> config])
  /\ UNCHANGED <<config, ingress, storeVars, graphVars>>

\* A forward-only document must still prove that nothing was switched.
Restorable(i) ==
  receipts[i].mode = "forward-only" =>
    /\ receipts[i].targets = links
    /\ receipts[i].migration = "not_started"
    /\ receipts[i].status \in {"snapshotted", "host_restored"}

\* All files back, the ingress and the manager restarted on them.
CutoverRestore(i) ==
  /\ Restorable(i)
  /\ config' = receipts[i].files
  /\ ingress' = receipts[i].files
  /\ receipts' = [receipts EXCEPT ![i].status = "host_restored"]
  /\ UNCHANGED <<storeVars, graphVars>>

\* Refused before the first write, or stopped after some of the writes or
\* before the restarted processes answered.
CutoverRestoreFails(i) ==
  /\ "restore_breaks" \in Faults \/ ~Restorable(i)
  /\ \/ UNCHANGED <<config, ingress>>
     \/ /\ Restorable(i)
        /\ \E back \in SUBSET HostFile :
             config' = [f \in HostFile |->
                          IF f \in back THEN receipts[i].files[f] ELSE config[f]]
        /\ UNCHANGED ingress
  /\ UNCHANGED <<receipts, storeVars, graphVars>>

\* The receipt joins both halves only if every link names the release and the
\* document was written for the mode the release was activated in.
Recordable(i) == /\ ActiveIds = {receipts[i].release}
                 /\ receipts[i].mode = SealedMode(receipts[i].release)

CutoverFinalize(i, status) ==
  /\ Recordable(i)
  /\ receipts' = [receipts EXCEPT
       ![i].status = status,
       ![i].migration = IF receipts[i].mode = "forward-only"
                        THEN "crossed" ELSE "not_mutated"]
  /\ UNCHANGED <<config, ingress, storeVars, graphVars>>

CutoverFinalizeFails(i) ==
  /\ "receipt_refused" \in Faults \/ ~Recordable(i)
  /\ UNCHANGED hostVars

-----------------------------------------------------------------------------
(* Running processes: hostagent/runtime_release.py                         *)

\* Mutant: a process that answers is taken for one of the linked release.
StaleNever == {}

Stale == {c \in Component : running[c] # NoRelease /\ running[c] \notin ActiveIds}

\* One linked release, the ingress restarted, every stale unit restarted, and
\* the second reading finds nothing stale.
ConvergeRunning ==
  /\ Cardinality(ActiveIds) = 1
  /\ ingress' = config
  /\ running' = [c \in Component |-> IF c \in Stale THEN links[c] ELSE running[c]]
  /\ UNCHANGED <<storeVars, links, act, crossed, config, receipts>>

\* The ingress or one of the restarts failed, or the links disagree.
ConvergeFails ==
  /\ \/ UNCHANGED <<ingress, running>>
     \/ /\ Cardinality(ActiveIds) = 1
        /\ ingress' = config
        /\ \E again \in SUBSET Stale :
             running' = [c \in Component |-> IF c \in again THEN links[c] ELSE running[c]]
  /\ UNCHANGED <<storeVars, links, act, crossed, config, receipts>>

\* systemd (external) starts a unit out of the release its link names.
UnitReexec(c) ==
  /\ "unit_reexec" \in Faults
  /\ running[c] # links[c]
  /\ running' = [running EXCEPT ![c] = links[c]]
  /\ UNCHANGED <<storeVars, links, act, crossed, layerVars>>

-----------------------------------------------------------------------------
(* The sealed activator (external): snapshot, quiesce, links, start, ready.  *)
(* Between its first and its last step it holds the release lock.            *)

ActivateBegin(o, r) ==
  /\ ReleaseLockFree
  /\ disk[r] = "sealed"
  /\ act' = [act EXCEPT ![o] = [pc |-> "switching", release |-> r, prev |-> links,
                                result |-> "none"]]
  /\ crossed' = NoRelease
  /\ running' = [c \in Component |-> NoRelease]
  /\ UNCHANGED <<storeVars, links, layerVars>>

SwitchLink(o, c) ==
  /\ act[o].pc = "switching"
  /\ links[c] # act[o].release
  /\ links' = [links EXCEPT ![c] = act[o].release]
  /\ UNCHANGED <<storeVars, running, act, crossed, layerVars>>

\* Starting a unit that already came back by itself changes nothing.
StartUnits(o) ==
  /\ act[o].pc = "switching"
  /\ links = Everywhere(act[o].release)
  /\ running' = [c \in Component |-> IF running[c] = NoRelease THEN links[c] ELSE running[c]]
  /\ crossed' = IF act[o].release \in ForwardOnly THEN act[o].release ELSE NoRelease
  /\ act' = [act EXCEPT ![o].pc = "started"]
  /\ UNCHANGED <<storeVars, links, layerVars>>

Answers(o, result) ==
  act' = [act EXCEPT ![o].pc = "idle", ![o].result = result]

BecomeReady(o) ==
  /\ act[o].pc = "started"
  /\ Answers(o, "activated")
  /\ UNCHANGED <<storeVars, links, running, crossed, layerVars>>

\* Not ready: the activator puts its snapshot back, unless the candidate's
\* start migrated persistent state.
ActivateRestores(o) ==
  /\ act[o].pc # "idle"
  /\ crossed = NoRelease
  /\ links' = act[o].prev
  /\ running' = act[o].prev
  /\ Answers(o, "error")
  /\ UNCHANGED <<storeVars, crossed, layerVars>>

ForwardFixRequired(o) ==
  /\ act[o].pc = "started" /\ crossed # NoRelease
  /\ Answers(o, "forward_fix_required")
  /\ UNCHANGED <<storeVars, links, running, crossed, layerVars>>

\* The process is gone and so is its lock; the graph stays as it was.
ActivatorDies(o) ==
  /\ {"activator_dies", "activator_breaks"} \cap Faults # {}
  /\ act[o].pc # "idle"
  /\ Answers(o, "error")
  /\ UNCHANGED <<storeVars, links, running, crossed, layerVars>>

\* The explicit `rollback` command of the activator, to a link snapshot.
ActivatorRollback(targets) ==
  /\ ReleaseLockFree
  /\ \A c \in Component : disk[targets[c]] = "sealed"
  /\ links' = targets
  /\ running' = targets
  /\ UNCHANGED <<storeVars, act, crossed, layerVars>>

ActivatorRollbackFails(targets) ==
  /\ \/ ~ReleaseLockFree
     \/ \E c \in Component : disk[targets[c]] # "sealed"
     \/ "activator_breaks" \in Faults
  /\ UNCHANGED hostVars

\* Both locks and the candidate marker live under /run; the links decide what
\* comes up again.
HostReboots ==
  /\ "host_reboots" \in Faults
  /\ act' = [o \in Operator |-> IF act[o].pc = "idle" THEN act[o]
                               ELSE [act[o] EXCEPT !.pc = "idle", !.result = "error"]]
  /\ running' = links
  /\ marker' = NoRelease
  /\ building' = NoRelease
  /\ ingress' = config
  /\ UNCHANGED <<disk, upload, secrets, links, crossed, config, receipts>>

Activator(o) ==
  \/ \E c \in Component : SwitchLink(o, c)
  \/ StartUnits(o)
  \/ BecomeReady(o)
  \/ ActivateRestores(o)
  \/ ForwardFixRequired(o)

HostNext ==
  \/ \E o \in Operator : Activator(o) \/ ActivatorDies(o)
  \/ BuildEnd
  \/ \E c \in Component : UnitReexec(c)
  \/ HostReboots
=============================================================================
