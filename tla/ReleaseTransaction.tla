------------------------ MODULE ReleaseTransaction ------------------------
(***************************************************************************)
(* One release cutover as the workstation drives it: ReleaseTransaction.   *)
(* deploy (release_transaction.py), ReleaseBundle.prepare                  *)
(* (release_bundle.py) and the controller's `abandon`, composed with the   *)
(* Host handlers of ReleaseHost.                                           *)
(*                                                                         *)
(* Every action that talks to the Host is the conjunction of one handler   *)
(* and of what the driver does with the answer.  Where the answer may be   *)
(* lost the handler has run all the same and the driver goes down its      *)
(* failure path, which is exactly why a failure path may find the Host     *)
(* further along than the driver believes.                                 *)
(***************************************************************************)
EXTENDS ReleaseHost

CONSTANTS
  Sealer,     \* the operators whose workstation holds the sealed bundles
  MaxDeploys  \* how many deploys the run starts

ASSUME TransactionAssumption ==
  /\ Sealer \subseteq Operator
  /\ MaxDeploys \in Nat

VARIABLES
  op,         \* what each operator's `deploy` call knows
  deploys     \* deploys started so far (the bound of the model)

vars == <<hostVars, op, deploys>>

Outcome == {"none", "refused", "dry_run", "activated", "forward_fix", "failed",
            "cleanup_failed", "host_restore_failed", "unrecorded", "died"}

\* The phases of bundles.prepare: a failure there aborts the candidate itself.
Preparing == {"guard", "upload", "build", "building"}

Phase == {"idle", "reclaim", "dry_run", "retain", "preconditions", "snapshot",
          "stage", "refresh", "activate", "activating", "gate", "doctor",
          "rollback", "restore_host", "finalize", "commit", "restore", "abort"}
         \cup Preparing

\* The locals of deploy(), with what the call printed (outcome) and, for the
\* properties only, the graph and the configuration the candidate was prepared
\* against (before).
Call == [pc : Phase, release : Release, mode : Mode, receipt : Nat,
         prev : [Component -> Release],
         barrier : BOOLEAN, gates : BOOLEAN, gateError : BOOLEAN, restored : BOOLEAN,
         activation : {"none", "activated", "forward_fix_required"},
         outcome : Outcome,
         before : [links : [Component -> Release], config : [HostFile -> Release]]]

Resting == [pc |-> "idle", release |-> Installed, mode |-> "reversible",
            receipt |-> 0, prev |-> Everywhere(Installed),
            barrier |-> FALSE, gates |-> FALSE, gateError |-> FALSE, restored |-> FALSE,
            activation |-> "none", outcome |-> "none",
            before |-> [links |-> Everywhere(Installed), config |-> Rendered(Installed)]]

TypeOK ==
  /\ HostTypeOK
  /\ deploys \in 0..MaxDeploys
  /\ op \in [Operator -> Call]
  /\ \A o \in Operator : op[o].receipt \in 0..Len(receipts)

Init == HostInit /\ op = [o \in Operator |-> Resting] /\ deploys = 0

-----------------------------------------------------------------------------
At(o, pc) == op[o].pc = pc /\ UNCHANGED deploys

Goto(o, pc) == op' = [op EXCEPT ![o].pc = pc]

\* The call is over.  The locals go with it; the result is what was printed.
End(o, outcome) ==
  op' = [op EXCEPT ![o] = [Resting EXCEPT !.release = op[o].release,
                                          !.outcome = outcome,
                                          !.before  = op[o].before]]

\* The exception handlers: prepare aborts by itself, deploy first puts the Host
\* layer back, and neither is done once the gates are passed.
Fail(o) ==
  CASE op[o].pc = "reclaim" -> End(o, "refused")
    [] op[o].pc = "restore" -> End(o, "host_restore_failed")
    [] op[o].pc = "abort"   -> End(o, "cleanup_failed")
    [] op[o].pc \in Preparing -> Goto(o, "abort")
    [] op[o].pc \notin {"reclaim", "restore", "abort"} \cup Preparing ->
         IF op[o].receipt # 0 /\ ~op[o].restored /\ ~op[o].barrier /\ ~op[o].gates
         THEN Goto(o, "restore")
         ELSE IF ~op[o].gates THEN Goto(o, "abort")
         ELSE End(o, "unrecorded")

\* The Host answered, and the driver does `next`; or nobody heard it.
Answer(o, next) == next \/ ("answer_lost" \in Faults /\ Fail(o))

-----------------------------------------------------------------------------
(* Preparation: ReleaseBundle.prepare                                      *)

\* Mutant: the caller's mode is never compared with the bundle's.
BeginUnchecked(o, r, mode) ==
  /\ op[o].pc = "idle"
  /\ deploys < MaxDeploys
  /\ deploys' = deploys + 1
  /\ op' = [op EXCEPT ![o] = [Resting EXCEPT
       !.pc = "reclaim", !.release = r, !.mode = mode]]
  /\ UNCHANGED hostVars

\* A workstation with the bundle checks the mode against it, one without
\* takes the caller's word.
Begin(o, r, mode) ==
  /\ op[o].pc = "idle"
  /\ deploys < MaxDeploys
  /\ deploys' = deploys + 1
  /\ o \in Sealer => mode = SealedMode(r)
  /\ op' = [op EXCEPT ![o] = [Resting EXCEPT
       !.pc = "reclaim", !.release = r, !.mode = mode]]
  /\ UNCHANGED hostVars

Prepare(o) ==
  /\ At(o, "reclaim")
  /\ \/ /\ Reclaim("prepare", op[o].release)
        /\ Answer(o, op' = [op EXCEPT
             ![o].pc = IF o \in Sealer THEN "guard" ELSE "dry_run",
             ![o].before = [links |-> links, config |-> config]])
     \/ (ReclaimShort(op[o].release) \/ ReclaimFails("prepare", op[o].release)) /\ Fail(o)

ClaimUpload(o) ==
  /\ At(o, "guard")
  /\ \/ GuardUpload(op[o].release) /\ Answer(o, Goto(o, "upload"))
     \/ Prepared(op[o].release) /\ UNCHANGED hostVars /\ Answer(o, Goto(o, "dry_run"))

CloseUpload(o) ==
  /\ At(o, "upload")
  /\ \/ FinalizeUpload(op[o].release) /\ Answer(o, Goto(o, "build"))
     \/ UNCHANGED hostVars /\ Fail(o)

StartBuild(o) ==
  /\ At(o, "build")
  /\ \/ BuildBegin(op[o].release) /\ Goto(o, "building")
     \/ UNCHANGED hostVars /\ Fail(o)

\* The Host finished the build, or the connection to it is gone.
Built(o) ==
  /\ At(o, "building")
  /\ UNCHANGED hostVars
  /\ IF building = op[o].release
     THEN "answer_lost" \in Faults /\ Fail(o)
     ELSE IF disk[op[o].release] = "sealed" THEN Answer(o, Goto(o, "dry_run")) ELSE Fail(o)

-----------------------------------------------------------------------------
(* The cutover: ReleaseTransaction.deploy                                  *)

\* The sealed command only exists, and only agrees, in a sealed release.
DryRun(o) ==
  /\ At(o, "dry_run")
  /\ UNCHANGED hostVars
  /\ \/ disk[op[o].release] = "sealed" /\ (Goto(o, "retain") \/ Goto(o, "preconditions"))
     \/ Fail(o)

Retain(o) ==
  /\ At(o, "retain")
  /\ \/ Reclaim("retain", op[o].release) /\ Answer(o, End(o, "dry_run"))
     \/ ReclaimFails("retain", op[o].release) /\ Fail(o)

\* Backup before the barrier, declared credentials, service identities.
Preconditions(o) ==
  /\ At(o, "preconditions")
  /\ UNCHANGED hostVars
  /\ Goto(o, "snapshot") \/ Fail(o)

Snapshot(o) ==
  /\ At(o, "snapshot")
  /\ \/ /\ CutoverSnapshot(op[o].release, op[o].mode)
        /\ Answer(o, op' = [op EXCEPT ![o].pc = "stage", ![o].receipt = Len(receipts')])
     \/ UNCHANGED hostVars /\ Fail(o)

Stage(o) ==
  /\ At(o, "stage")
  /\ StageConfiguration(op[o].release)
  /\ Goto(o, "refresh") \/ Fail(o)

Refresh(o) ==
  /\ At(o, "refresh")
  /\ \/ RefreshConfiguration(op[o].release) /\ Answer(o, Goto(o, "activate"))
     \/ RefreshFails(op[o].release) /\ Fail(o)

Activate(o) ==
  /\ At(o, "activate")
  /\ \/ ActivateBegin(o, op[o].release) /\ Goto(o, "activating")
     \/ UNCHANGED hostVars /\ Fail(o)

\* The answer of the activator is read, and its transaction id names the link
\* snapshot that a rollback of this activation would use.
Activated(o) ==
  /\ At(o, "activating")
  /\ act[o].pc = "idle"
  /\ UNCHANGED hostVars
  /\ LET result == act[o].result
         mode == SealedMode(op[o].release)
         forward == [op EXCEPT ![o].barrier = TRUE, ![o].gates = TRUE]
     IN \/ /\ result = "activated" /\ mode = op[o].mode
           /\ op' = [(IF mode = "forward-only" THEN forward ELSE op) EXCEPT
                ![o].pc = "gate", ![o].prev = act[o].prev, ![o].activation = result]
        \/ /\ result = "forward_fix_required"
           /\ op' = [forward EXCEPT ![o].pc = "finalize", ![o].gateError = TRUE,
                                    ![o].activation = result]
        \/ result = "activated" /\ mode # op[o].mode /\ Fail(o)
        \/ result = "error" /\ Fail(o)

\* The connection breaks, or the timeout is over, while the activator works on
\* or after it ended.
LoseActivation(o) ==
  /\ At(o, "activating")
  /\ "answer_lost" \in Faults
  /\ UNCHANGED hostVars
  /\ Fail(o)

\* Mutant: a failed gate is undone beyond the barrier too.
GateFailsUndone(o) ==
  op' = [op EXCEPT ![o].pc = "rollback", ![o].gateError = TRUE]

\* Beyond the barrier a failed gate is recorded; before it, it is undone.
GateFails(o) ==
  op' = [op EXCEPT ![o].pc = IF op[o].mode = "forward-only" THEN "finalize" ELSE "rollback",
                   ![o].gateError = TRUE]

Gate(o) ==
  /\ At(o, "gate")
  /\ \/ ConvergeRunning /\ (Goto(o, "doctor") \/ ("answer_lost" \in Faults /\ GateFails(o)))
     \/ ConvergeFails /\ GateFails(o)

\* Mutant: the previous release is swept before the cutover is on record.
DoctorCommits(o) ==
  /\ At(o, "doctor")
  /\ UNCHANGED hostVars
  /\ Goto(o, "commit") \/ GateFails(o)

Doctor(o) ==
  /\ At(o, "doctor")
  /\ UNCHANGED hostVars
  /\ Goto(o, "finalize") \/ GateFails(o)

\* Mutant: the components go back and the Host layer does not.
RollbackOnly(o) ==
  /\ At(o, "rollback")
  /\ ActivatorRollback(op[o].prev) \/ ActivatorRollbackFails(op[o].prev)
  /\ op' = [op EXCEPT ![o].pc = "abort", ![o].restored = TRUE]

\* Whatever the component rollback said, the Host layer follows (`finally`).
Rollback(o) ==
  /\ At(o, "rollback")
  /\ ActivatorRollback(op[o].prev) \/ ActivatorRollbackFails(op[o].prev)
  /\ Goto(o, "restore_host")

RestoreHost(o) ==
  /\ At(o, "restore_host")
  /\ \/ /\ CutoverRestore(op[o].receipt)
        /\ Answer(o, op' = [op EXCEPT ![o].pc = "abort", ![o].restored = TRUE])
     \/ CutoverRestoreFails(op[o].receipt) /\ Fail(o)

Finalize(o) ==
  /\ At(o, "finalize")
  /\ \/ /\ CutoverFinalize(op[o].receipt, op[o].activation)
        /\ Answer(o, op' = [op EXCEPT ![o].pc = "commit", ![o].gates = TRUE])
     \/ CutoverFinalizeFails(op[o].receipt) /\ Fail(o)

Commit(o) ==
  /\ At(o, "commit")
  /\ \/ /\ Reclaim("commit", op[o].release)
        /\ Answer(o, End(o, IF op[o].gateError THEN "forward_fix" ELSE "activated"))
     \/ ReclaimFails("commit", op[o].release) /\ Fail(o)

-----------------------------------------------------------------------------
(* The exception path, and what ends a call from outside                   *)

Restore(o) ==
  /\ At(o, "restore")
  /\ \/ /\ CutoverRestore(op[o].receipt)
        /\ Answer(o, Goto(o, "abort"))
     \/ CutoverRestoreFails(op[o].receipt) /\ Fail(o)

\* Mutant: the cleanup is repeated until the Host accepts it.
AbortRetries(o) ==
  /\ At(o, "abort")
  /\ \/ Reclaim("abort", op[o].release) /\ Answer(o, End(o, "failed"))
     \/ ReclaimFails("abort", op[o].release) /\ UNCHANGED op

Abort(o) ==
  /\ At(o, "abort")
  /\ \/ Reclaim("abort", op[o].release) /\ Answer(o, End(o, "failed"))
     \/ ReclaimFails("abort", op[o].release) /\ Fail(o)

OperatorDies(o) ==
  /\ "operator_dies" \in Faults
  /\ op[o].pc # "idle"
  /\ End(o, "died")
  /\ UNCHANGED <<hostVars, deploys>>

\* `eidolon-ops abandon --release-id r`, from any workstation, meant for a
\* candidate whose driver is gone.
Abandon(r) ==
  /\ "early_abandon" \in Faults
     \/ \A o \in Operator : op[o].pc # "idle" => op[o].release # r
  /\ Reclaim("abort", r) \/ ReclaimTorn("abort", r)
  /\ UNCHANGED <<op, deploys>>

\* `eidolon-ops rollback --release-id r --snapshot s`, by hand: the activator of
\* a release whose descriptor is there puts back the links some activation
\* found.  Neither the Host files nor the marker nor a driver is looked at.
RollbackByHand(o, r) ==
  /\ "rolls_back" \in Faults
  /\ Prepared(r)
  /\ act[o].pc = "idle" /\ act[o].result # "none"
  /\ ActivatorRollback(act[o].prev) \/ ActivatorRollbackFails(act[o].prev)
  /\ UNCHANGED <<op, deploys>>

\* Nobody deploys any more: the only way this system comes to rest.
Rest ==
  /\ deploys = MaxDeploys
  /\ \A o \in Operator : op[o].pc = "idle"
  /\ UNCHANGED vars

Driver(o) ==
  \/ Prepare(o) \/ ClaimUpload(o) \/ CloseUpload(o) \/ StartBuild(o) \/ Built(o)
  \/ DryRun(o) \/ Retain(o) \/ Preconditions(o) \/ Snapshot(o) \/ Stage(o)
  \/ Refresh(o) \/ Activate(o) \/ Activated(o) \/ LoseActivation(o)
  \/ Gate(o) \/ Doctor(o) \/ Rollback(o) \/ RestoreHost(o) \/ Finalize(o)
  \/ Commit(o) \/ Restore(o) \/ Abort(o)

Next ==
  \/ \E o \in Operator : Driver(o) \/ OperatorDies(o)
  \/ \E o \in Operator, r \in Release, mode \in Mode : Begin(o, r, mode)
  \/ \E r \in Release : Abandon(r)
  \/ \E o \in Operator, r \in Release : RollbackByHand(o, r)
  \/ HostNext /\ UNCHANGED <<op, deploys>>
  \/ Rest

Spec == Init /\ [][Next]_vars

\* Every remote call carries a timeout, the activator's readiness gate and the
\* native build have their own, so each of the three gets to its next step.
FairSpec ==
  /\ Spec
  /\ \A o \in Operator : WF_vars(Driver(o)) /\ WF_vars(Activator(o) /\ UNCHANGED <<op, deploys>>)
  /\ WF_vars(BuildEnd /\ UNCHANGED <<op, deploys>>)

-----------------------------------------------------------------------------
(* Properties                                                              *)

\* The release of the last cutover on record: it got through its gate, or it
\* crossed the barrier.
OnRecord ==
  LET recorded == {i \in DOMAIN receipts : receipts[i].migration # "not_started"}
  IN IF recorded = {} THEN Installed
     ELSE receipts[CHOOSE i \in recorded : \A j \in recorded : j <= i].release

\* Every release a link names or a process executes is whole on disk, in every
\* interleaving of sweeps (torn ones too), builds, switches and units that
\* systemd restarts: what reclaim's two locks and its live set are for.
LinkedAndRunningIntact ==
  \A c \in Component : /\ disk[links[c]] = "sealed"
                       /\ running[c] # NoRelease => disk[running[c]] = "sealed"

\* The link snapshot a failed gate would go back to is still whole while the
\* gate is open: the commit sweep comes after it, never before.
RollbackTargetKept ==
  \A o \in Operator : op[o].pc \in {"gate", "doctor", "rollback"} =>
    \A c \in Component : disk[op[o].prev[c]] = "sealed"

\* Until another cutover is on record, the release of the last one stays on the
\* Host, across candidates that fail anywhere.
OnRecordKept == disk[OnRecord] = "sealed"

\* Once the candidate's start migrated persistent state, no link goes back to
\* an interpreter that reads the old state, whichever way the deploy ends.
BarrierKeepsLinks == crossed # NoRelease => links = Everywhere(crossed)

\* And no Host file is left to the old interpretation: each is the migrated
\* release's, or that of a candidate whose deploy is under way.
BarrierKeepsConfig ==
  crossed # NoRelease => \A f \in HostFile :
    \/ config[f] = crossed
    \/ \E o \in Operator : op[o].pc # "idle" /\ config[f] = op[o].release

\* A deploy that says it failed, and not that its cleanup did, has put back the
\* links and the Host files it found, whatever failed on the way.
FailedIsUndone ==
  \A o \in Operator : op[o].outcome = "failed" =>
    links = op[o].before.links /\ config = op[o].before.config

\* Code and Host configuration are one cutover: however a deploy ends, both
\* halves are on one release.
OneCutover ==
  \A o \in Operator :
    op[o].outcome \notin {"none", "died"} =>
      \E r \in Release : links = Everywhere(r) /\ config = Rendered(r)

\* A gate is passed on the candidate, never on what an old process answered.
JudgedOnCandidate ==
  [][\A o \in Operator :
       op[o].pc = "doctor" /\ op'[o].pc = "finalize" /\ ~op'[o].gateError =>
         running = Everywhere(op[o].release) /\ ingress = Rendered(op[o].release)]_vars

\* `activated` is one release everywhere: in the links, the processes, the
\* files, the loaded ingress configuration and the receipt.
ActivatedIsWhole ==
  [][\A o \in Operator :
       op[o].pc = "commit" /\ op'[o].outcome = "activated" =>
         LET r == op[o].release IN
           /\ links = Everywhere(r) /\ running = Everywhere(r)
           /\ config = Rendered(r) /\ ingress = Rendered(r)
           /\ receipts[op[o].receipt].status = "activated"
           /\ secrets' = {} /\ marker' = NoRelease]_vars

\* Every deploy ends: no lock, no lost answer and no failure on a failure path
\* leaves the driver waiting for the Host.
DeployEnds == \A o \in Operator : op[o].pc # "idle" ~> op[o].pc = "idle"

-----------------------------------------------------------------------------
(* The inductive strengthening of TypeOK and LinkedAndRunningIntact: what    *)
(* an activator in flight may still link is whole, a build is not, and the   *)
(* driver only uses a receipt or an activation it has.                       *)

InFlightIntact ==
  \A o \in Operator : act[o].pc # "idle" =>
    /\ disk[act[o].release] = "sealed"
    /\ \A c \in Component : disk[act[o].prev[c]] = "sealed"

BuildUnsealed == building # NoRelease => disk[building] = "unsealed"

Snapshotted == {"stage", "refresh", "activate", "activating", "gate", "doctor",
                "rollback", "restore_host", "finalize", "commit", "restore"}

LocalsReady ==
  \A o \in Operator :
    /\ op[o].pc \in Snapshotted => op[o].receipt # 0
    /\ op[o].pc \in {"gate", "doctor", "finalize"} => op[o].activation # "none"
    /\ op[o].pc = "activating" /\ act[o].pc = "idle" => act[o].result # "none"

IInv ==
  /\ TypeOK
  /\ LinkedAndRunningIntact
  /\ InFlightIntact
  /\ BuildUnsealed
  /\ LocalsReady
=============================================================================
