---------------------- MODULE ReleaseTransactionProofs ----------------------
(***************************************************************************)
(* The safety and action properties of ReleaseTransaction, for every set of *)
(* releases, components, files and operators, in four inductive invariants. *)
(*                                                                          *)
(*   IInv        for every set of faults: types, and what is linked or      *)
(*               executed is whole.  The Host's half is preserved handler   *)
(*               by handler, the driver's (the locals of deploy) action by  *)
(*               action;                                                    *)
(*   CutoverInv  whatever fails, breaks off or restarts on the way: the     *)
(*               marker a deploy left keeps every sweep, snapshot and       *)
(*               switch of another deploy away;                             *)
(*   UndoInv     what a deploy that fails still has to put back, when it    *)
(*               has the Host for itself;                                   *)
(*   RecordInv   the cutover on record and the phases in which the Host     *)
(*               stands on it, when the driver hears every answer.          *)
(***************************************************************************)
EXTENDS ReleaseTransaction, TLAPS

HostInv ==
  HostTypeOK /\ LinkedAndRunningIntact /\ InFlightIntact /\ BuildUnsealed

Phases == {"prepare", "retain", "commit", "abort"}

-----------------------------------------------------------------------------
(* The Host's handlers                                                       *)

\* A sweep removes nothing that is linked or executed, and an activator that
\* may link something else or a build excludes the sweep by its lock.
LEMMA SweepSafe ==
  ASSUME HostInv, NEW phase \in Phases, NEW r \in Release,
         Reclaim(phase, r) \/ ReclaimShort(r) \/ ReclaimTorn(phase, r)
  PROVE  HostInv'
<1> USE ReleaseAssumption
<1>1. ASSUME NEW p \in Phases, Accepts(p, r)
      PROVE  \A c \in Component : links[c] \notin Obsolete(p, r)
                                  /\ (running[c] # NoRelease => running[c] \notin Obsolete(p, r))
  <2>1. ActiveIds \subseteq Protected(p, r)
    BY <1>1 DEF Phases, Accepts, Protected
  <2>2. \A c \in Component : links[c] \in ActiveIds
    BY DEF ActiveIds
  <2>3. \A c \in Component : running[c] # NoRelease => running[c] \in Live
    BY DEF Live
  <2> QED BY <2>1, <2>2, <2>3 DEF Obsolete
<1>2. /\ UNCHANGED <<building, graphVars, layerVars>>
      /\ disk' \in [Release -> {"absent", "unsealed", "sealed", "torn"}]
      /\ upload' \in [Release -> {"absent", "marked", "closed"}]
      /\ secrets' \subseteq Release
      /\ marker' \in Release \cup {NoRelease}
  BY DEF HostInv, HostTypeOK, Reclaim, ReclaimShort, ReclaimTorn, CleanReleases, CleanStaging
<1>3. HostTypeOK'
  BY <1>2 DEF HostInv, HostTypeOK, graphVars, layerVars
<1>4. /\ ReleaseLockFree /\ PrepareLockFree
      /\ \A c \in Component : /\ disk'[links[c]] = disk[links[c]]
                              /\ running[c] # NoRelease => disk'[running[c]] = disk[running[c]]
  <2>1. CASE Reclaim(phase, r)
    BY <2>1, <1>1 DEF Reclaim, CleanReleases, Accepts, HostInv, HostTypeOK
  <2>2. CASE ReclaimShort(r)
    BY <2>2, <1>1 DEF ReclaimShort, CleanReleases, Accepts, HostInv, HostTypeOK, Phases
  <2>3. CASE ReclaimTorn(phase, r)
    <3>1. ReleaseLockFree /\ PrepareLockFree
      BY <2>3 DEF ReclaimTorn, Accepts
    <3>2. PICK hit \in Obsolete(phase, r), gone \in SUBSET Obsolete(phase, r),
               left \in {"unsealed", "torn"} :
            disk' = [d \in Release |-> IF d \in gone THEN "absent"
                                       ELSE IF d = hit THEN left ELSE disk[d]]
      BY <2>3 DEF ReclaimTorn
    <3> QED
      BY <2>3, <1>1, <3>1, <3>2 DEF ReclaimTorn, HostInv, HostTypeOK
  <2> QED BY <2>1, <2>2, <2>3
<1>5. LinkedAndRunningIntact'
  BY <1>2, <1>4 DEF LinkedAndRunningIntact, HostInv, graphVars
<1>6. InFlightIntact' /\ BuildUnsealed'
  BY <1>2, <1>4 DEF InFlightIntact, BuildUnsealed, ReleaseLockFree, PrepareLockFree, graphVars
<1> QED BY <1>3, <1>5, <1>6 DEF HostInv

\* What leaves the release directories, the graph and the build alone only
\* has to keep the types.
LEMMA LayerSafe ==
  ASSUME HostInv, HostTypeOK', UNCHANGED <<disk, building, graphVars>>
  PROVE  HostInv'
BY DEF HostInv, LinkedAndRunningIntact, InFlightIntact, BuildUnsealed, graphVars

LEMMA UploadSafe ==
  ASSUME HostInv, NEW r \in Release,
         GuardUpload(r) \/ FinalizeUpload(r) \/ StageConfiguration(r)
  PROVE  HostInv'
<1>1. HostTypeOK' /\ UNCHANGED <<disk, building, graphVars>>
  BY DEF HostInv, HostTypeOK, GuardUpload, FinalizeUpload, StageConfiguration, graphVars, layerVars
<1> QED BY <1>1, LayerSafe

\* A build only starts on a tree that nobody can have linked or executed.
LEMMA BuildSafe ==
  ASSUME HostInv, NEW r \in Release, BuildBegin(r) \/ BuildEnd
  PROVE  HostInv'
<1> USE ReleaseAssumption
<1>1. CASE BuildBegin(r)
  BY <1>1 DEF HostInv, HostTypeOK, LinkedAndRunningIntact, InFlightIntact, BuildUnsealed,
              BuildBegin, Prepared, Activation, graphVars, layerVars
<1>2. CASE BuildEnd
  BY <1>2 DEF HostInv, HostTypeOK, LinkedAndRunningIntact, InFlightIntact, BuildUnsealed,
              BuildEnd, Activation, graphVars, layerVars
<1> QED BY <1>1, <1>2

LEMMA ConfigurationSafe ==
  ASSUME HostInv, NEW r \in Release, RefreshConfiguration(r) \/ RefreshFails(r)
  PROVE  HostInv'
<1>1. HostTypeOK' /\ UNCHANGED <<disk, building, graphVars>>
  BY DEF HostInv, HostTypeOK, RefreshConfiguration, RefreshFails, Rendered, graphVars, storeVars
<1> QED BY <1>1, LayerSafe

LEMMA DocumentSafe ==
  ASSUME HostInv, NEW r \in Release, NEW mode \in Mode, CutoverSnapshot(r, mode)
  PROVE  HostInv' /\ Len(receipts') = Len(receipts) + 1
<1>1. [release |-> r, mode |-> mode, status |-> "snapshotted",
       migration |-> "not_started", targets |-> links, files |-> config] \in Document
  BY DEF HostInv, HostTypeOK, Document
<1>2. HostTypeOK' /\ UNCHANGED <<disk, building, graphVars>> /\ Len(receipts') = Len(receipts) + 1
  BY <1>1 DEF HostInv, HostTypeOK, CutoverSnapshot, graphVars, storeVars
<1> QED BY <1>2, LayerSafe

LEMMA ReceiptSafe ==
  ASSUME HostInv, NEW i \in 1..Len(receipts),
         NEW status \in {"activated", "forward_fix_required"},
         \/ CutoverRestore(i) \/ CutoverRestoreFails(i)
         \/ CutoverFinalize(i, status) \/ CutoverFinalizeFails(i)
  PROVE  HostInv' /\ Len(receipts') = Len(receipts)
<1>1. receipts[i] \in Document /\ receipts \in Seq(Document)
  BY DEF HostInv, HostTypeOK
<1>2. CASE CutoverRestore(i)
  <2>1. [receipts[i] EXCEPT !.status = "host_restored"] \in Document
    BY <1>1 DEF Document
  <2>2. receipts' \in Seq(Document) /\ Len(receipts') = Len(receipts)
    BY <1>1, <1>2, <2>1 DEF CutoverRestore
  <2>3. HostTypeOK' /\ UNCHANGED <<disk, building, graphVars>>
    BY <1>1, <1>2, <2>2 DEF HostInv, HostTypeOK, CutoverRestore, Document, graphVars, storeVars
  <2> QED BY <2>2, <2>3, LayerSafe
<1>3. CASE CutoverRestoreFails(i)
  <2>1. HostTypeOK' /\ UNCHANGED <<disk, building, graphVars, receipts>>
    BY <1>1, <1>3 DEF HostInv, HostTypeOK, CutoverRestoreFails, Document, graphVars, storeVars
  <2> QED BY <2>1, LayerSafe
<1>4. CASE CutoverFinalize(i, status)
  <2>1. PICK m \in {"crossed", "not_mutated"} :
          receipts' = [receipts EXCEPT ![i].status = status, ![i].migration = m]
    BY <1>4 DEF CutoverFinalize
  <2>2. [receipts[i] EXCEPT !.status = status, !.migration = m] \in Document
    BY <1>1, <2>1 DEF Document
  <2>3. receipts' = [receipts EXCEPT ![i] = [receipts[i] EXCEPT !.status = status, !.migration = m]]
    BY <1>1, <2>1 DEF Document
  <2>4. receipts' \in Seq(Document) /\ Len(receipts') = Len(receipts)
    BY <1>1, <2>2, <2>3
  <2>5. HostTypeOK' /\ UNCHANGED <<disk, building, graphVars>>
    BY <1>4, <2>4 DEF HostInv, HostTypeOK, CutoverFinalize, graphVars, storeVars
  <2> QED BY <2>4, <2>5, LayerSafe
<1>5. CASE CutoverFinalizeFails(i)
  BY <1>5 DEF CutoverFinalizeFails, hostVars, storeVars, graphVars, layerVars, HostInv, HostTypeOK,
              LinkedAndRunningIntact, InFlightIntact, BuildUnsealed
<1> QED BY <1>2, <1>3, <1>4, <1>5

\* A process is only ever put onto a release that a link names.
LEMMA ProcessSafe ==
  ASSUME HostInv,
         ConvergeRunning \/ ConvergeFails \/ (\E c \in Component : UnitReexec(c))
  PROVE  HostInv'
<1>1. /\ UNCHANGED <<storeVars, links, act, crossed, config, receipts>>
      /\ ingress' \in [HostFile -> Release]
      /\ running' \in [Component -> Release \cup {NoRelease}]
      /\ \A c \in Component : running'[c] \in {running[c], links[c]}
  BY DEF HostInv, HostTypeOK, ConvergeRunning, ConvergeFails, UnitReexec, layerVars, storeVars
<1>2. HostTypeOK'
  BY <1>1 DEF HostInv, HostTypeOK, storeVars
<1>3. LinkedAndRunningIntact' /\ InFlightIntact' /\ BuildUnsealed'
  BY <1>1 DEF HostInv, LinkedAndRunningIntact, InFlightIntact, BuildUnsealed, storeVars
<1> QED BY <1>2, <1>3 DEF HostInv

\* The activator links nothing but its own release and its own snapshot, and
\* both were whole when it took the lock.
LEMMA ActivatorSafe ==
  ASSUME HostInv, NEW o \in Operator, Activator(o) \/ ActivatorDies(o)
  PROVE  HostInv'
<1>1. act[o] \in Activation
  BY DEF HostInv, HostTypeOK
<1>2. CASE \E c \in Component : SwitchLink(o, c)
  BY <1>1, <1>2 DEF HostInv, HostTypeOK, LinkedAndRunningIntact, InFlightIntact, BuildUnsealed,
                    SwitchLink, Activation, storeVars, layerVars
<1>3. CASE StartUnits(o)
  <2>1. /\ act' = [act EXCEPT ![o] = [act[o] EXCEPT !.pc = "started"]]
        /\ [act[o] EXCEPT !.pc = "started"] \in Activation
    BY <1>1, <1>3 DEF StartUnits, Activation
  <2>2. /\ HostTypeOK'
        /\ \A c \in Component : running'[c] \in {running[c], links[c]}
    BY <1>1, <1>3, <2>1 DEF HostInv, HostTypeOK, StartUnits, Activation, storeVars, layerVars
  <2>3. InFlightIntact'
    BY <1>1, <1>3, <2>1 DEF HostInv, HostTypeOK, InFlightIntact, StartUnits, Activation, storeVars
  <2> QED
    BY <1>3, <2>2, <2>3 DEF HostInv, LinkedAndRunningIntact, BuildUnsealed, StartUnits, storeVars
<1>4. ASSUME NEW result \in {"activated", "forward_fix_required", "error"},
             Answers(o, result), UNCHANGED <<storeVars, crossed, layerVars>>,
             \/ UNCHANGED <<links, running>>
             \/ act[o].pc # "idle" /\ links' = act[o].prev /\ running' = act[o].prev
      PROVE  HostInv'
  <2>1. /\ act' = [act EXCEPT ![o] = [act[o] EXCEPT !.pc = "idle", !.result = result]]
        /\ [act[o] EXCEPT !.pc = "idle", !.result = result] \in Activation
    BY <1>1, <1>4 DEF Answers, Activation
  <2>2. HostTypeOK'
    BY <1>1, <1>4, <2>1 DEF HostInv, HostTypeOK, Activation, storeVars, layerVars
  <2>3. InFlightIntact'
    BY <1>1, <1>4, <2>1 DEF HostInv, HostTypeOK, InFlightIntact, Activation, storeVars
  <2>4. LinkedAndRunningIntact'
    <3>1. CASE UNCHANGED <<links, running>>
      BY <1>4, <3>1 DEF HostInv, LinkedAndRunningIntact, storeVars
    <3>2. CASE act[o].pc # "idle" /\ links' = act[o].prev /\ running' = act[o].prev
      <4>1. \A c \in Component : disk[links'[c]] = "sealed" /\ disk[running'[c]] = "sealed"
        BY <3>2 DEF HostInv, InFlightIntact
      <4> QED BY <1>4, <4>1 DEF LinkedAndRunningIntact, storeVars
    <3> QED BY <1>4, <3>1, <3>2
  <2> QED BY <1>4, <2>2, <2>3, <2>4 DEF HostInv, BuildUnsealed, storeVars
<1>5. CASE BecomeReady(o)
  BY <1>4, <1>5 DEF BecomeReady
<1>6. CASE ActivateRestores(o)
  BY <1>4, <1>6 DEF ActivateRestores
<1>7. CASE ForwardFixRequired(o)
  BY <1>4, <1>7 DEF ForwardFixRequired
<1>8. CASE ActivatorDies(o)
  BY <1>4, <1>8 DEF ActivatorDies
<1> QED BY <1>2, <1>3, <1>5, <1>6, <1>7, <1>8 DEF Activator

\* A reboot brings up what the links name and forgets the rest.
LEMMA RebootSafe ==
  ASSUME HostInv, HostReboots
  PROVE  HostInv'
<1>1. \A o \in Operator : act'[o] \in Activation /\ act'[o].pc = "idle"
  BY DEF HostInv, HostTypeOK, HostReboots, Activation
<1>2. HostTypeOK'
  BY <1>1 DEF HostInv, HostTypeOK, HostReboots
<1>3. LinkedAndRunningIntact' /\ InFlightIntact' /\ BuildUnsealed'
  BY <1>1 DEF HostInv, LinkedAndRunningIntact, InFlightIntact, BuildUnsealed, HostReboots
<1> QED BY <1>2, <1>3 DEF HostInv

LEMMA ActivateSafe ==
  ASSUME HostInv, NEW o \in Operator, NEW r \in Release, ActivateBegin(o, r)
  PROVE  HostInv'
<1> USE ReleaseAssumption
<1> DEFINE fresh == [pc |-> "switching", release |-> r, prev |-> links, result |-> "none"]
<1>1. act' = [act EXCEPT ![o] = fresh] /\ fresh \in Activation
  BY DEF HostInv, HostTypeOK, ActivateBegin, Activation
<1>2. HostTypeOK'
  BY <1>1 DEF HostInv, HostTypeOK, ActivateBegin, storeVars, layerVars
<1>3. InFlightIntact'
  BY <1>1 DEF HostInv, HostTypeOK, LinkedAndRunningIntact, InFlightIntact, ActivateBegin, storeVars
<1>4. LinkedAndRunningIntact' /\ BuildUnsealed'
  BY <1>1 DEF HostInv, LinkedAndRunningIntact, BuildUnsealed, ActivateBegin, storeVars
<1> QED BY <1>2, <1>3, <1>4 DEF HostInv

LEMMA RollbackSafe ==
  ASSUME HostInv, NEW targets \in [Component -> Release],
         ActivatorRollback(targets) \/ ActivatorRollbackFails(targets)
  PROVE  HostInv'
<1>1. CASE ActivatorRollback(targets)
  BY <1>1 DEF HostInv, HostTypeOK, LinkedAndRunningIntact, InFlightIntact, BuildUnsealed,
              ActivatorRollback, storeVars, layerVars
<1>2. CASE ActivatorRollbackFails(targets)
  BY <1>2, LayerSafe DEF HostInv, HostTypeOK, ActivatorRollbackFails,
                         hostVars, storeVars, graphVars, layerVars
<1> QED BY <1>1, <1>2

LEMMA NothingSafe ==
  ASSUME HostInv, UNCHANGED hostVars
  PROVE  HostInv'
BY LayerSafe DEF HostInv, HostTypeOK, hostVars, storeVars, graphVars, layerVars

-----------------------------------------------------------------------------
(* The driver's locals                                                       *)

LocalsInv ==
  /\ deploys \in 0..MaxDeploys
  /\ op \in [Operator -> Call]
  /\ \A o \in Operator : op[o].receipt \in 0..Len(receipts)
  /\ LocalsReady

LEMMA IInvSplit == IInv <=> HostInv /\ LocalsInv
BY DEF IInv, HostInv, LocalsInv, TypeOK

\* What one operator's locals have to satisfy, on their own.
CallReady(call, n) ==
  /\ call \in Call
  /\ call.receipt \in 0..n
  /\ call.pc \in Snapshotted => call.receipt # 0
  /\ call.pc \in {"gate", "doctor", "finalize"} => call.activation # "none"

AnswerReady(call, a) ==
  call.pc = "activating" /\ a.pc = "idle" => a.result # "none"

LEMMA LocalsByCall ==
  LocalsInv <=> /\ deploys \in 0..MaxDeploys
                /\ op \in [Operator -> Call]
                /\ \A o \in Operator : /\ CallReady(op[o], Len(receipts))
                                       /\ AnswerReady(op[o], act[o])
BY DEF LocalsInv, LocalsReady, CallReady, AnswerReady

LEMMA RestingCall == Resting \in Call
BY ReleaseAssumption DEF Resting, Call, Phase, Mode, Outcome, Everywhere, Rendered, Preparing

\* The activators are as they were and no document is gone.
Quiet ==
  /\ UNCHANGED act
  /\ Len(receipts) \in Nat /\ Len(receipts') \in Nat
  /\ Len(receipts) <= Len(receipts')

LEMMA CallStep ==
  ASSUME LocalsInv, NEW o \in Operator, NEW call, Quiet, deploys' \in 0..MaxDeploys,
         op' = [op EXCEPT ![o] = call], CallReady(call, Len(receipts')),
         call.pc # "activating"
  PROVE  LocalsInv'
<1>1. \A p \in Operator : CallReady(op[p], Len(receipts)) /\ AnswerReady(op[p], act[p])
  BY LocalsByCall
<1>2. op' \in [Operator -> Call]
  BY DEF LocalsInv, CallReady
<1>3. \A p \in Operator : CallReady(op'[p], Len(receipts')) /\ AnswerReady(op'[p], act'[p])
  BY <1>1 DEF Quiet, CallReady, AnswerReady, LocalsInv
<1>4. LocalsInv' <=> /\ deploys' \in 0..MaxDeploys
                     /\ op' \in [Operator -> Call]
                     /\ \A p \in Operator : /\ CallReady(op'[p], Len(receipts'))
                                            /\ AnswerReady(op'[p], act'[p])
  BY DEF LocalsInv, LocalsReady, CallReady, AnswerReady
<1> QED BY <1>2, <1>3, <1>4

LEMMA GotoStep ==
  ASSUME LocalsInv, NEW o \in Operator, Quiet, UNCHANGED deploys,
         NEW pc \in Phase \ {"activating"}, Goto(o, pc),
         pc \in Snapshotted => op[o].receipt # 0,
         pc \in {"gate", "doctor", "finalize"} => op[o].activation # "none"
  PROVE  LocalsInv'
<1> DEFINE call == [op[o] EXCEPT !.pc = pc]
<1>1. op[o] \in Call /\ op[o].receipt \in 0..Len(receipts) /\ deploys \in 0..MaxDeploys
  BY DEF LocalsInv
<1>2. op' = [op EXCEPT ![o] = call]
  BY DEF Goto
<1>3. CallReady(call, Len(receipts')) /\ call.pc # "activating"
  BY <1>1 DEF CallReady, Call, Quiet
<1> HIDE DEF call
<1> QED BY <1>1, <1>2, <1>3, CallStep

LEMMA EndStep ==
  ASSUME LocalsInv, NEW o \in Operator, Quiet, UNCHANGED deploys,
         NEW outcome \in Outcome, End(o, outcome)
  PROVE  LocalsInv'
<1> DEFINE call == [Resting EXCEPT !.release = op[o].release, !.outcome = outcome,
                                   !.before = op[o].before]
<1>1. op[o] \in Call /\ deploys \in 0..MaxDeploys
  BY DEF LocalsInv
<1>2. op' = [op EXCEPT ![o] = call]
  BY DEF End
<1>3. call \in Call /\ call.pc = "idle" /\ call.receipt = 0
  BY <1>1, RestingCall DEF Call, Resting
<1>4. CallReady(call, Len(receipts')) /\ call.pc # "activating"
  BY <1>3 DEF CallReady, Snapshotted, Quiet
<1> HIDE DEF call
<1> QED BY <1>1, <1>2, <1>4, CallStep

LEMMA FailStep ==
  ASSUME LocalsInv, NEW o \in Operator, Quiet, UNCHANGED deploys, Fail(o)
  PROVE  LocalsInv'
<1>1. CASE \E outcome \in Outcome : End(o, outcome)
  BY <1>1, EndStep
<1>2. CASE Goto(o, "abort")
  BY <1>2, GotoStep DEF Phase, Snapshotted
<1>3. CASE op[o].receipt # 0 /\ Goto(o, "restore")
  BY <1>3, GotoStep DEF Phase, Snapshotted
<1> QED BY <1>1, <1>2, <1>3 DEF Fail, Outcome

-----------------------------------------------------------------------------
(* The actions: each is a handler and a move of the locals                   *)

\* A handler that leaves the documents and the activators alone, followed by a
\* failure, is safe in any phase.
LEMMA QuietByLayers ==
  ASSUME HostInv, UNCHANGED <<act, receipts>>
  PROVE  Quiet
BY DEF Quiet, HostInv, HostTypeOK

LEMMA BeginStep ==
  ASSUME HostInv, LocalsInv, NEW o \in Operator, NEW r \in Release, NEW mode \in Mode,
         Begin(o, r, mode)
  PROVE  HostInv' /\ LocalsInv'
<1> USE TransactionAssumption
<1> DEFINE call == [Resting EXCEPT !.pc = "reclaim", !.release = r, !.mode = mode]
<1>1. HostInv' /\ Quiet
  BY NothingSafe, QuietByLayers DEF Begin, hostVars, graphVars, layerVars
<1>2. op' = [op EXCEPT ![o] = call] /\ deploys' \in 0..MaxDeploys
  BY DEF Begin, LocalsInv
<1>3. call \in Call /\ call.pc = "reclaim" /\ call.receipt = 0
  BY RestingCall DEF Call, Resting, Phase
<1>4. CallReady(call, Len(receipts')) /\ call.pc # "activating"
  BY <1>1, <1>3 DEF CallReady, Snapshotted, Quiet
<1> HIDE DEF call
<1> QED BY <1>1, <1>2, <1>4, CallStep

LEMMA PrepareStep ==
  ASSUME HostInv, LocalsInv, NEW o \in Operator,
         \/ Prepare(o) \/ ClaimUpload(o) \/ CloseUpload(o)
         \/ StartBuild(o) \/ Built(o)
  PROVE  HostInv' /\ LocalsInv'
<1>1. op[o] \in Call /\ op[o].release \in Release /\ op[o].receipt \in 0..Len(receipts)
  BY DEF LocalsInv, Call
<1>2. CASE Prepare(o)
  <2>1. HostInv'
    BY <1>1, <1>2, SweepSafe, NothingSafe
    DEF Prepare, ReclaimFails, ReclaimRefused, Phases
  <2>2. Quiet /\ UNCHANGED deploys
    BY <1>2, QuietByLayers DEF Prepare, At, Reclaim, ReclaimShort, ReclaimFails, ReclaimTorn,
                               ReclaimRefused, hostVars, graphVars, layerVars
  <2>3. CASE Fail(o)
    BY <2>1, <2>2, <2>3, FailStep
  <2>4. CASE op' = [op EXCEPT ![o].pc = IF o \in Sealer THEN "guard" ELSE "dry_run",
                              ![o].before = [links |-> links, config |-> config]]
    <3> DEFINE call == [op[o] EXCEPT !.pc = IF o \in Sealer THEN "guard" ELSE "dry_run",
                                     !.before = [links |-> links, config |-> config]]
    <3>1. op' = [op EXCEPT ![o] = call]
      BY <2>4, <1>1 DEF Call
    <3>2. call \in Call /\ call.receipt = op[o].receipt /\ call.pc \in {"guard", "dry_run"}
      BY <1>1 DEF Call, Phase, Preparing, HostInv, HostTypeOK
    <3>3. CallReady(call, Len(receipts')) /\ call.pc # "activating"
      BY <1>1, <2>2, <3>2 DEF CallReady, Snapshotted, Quiet
    <3>4. deploys' \in 0..MaxDeploys
      BY <2>2 DEF LocalsInv
    <3> HIDE DEF call
    <3> QED BY <2>1, <2>2, <3>1, <3>3, <3>4, CallStep
  <2> QED BY <1>2, <2>3, <2>4 DEF Prepare, Answer
<1>3. CASE ClaimUpload(o)
  <2>1. HostInv' /\ Quiet /\ UNCHANGED deploys
    BY <1>1, <1>3, UploadSafe, NothingSafe, QuietByLayers
    DEF ClaimUpload, At, GuardUpload, hostVars, graphVars, layerVars
  <2>2. Goto(o, "upload") \/ Goto(o, "dry_run") \/ Fail(o)
    BY <1>3 DEF ClaimUpload, Answer
  <2> QED BY <2>1, <2>2, FailStep, GotoStep DEF Phase, Preparing, Snapshotted
<1>4. CASE CloseUpload(o)
  <2>1. HostInv' /\ Quiet /\ UNCHANGED deploys
    BY <1>1, <1>4, UploadSafe, NothingSafe, QuietByLayers
    DEF CloseUpload, At, FinalizeUpload, hostVars, graphVars, layerVars
  <2>2. Goto(o, "build") \/ Fail(o)
    BY <1>4 DEF CloseUpload, Answer
  <2> QED BY <2>1, <2>2, FailStep, GotoStep DEF Phase, Preparing, Snapshotted
<1>5. CASE StartBuild(o)
  <2>1. HostInv' /\ Quiet /\ UNCHANGED deploys
    BY <1>1, <1>5, BuildSafe, NothingSafe, QuietByLayers
    DEF StartBuild, At, BuildBegin, hostVars, graphVars, layerVars
  <2>2. Goto(o, "building") \/ Fail(o)
    BY <1>5 DEF StartBuild
  <2> QED BY <2>1, <2>2, FailStep, GotoStep DEF Phase, Preparing, Snapshotted
<1>6. CASE Built(o)
  <2>1. HostInv' /\ Quiet /\ UNCHANGED deploys
    BY <1>6, NothingSafe, QuietByLayers DEF Built, At, hostVars, graphVars, layerVars
  <2>2. Goto(o, "dry_run") \/ Fail(o)
    BY <1>6 DEF Built, Answer
  <2> QED BY <2>1, <2>2, FailStep, GotoStep DEF Phase, Preparing, Snapshotted
<1> QED BY <1>2, <1>3, <1>4, <1>5, <1>6

LEMMA StagingStep ==
  ASSUME HostInv, LocalsInv, NEW o \in Operator,
         \/ DryRun(o) \/ Retain(o) \/ Preconditions(o) \/ Snapshot(o)
         \/ Stage(o) \/ Refresh(o)
  PROVE  HostInv' /\ LocalsInv'
<1>1. /\ op[o] \in Call /\ op[o].release \in Release /\ op[o].mode \in Mode
      /\ op[o].receipt \in 0..Len(receipts)
      /\ op[o].pc \in Snapshotted => op[o].receipt # 0
  BY DEF LocalsInv, LocalsReady, Call
<1>2. CASE DryRun(o) \/ Preconditions(o)
  <2>1. HostInv' /\ Quiet /\ UNCHANGED deploys
    BY <1>2, NothingSafe, QuietByLayers
    DEF DryRun, Preconditions, At, hostVars, graphVars, layerVars
  <2>2. \/ Goto(o, "retain") \/ Goto(o, "preconditions") \/ Goto(o, "snapshot") \/ Fail(o)
    BY <1>2 DEF DryRun, Preconditions
  <2> QED BY <2>1, <2>2, FailStep, GotoStep DEF Phase, Snapshotted
<1>3. CASE Retain(o)
  <2>1. HostInv'
    BY <1>1, <1>3, SweepSafe, NothingSafe DEF Retain, ReclaimFails, ReclaimRefused, Phases
  <2>2. Quiet /\ UNCHANGED deploys
    BY <1>3, QuietByLayers DEF Retain, At, Reclaim, ReclaimFails, ReclaimTorn,
                               ReclaimRefused, hostVars, graphVars, layerVars
  <2>3. End(o, "dry_run") \/ Fail(o)
    BY <1>3 DEF Retain, Answer
  <2> QED BY <2>1, <2>2, <2>3, FailStep, EndStep DEF Outcome
<1>4. CASE Snapshot(o)
  <2>1. CASE CutoverSnapshot(op[o].release, op[o].mode)
    <3>1. HostInv' /\ Len(receipts') = Len(receipts) + 1 /\ UNCHANGED <<act, deploys>>
      BY <1>1, <1>4, <2>1, DocumentSafe DEF Snapshot, At, CutoverSnapshot, graphVars
    <3>2. Quiet
      BY <3>1 DEF Quiet, HostInv, HostTypeOK
    <3>3. CASE op' = [op EXCEPT ![o].pc = "stage", ![o].receipt = Len(receipts')]
      <4>0. PICK n \in Nat \ {0} : n = Len(receipts')
        BY <3>1, <3>2 DEF Quiet
      <4> DEFINE call == [op[o] EXCEPT !.pc = "stage", !.receipt = n]
      <4>1. op' = [op EXCEPT ![o] = call]
        BY <3>3, <4>0, <1>1 DEF Call
      <4>2. /\ call \in Call /\ call.pc = "stage"
            /\ call.receipt = n /\ call.receipt # 0
        BY <1>1 DEF Call, Phase
      <4>3. CallReady(call, Len(receipts')) /\ call.pc # "activating"
        BY <4>0, <4>2 DEF CallReady
      <4>4. deploys' \in 0..MaxDeploys
        BY <3>1 DEF LocalsInv
      <4> HIDE DEF call
      <4> QED BY <3>1, <3>2, <4>1, <4>3, <4>4, CallStep
    <3> QED BY <1>4, <2>1, <3>1, <3>2, <3>3, FailStep DEF Snapshot, Answer
  <2>2. CASE UNCHANGED hostVars /\ Fail(o)
    <3>1. HostInv' /\ Quiet /\ UNCHANGED deploys
      BY <1>4, <2>2, NothingSafe, QuietByLayers DEF Snapshot, At, hostVars, graphVars, layerVars
    <3> QED BY <2>2, <3>1, FailStep
  <2> QED BY <1>4, <2>1, <2>2 DEF Snapshot
<1>5. CASE Stage(o)
  <2>1. HostInv' /\ Quiet /\ UNCHANGED deploys /\ op[o].receipt # 0
    BY <1>1, <1>5, UploadSafe, QuietByLayers
    DEF Stage, At, StageConfiguration, graphVars, layerVars, Snapshotted
  <2>2. Goto(o, "refresh") \/ Fail(o)
    BY <1>5 DEF Stage
  <2> QED BY <2>1, <2>2, FailStep, GotoStep DEF Phase
<1>6. CASE Refresh(o)
  <2>1. HostInv' /\ Quiet /\ UNCHANGED deploys /\ op[o].receipt # 0
    BY <1>1, <1>6, ConfigurationSafe, QuietByLayers
    DEF Refresh, At, RefreshConfiguration, RefreshFails, graphVars, Snapshotted
  <2>2. Goto(o, "activate") \/ Fail(o)
    BY <1>6 DEF Refresh, Answer
  <2> QED BY <2>1, <2>2, FailStep, GotoStep DEF Phase
<1> QED BY <1>2, <1>3, <1>4, <1>5, <1>6

LEMMA CutoverStep ==
  ASSUME HostInv, LocalsInv, NEW o \in Operator,
         \/ Activate(o) \/ Activated(o) \/ LoseActivation(o) \/ Gate(o) \/ Doctor(o)
  PROVE  HostInv' /\ LocalsInv'
<1>1. /\ op[o] \in Call /\ op[o].release \in Release /\ act[o] \in Activation
      /\ op[o].pc \in Snapshotted => op[o].receipt # 0
      /\ op[o].receipt \in 0..Len(receipts) /\ Len(receipts) \in Nat
      /\ deploys \in 0..MaxDeploys
  BY DEF HostInv, HostTypeOK, LocalsInv, LocalsReady, Call
<1>2. CASE Activate(o)
  <2>1. CASE UNCHANGED hostVars /\ Fail(o)
    <3>1. HostInv' /\ Quiet /\ UNCHANGED deploys
      BY <1>2, <2>1, NothingSafe, QuietByLayers DEF Activate, At, hostVars, graphVars, layerVars
    <3> QED BY <2>1, <3>1, FailStep
  <2>2. CASE ActivateBegin(o, op[o].release) /\ Goto(o, "activating")
    <3> DEFINE call == [op[o] EXCEPT !.pc = "activating"]
    <3>1. HostInv'
      BY <1>1, <2>2, ActivateSafe
    <3>2. /\ UNCHANGED <<receipts, deploys>> /\ op' = [op EXCEPT ![o] = call]
          /\ act'[o].pc = "switching" /\ \A p \in Operator \ {o} : act'[p] = act[p]
      BY <1>2, <2>2 DEF Activate, At, ActivateBegin, Goto, layerVars, HostInv, HostTypeOK
    <3>3. call \in Call /\ CallReady(call, Len(receipts)) /\ AnswerReady(call, act'[o])
      BY <1>1, <1>2, <3>2 DEF Activate, At, Call, Phase, CallReady, AnswerReady, Snapshotted
    <3>4. \A p \in Operator : CallReady(op[p], Len(receipts)) /\ AnswerReady(op[p], act[p])
      BY LocalsByCall
    <3> HIDE DEF call
    <3>5. op' \in [Operator -> Call]
      BY <3>2, <3>3 DEF LocalsInv
    <3>6. \A p \in Operator : CallReady(op'[p], Len(receipts)) /\ AnswerReady(op'[p], act'[p])
      BY <3>2, <3>3, <3>4 DEF LocalsInv
    <3>7. LocalsInv'
      BY <1>1, <3>2, <3>5, <3>6 DEF LocalsInv, LocalsReady, CallReady, AnswerReady
    <3> QED BY <3>1, <3>7
  <2> QED BY <1>2, <2>1, <2>2 DEF Activate
<1>3. CASE Activated(o)
  <2>1. HostInv' /\ Quiet /\ UNCHANGED deploys
    BY <1>3, NothingSafe, QuietByLayers DEF Activated, At, hostVars, graphVars, layerVars
  <2>2. op[o].receipt # 0 /\ op[o].pc = "activating"
    BY <1>1, <1>3 DEF Activated, At, Snapshotted
  <2>3. CASE Fail(o)
    BY <2>1, <2>3, FailStep
  <2>4. CASE /\ act[o].result = "activated" /\ ~Fail(o)
             /\ SealedMode(op[o].release) = op[o].mode
             /\ SealedMode(op[o].release) = "forward-only"
    <3> DEFINE call == [op[o] EXCEPT !.barrier = TRUE, !.gates = TRUE, !.pc = "gate",
                                     !.prev = act[o].prev, !.activation = act[o].result]
    <3>1. op' = [op EXCEPT ![o] = call]
      BY <1>1, <1>3, <2>4 DEF Activated, LocalsInv, Call
    <3>2. /\ call \in Call /\ call.pc = "gate" /\ call.activation # "none"
          /\ call.receipt = op[o].receipt
      BY <1>1, <2>4 DEF Call, Activation, Phase
    <3>3. CallReady(call, Len(receipts')) /\ call.pc # "activating"
      BY <1>1, <2>1, <2>2, <3>2 DEF CallReady, Quiet
    <3> HIDE DEF call
    <3> QED BY <1>1, <2>1, <3>1, <3>3, CallStep
  <2>5. CASE /\ act[o].result = "activated" /\ ~Fail(o)
             /\ SealedMode(op[o].release) = op[o].mode
             /\ SealedMode(op[o].release) # "forward-only"
    <3> DEFINE call == [op[o] EXCEPT !.pc = "gate", !.prev = act[o].prev,
                                     !.activation = act[o].result]
    <3>1. op' = [op EXCEPT ![o] = call]
      BY <1>1, <1>3, <2>5 DEF Activated, LocalsInv, Call
    <3>2. /\ call \in Call /\ call.pc = "gate" /\ call.activation # "none"
          /\ call.receipt = op[o].receipt
      BY <1>1, <2>5 DEF Call, Activation, Phase
    <3>3. CallReady(call, Len(receipts')) /\ call.pc # "activating"
      BY <1>1, <2>1, <2>2, <3>2 DEF CallReady, Quiet
    <3> HIDE DEF call
    <3> QED BY <1>1, <2>1, <3>1, <3>3, CallStep
  <2>6. CASE act[o].result = "forward_fix_required" /\ ~Fail(o)
    <3> DEFINE call == [op[o] EXCEPT !.barrier = TRUE, !.gates = TRUE, !.pc = "finalize",
                                     !.gateError = TRUE, !.activation = act[o].result]
    <3>1. op' = [op EXCEPT ![o] = call]
      BY <1>1, <1>3, <2>6 DEF Activated, LocalsInv, Call
    <3>2. /\ call \in Call /\ call.pc = "finalize" /\ call.activation # "none"
          /\ call.receipt = op[o].receipt
      BY <1>1, <2>6 DEF Call, Phase
    <3>3. CallReady(call, Len(receipts')) /\ call.pc # "activating"
      BY <1>1, <2>1, <2>2, <3>2 DEF CallReady, Quiet
    <3> HIDE DEF call
    <3> QED BY <1>1, <2>1, <3>1, <3>3, CallStep
  <2> QED BY <1>3, <2>1, <2>3, <2>4, <2>5, <2>6 DEF Activated
<1>4. CASE LoseActivation(o)
  <2>1. HostInv' /\ Quiet /\ UNCHANGED deploys
    BY <1>4, NothingSafe, QuietByLayers DEF LoseActivation, At, hostVars, graphVars, layerVars
  <2> QED BY <1>4, <2>1, FailStep DEF LoseActivation
<1>5. ASSUME Quiet, UNCHANGED deploys, op[o].pc \in {"gate", "doctor"}, GateFails(o)
      PROVE  LocalsInv'
  <2>1. PICK pc \in {"finalize", "rollback"} :
          op' = [op EXCEPT ![o] = [op[o] EXCEPT !.pc = pc, !.gateError = TRUE]]
    BY <1>1, <1>5 DEF GateFails, Call
  <2> DEFINE call == [op[o] EXCEPT !.pc = pc, !.gateError = TRUE]
  <2>2. /\ call \in Call /\ call.pc = pc /\ call.receipt = op[o].receipt
        /\ call.activation = op[o].activation
    BY <1>1 DEF Call, Phase
  <2>3. op[o].receipt # 0 /\ op[o].activation # "none"
    BY <1>5 DEF LocalsInv, LocalsReady, Snapshotted
  <2> HIDE DEF call
  <2>4. CallReady(call, Len(receipts'))
    BY <1>1, <1>5, <2>2, <2>3 DEF CallReady, Quiet
  <2> QED BY <1>1, <1>5, <2>1, <2>2, <2>4, CallStep DEF call
<1>6. ASSUME op[o].pc \in {"gate", "doctor"}, Quiet, UNCHANGED deploys
      PROVE  (Goto(o, "doctor") \/ Goto(o, "finalize")) => LocalsInv'
  <2>1. op[o].receipt # 0 /\ op[o].activation # "none"
    BY <1>6 DEF LocalsInv, LocalsReady, Snapshotted
  <2> QED BY <1>6, <2>1, GotoStep DEF Phase
<1>7. CASE Gate(o)
  <2>1. HostInv' /\ Quiet /\ UNCHANGED deploys /\ op[o].pc = "gate"
    BY <1>7, ProcessSafe, QuietByLayers DEF Gate, At, ConvergeRunning, ConvergeFails
  <2> QED BY <1>5, <1>6, <1>7, <2>1 DEF Gate
<1>8. CASE Doctor(o)
  <2>1. HostInv' /\ Quiet /\ UNCHANGED deploys /\ op[o].pc = "doctor"
    BY <1>8, NothingSafe, QuietByLayers DEF Doctor, At, hostVars, graphVars, layerVars
  <2> QED BY <1>5, <1>6, <1>8, <2>1 DEF Doctor
<1> QED BY <1>2, <1>3, <1>4, <1>7, <1>8

LEMMA ClosingStep ==
  ASSUME HostInv, LocalsInv, NEW o \in Operator,
         \/ Rollback(o) \/ RestoreHost(o) \/ Finalize(o) \/ Commit(o)
         \/ Restore(o) \/ Abort(o) \/ OperatorDies(o)
  PROVE  HostInv' /\ LocalsInv'
<1>1. /\ op[o] \in Call /\ op[o].release \in Release
      /\ op[o].prev \in [Component -> Release]
      /\ op[o].activation \in {"none", "activated", "forward_fix_required"}
      /\ op[o].receipt \in 0..Len(receipts) /\ Len(receipts) \in Nat
      /\ op[o].pc \in Snapshotted => op[o].receipt # 0
      /\ op[o].pc = "finalize" => op[o].activation # "none"
      /\ deploys \in 0..MaxDeploys
  BY DEF HostInv, HostTypeOK, LocalsInv, LocalsReady, Call
<1>2. CASE Rollback(o)
  <2>1. HostInv' /\ Quiet /\ UNCHANGED deploys /\ op[o].receipt # 0
    BY <1>1, <1>2, RollbackSafe, QuietByLayers
    DEF Rollback, At, Snapshotted, ActivatorRollback, ActivatorRollbackFails,
        hostVars, graphVars, layerVars
  <2> QED BY <1>2, <2>1, GotoStep DEF Rollback, Phase
<1>3. ASSUME NEW i \in 1..Len(receipts), i = op[o].receipt, UNCHANGED deploys,
             CutoverRestore(i) \/ CutoverRestoreFails(i)
      PROVE  HostInv' /\ Quiet
  <2>1. HostInv' /\ Len(receipts') = Len(receipts)
    BY <1>3, ReceiptSafe
  <2>2. UNCHANGED act
    BY <1>3 DEF CutoverRestore, CutoverRestoreFails, graphVars
  <2> QED BY <1>1, <2>1, <2>2 DEF Quiet
<1>4. CASE RestoreHost(o)
  <2>1. op[o].receipt \in 1..Len(receipts)
    BY <1>1, <1>4 DEF RestoreHost, At, Snapshotted
  <2>2. HostInv' /\ Quiet /\ UNCHANGED deploys
    BY <1>3, <1>4, <2>1 DEF RestoreHost, At
  <2>3. CASE op' = [op EXCEPT ![o].pc = "abort", ![o].restored = TRUE]
    <3> DEFINE call == [op[o] EXCEPT !.pc = "abort", !.restored = TRUE]
    <3>1. op' = [op EXCEPT ![o] = call]
      BY <1>1, <2>3 DEF Call
    <3>2. call \in Call /\ call.pc = "abort" /\ call.receipt = op[o].receipt
      BY <1>1 DEF Call, Phase
    <3>3. CallReady(call, Len(receipts')) /\ call.pc # "activating"
      BY <1>1, <2>2, <3>2 DEF CallReady, Snapshotted, Quiet
    <3> HIDE DEF call
    <3> QED BY <1>1, <2>2, <3>1, <3>3, CallStep
  <2> QED BY <1>4, <2>2, <2>3, FailStep DEF RestoreHost, Answer
<1>5. CASE Restore(o)
  <2>1. op[o].receipt \in 1..Len(receipts)
    BY <1>1, <1>5 DEF Restore, At, Snapshotted
  <2>2. HostInv' /\ Quiet /\ UNCHANGED deploys
    BY <1>3, <1>5, <2>1 DEF Restore, At
  <2>3. Goto(o, "abort") \/ Fail(o)
    BY <1>5 DEF Restore, Answer
  <2> QED BY <2>2, <2>3, GotoStep, FailStep DEF Phase, Snapshotted
<1>6. CASE Finalize(o)
  <2>1. /\ op[o].receipt \in 1..Len(receipts)
        /\ op[o].activation \in {"activated", "forward_fix_required"}
    BY <1>1, <1>6 DEF Finalize, At, Snapshotted
  <2>2. HostInv' /\ Len(receipts') = Len(receipts)
    BY <1>6, <2>1, ReceiptSafe DEF Finalize
  <2>3. Quiet /\ UNCHANGED deploys
    BY <1>1, <1>6, <2>2
    DEF Finalize, At, CutoverFinalize, CutoverFinalizeFails, Quiet, hostVars, graphVars
  <2>4. CASE op' = [op EXCEPT ![o].pc = "commit", ![o].gates = TRUE]
    <3> DEFINE call == [op[o] EXCEPT !.pc = "commit", !.gates = TRUE]
    <3>1. op' = [op EXCEPT ![o] = call]
      BY <1>1, <2>4 DEF Call
    <3>2. call \in Call /\ call.pc = "commit" /\ call.receipt = op[o].receipt
      BY <1>1 DEF Call, Phase
    <3>3. CallReady(call, Len(receipts')) /\ call.pc # "activating"
      BY <1>1, <2>1, <2>2, <3>2 DEF CallReady
    <3> HIDE DEF call
    <3> QED BY <1>1, <2>2, <2>3, <3>1, <3>3, CallStep
  <2> QED BY <1>6, <2>2, <2>3, <2>4, FailStep DEF Finalize, Answer
<1>7. CASE Commit(o) \/ Abort(o)
  <2>1. HostInv'
    BY <1>1, <1>7, SweepSafe, NothingSafe
    DEF Commit, Abort, ReclaimFails, ReclaimRefused, Phases
  <2>2. Quiet /\ UNCHANGED deploys
    BY <1>7, QuietByLayers DEF Commit, Abort, At, Reclaim, ReclaimFails, ReclaimTorn,
                               ReclaimRefused, hostVars, graphVars, layerVars
  <2>3. Fail(o) \/ \E outcome \in Outcome : End(o, outcome)
    BY <1>7 DEF Commit, Abort, Answer, Outcome
  <2> QED BY <2>1, <2>2, <2>3, EndStep, FailStep
<1>8. CASE OperatorDies(o)
  <2>1. HostInv' /\ Quiet /\ UNCHANGED deploys
    BY <1>8, NothingSafe, QuietByLayers DEF OperatorDies, hostVars, graphVars, layerVars
  <2> QED BY <1>8, <2>1, EndStep DEF OperatorDies, Outcome
<1> QED BY <1>2, <1>4, <1>5, <1>6, <1>7, <1>8

\* The steps nobody drives: they leave the locals, and an activator that ends
\* leaves an answer.
LEMMA HostStep ==
  ASSUME HostInv, LocalsInv, UNCHANGED <<op, deploys>>,
         \/ HostNext
         \/ UNCHANGED hostVars
         \/ \E r \in Release : Reclaim("abort", r) \/ ReclaimTorn("abort", r)
  PROVE  HostInv' /\ LocalsInv'
<1>1. \A p \in Operator : CallReady(op[p], Len(receipts)) /\ AnswerReady(op[p], act[p])
  BY LocalsByCall
<1>2. HostInv' /\ UNCHANGED receipts
      /\ \A p \in Operator : act'[p] = act[p] \/ act'[p].pc # "idle" \/ act'[p].result # "none"
  <2>1. CASE \E p \in Operator : Activator(p) \/ ActivatorDies(p)
    <3>1. PICK p \in Operator : Activator(p) \/ ActivatorDies(p)
      BY <2>1
    <3>2. HostInv'
      BY <3>1, ActivatorSafe
    <3>3. UNCHANGED receipts
      BY <3>1 DEF Activator, SwitchLink, StartUnits, BecomeReady, ActivateRestores,
                  ForwardFixRequired, ActivatorDies, layerVars
    <3>4. \A q \in Operator : act'[q] = act[q] \/ act'[q].pc # "idle" \/ act'[q].result # "none"
      BY <3>1 DEF Activator, SwitchLink, StartUnits, BecomeReady, ActivateRestores,
                  ForwardFixRequired, ActivatorDies, Answers, HostInv, HostTypeOK, Activation
    <3> QED BY <3>2, <3>3, <3>4
  <2>2. CASE BuildEnd
    BY <2>2, BuildSafe, ReleaseAssumption DEF BuildEnd, graphVars, layerVars
  <2>3. CASE \E c \in Component : UnitReexec(c)
    BY <2>3, ProcessSafe DEF UnitReexec, layerVars
  <2>4. CASE UNCHANGED hostVars
    BY <2>4, NothingSafe DEF hostVars, graphVars, layerVars
  <2>5. CASE \E r \in Release : Reclaim("abort", r) \/ ReclaimTorn("abort", r)
    BY <2>5, SweepSafe DEF Phases, Reclaim, ReclaimTorn, graphVars, layerVars
  <2>6. CASE HostReboots
    <3>1. \A p \in Operator : act'[p] = act[p] \/ act'[p].result = "error"
      BY <2>6 DEF HostReboots, HostInv, HostTypeOK, Activation
    <3> QED BY <2>6, <3>1, RebootSafe DEF HostReboots
  <2> QED BY <2>1, <2>2, <2>3, <2>4, <2>5, <2>6 DEF HostNext
<1>3. \A p \in Operator : CallReady(op'[p], Len(receipts')) /\ AnswerReady(op'[p], act'[p])
  BY <1>1, <1>2 DEF AnswerReady
<1> QED BY <1>2, <1>3 DEF LocalsInv, LocalsReady, CallReady, AnswerReady

\* A rollback by hand: the links it puts back are whole, and no deploy sees it.
LEMMA HandStep ==
  ASSUME HostInv, LocalsInv, NEW o \in Operator, NEW r \in Release, RollbackByHand(o, r)
  PROVE  HostInv' /\ LocalsInv'
<1>1. act[o].prev \in [Component -> Release]
  BY DEF HostInv, HostTypeOK, Activation
<1>2. ActivatorRollback(act[o].prev) \/ ActivatorRollbackFails(act[o].prev)
  BY DEF RollbackByHand
<1>3. HostInv'
  BY <1>1, <1>2, RollbackSafe
<1>4. UNCHANGED <<op, deploys, act, receipts>>
  BY <1>2 DEF RollbackByHand, ActivatorRollback, ActivatorRollbackFails, hostVars, storeVars,
              graphVars, layerVars
<1>5. LocalsInv'
  BY <1>4 DEF LocalsInv, LocalsReady
<1> QED BY <1>3, <1>5

-----------------------------------------------------------------------------
(* The theorems                                                              *)

\* The first state: an installed Host and no call under way.
LEMMA InitInv == Init => IInv
<1> USE ReleaseAssumption, TransactionAssumption
<1>1. Init => HostInv
  BY DEF Init, HostInit, HostInv, HostTypeOK, LinkedAndRunningIntact, InFlightIntact,
         BuildUnsealed, Everywhere, Rendered, Activation
<1>2. Init => LocalsInv
  BY RestingCall DEF Init, HostInit, LocalsInv, LocalsReady, Resting, Snapshotted
<1> QED BY <1>1, <1>2, IInvSplit

\* Every action of the driver, of the Host and of the operator who abandons a
\* candidate or rolls back by hand keeps the inductive invariant.
LEMMA StepInv == IInv /\ [Next]_vars => IInv'
<1> SUFFICES ASSUME HostInv, LocalsInv, [Next]_vars PROVE HostInv' /\ LocalsInv'
  BY IInvSplit DEF IInv, HostInv, LocalsInv, TypeOK
<1>1. CASE \E o \in Operator : Driver(o) \/ OperatorDies(o)
  BY <1>1, PrepareStep, StagingStep, CutoverStep, ClosingStep DEF Driver
<1>2. CASE \E o \in Operator, r \in Release, mode \in Mode : Begin(o, r, mode)
  BY <1>2, BeginStep
<1>3. CASE \E r \in Release : Abandon(r)
  BY <1>3, HostStep DEF Abandon
<1>4. CASE HostNext /\ UNCHANGED <<op, deploys>>
  BY <1>4, HostStep
<1>5. CASE Rest \/ UNCHANGED vars
  BY <1>5, HostStep DEF Rest, vars
<1>6. CASE \E o \in Operator, r \in Release : RollbackByHand(o, r)
  BY <1>6, HandStep
<1> QED BY <1>1, <1>2, <1>3, <1>4, <1>5, <1>6 DEF Next

\* IInv is inductive: with it every state and every local of a deploy has its
\* type, and the receipts and answers a phase uses exist.
THEOREM Inductive == Spec => []IInv
BY InitInv, StepInv, PTL DEF Spec

\* The state keeps its types, and a deploy its locals.
THEOREM TypeCorrect == Spec => []TypeOK
<1>1. IInv => TypeOK
  BY DEF IInv
<1> QED BY <1>1, Inductive, PTL

\* No interleaving of sweeps, builds, activations, rollbacks, crashes and
\* units restarted by systemd, from any number of workstations, leaves a link
\* or a process on a release that is not whole on disk.
THEOREM ServedReleasesIntact == Spec => []LinkedAndRunningIntact
<1>1. IInv => LinkedAndRunningIntact
  BY DEF IInv
<1> QED BY <1>1, Inductive, PTL

-----------------------------------------------------------------------------
(* CutoverInv: the phases of a deploy and what it may rely on in each        *)

\* The phases in which a deploy has its candidate marked on the Host.
Driving == Phase \ {"idle", "reclaim", "abort"}

\* No two workstations drive the same release.
Apart ==
  \A o, p \in Operator :
    op[o].pc # "idle" /\ op[p].pc # "idle" /\ op[o].release = op[p].release => o = p

Marked == \A o \in Operator : op[o].pc \in Driving => marker = op[o].release

\* One activator at a time, and none but the driver's own beside a driver.
OneActivator ==
  /\ \A o, p \in Operator : act[o].pc # "idle" /\ act[p].pc # "idle" => o = p
  /\ \A o, p \in Operator : op[o].pc \in Driving /\ act[p].pc # "idle" =>
       o = p /\ op[o].pc \in {"activating", "restore"}

\* The state an activation may leave behind is its own release's.
CrossedBy(r) == crossed # NoRelease => crossed = r /\ r \in ForwardOnly

Serving(r) == links = Everywhere(r) /\ \A c \in Component : running[c] # NoRelease

\* How far an activator got.
InFlight(a) ==
  /\ a.pc = "switching" => crossed = NoRelease
  /\ a.pc = "started" => CrossedBy(a.release) /\ Serving(a.release)

\* All four of what a gate judges are of the release.
Whole(r) ==
  /\ links = Everywhere(r) /\ running = Everywhere(r)
  /\ config = Rendered(r) /\ ingress = Rendered(r)

Unsnapshotted ==
  {"reclaim", "dry_run", "retain", "preconditions", "snapshot"} \cup Preparing

\* What a deploy knows of the Host by the phase it is in, with the answer its
\* activator has left.
Course(call, a) ==
  /\ call.pc # "idle" => call.outcome = "none"
  /\ call.pc \in Unsnapshotted => call.receipt = 0
  /\ call.pc \in {"activate", "activating", "gate", "doctor", "finalize", "commit"} =>
       config = Rendered(call.release)
  /\ call.pc = "activating" =>
       /\ a.release = call.release
       /\ \A c \in Component : disk[a.prev[c]] = "sealed"
       /\ a.pc = "idle" /\ a.result # "error" => CrossedBy(a.release) /\ Serving(a.release)
  /\ call.pc \in {"gate", "doctor", "rollback"} =>
       /\ \A c \in Component : disk[call.prev[c]] = "sealed"
       /\ call.mode = SealedMode(call.release) /\ CrossedBy(call.release)
  /\ call.pc = "rollback" => call.mode = "reversible"
  /\ call.pc \in {"gate", "doctor"} => call.activation = "activated" /\ Serving(call.release)
  /\ call.pc = "doctor" => Whole(call.release)
  /\ call.pc \in {"finalize", "commit"} /\ ~call.gateError =>
       Whole(call.release) /\ call.activation = "activated"
  /\ call.pc = "commit" =>
       call.gates /\ (~call.gateError => receipts[call.receipt].status = "activated")

CutoverInv ==
  /\ Marked /\ OneActivator /\ BarrierKeepsLinks
  /\ \A o \in Operator : InFlight(act[o]) /\ Course(op[o], act[o])

\* What would take the marker from under a deploy, or switch links beside it.
Unforced == {"early_abandon", "host_reboots", "rolls_back"} \cap Faults = {}

-----------------------------------------------------------------------------
(* Who may act beside a deploy                                               *)

LEMMA OneDriver ==
  ASSUME IInv, CutoverInv, Apart, NEW o \in Operator, NEW p \in Operator,
         op[o].pc \in Driving, op[p].pc \in Driving
  PROVE  o = p
BY DEF CutoverInv, Marked, Apart, Driving

\* The marker refuses every phase of the collector to another release.
LEMMA MarkerGuards ==
  ASSUME IInv, CutoverInv, NEW p \in Operator, op[p].pc \in Driving,
         NEW phase, NEW r, Accepts(phase, r)
  PROVE  r = op[p].release
<1>1. marker = op[p].release /\ op[p].release \in Release
  BY DEF CutoverInv, Marked, IInv, TypeOK, Call
<1> QED BY <1>1, ReleaseAssumption DEF Accepts

\* A failure goes to the restore only with a receipt, and before the gates.
LEMMA FailMoves ==
  ASSUME IInv, NEW o \in Operator, op[o].pc # "idle", Fail(o)
  PROVE  /\ \A p \in Operator \ {o} : op'[p] = op[p]
         /\ op'[o].pc \in {"idle", "abort", "restore"}
         /\ op'[o].pc # "idle" => op'[o] = [op[o] EXCEPT !.pc = op'[o].pc]
         /\ op'[o].pc = "restore" => op[o].receipt # 0 /\ ~op[o].gates
         /\ op[o].pc \in {"reclaim", "restore", "abort"} => op'[o].pc = "idle"
<1>1. op \in [Operator -> Call] /\ op[o] \in Call /\ op[o].pc \in Phase BY DEF IInv, TypeOK, Call
<1>2. ASSUME NEW outcome, End(o, outcome)
      PROVE  op'[o].pc = "idle" /\ \A p \in Operator \ {o} : op'[p] = op[p]
  BY <1>1, <1>2 DEF End, Resting
<1>3. ASSUME NEW pc, Goto(o, pc)
      PROVE  /\ op'[o] = [op[o] EXCEPT !.pc = pc] /\ op'[o].pc = pc
             /\ \A p \in Operator \ {o} : op'[p] = op[p]
  BY <1>1, <1>3 DEF Goto, Call
<1>4. CASE op[o].pc \in {"reclaim", "restore", "abort"} \/ End(o, "unrecorded")
  BY <1>4, <1>2 DEF Fail, Preparing
<1>5. CASE op[o].pc \notin {"reclaim", "restore", "abort"} /\ Goto(o, "abort")
  <2>1. /\ op'[o] = [op[o] EXCEPT !.pc = "abort"] /\ op'[o].pc = "abort"
        /\ \A p \in Operator \ {o} : op'[p] = op[p]
    BY <1>5, <1>3
  <2> QED BY <1>5, <2>1
<1>6. CASE /\ op[o].pc \notin {"reclaim", "restore", "abort"}
           /\ op[o].receipt # 0 /\ ~op[o].gates /\ Goto(o, "restore")
  <2>1. /\ op'[o] = [op[o] EXCEPT !.pc = "restore"] /\ op'[o].pc = "restore"
        /\ \A p \in Operator \ {o} : op'[p] = op[p]
    BY <1>6, <1>3
  <2> QED BY <1>6, <2>1
<1>7. \/ op[o].pc \in {"reclaim", "restore", "abort"} \/ End(o, "unrecorded")
      \/ op[o].pc \notin {"reclaim", "restore", "abort"} /\ Goto(o, "abort")
      \/ /\ op[o].pc \notin {"reclaim", "restore", "abort"}
         /\ op[o].receipt # 0 /\ ~op[o].gates /\ Goto(o, "restore")
  BY DEF Fail
<1> QED BY <1>4, <1>5, <1>6, <1>7

\* A step of the only driver that leaves the activators alone.
LEMMA Carry ==
  ASSUME IInv, CutoverInv, NEW o \in Operator,
         \A p \in Operator \ {o} : op[p].pc \notin Driving /\ op'[p] = op[p],
         UNCHANGED act, BarrierKeepsLinks', \A q \in Operator : InFlight(act[q])',
         op'[o].pc \in Driving =>
           /\ marker' = op'[o].release
           /\ ReleaseLockFree \/ (op'[o].pc = "restore" /\ op[o].pc = "activating"),
         Course(op[o], act[o])'
  PROVE  CutoverInv'
<1>1. Marked' BY DEF Marked
<1>2. OneActivator'
  BY DEF CutoverInv, OneActivator, ReleaseLockFree, Driving, Phase, Preparing
<1>3. ASSUME NEW p \in Operator \ {o} PROVE Course(op[p], act[p])'
  <2>1. Course(op[p], act[p]) /\ op[p].pc \notin Driving /\ op'[p] = op[p] /\ op[p].pc \in Phase
    BY DEF CutoverInv, IInv, TypeOK, Call
  <2> QED BY <2>1 DEF Course, Driving, Phase, Unsnapshotted, Preparing
<1> QED BY <1>1, <1>2, <1>3 DEF CutoverInv

\* The graph stays as it was, but for units that come up again.
Graphless ==
  /\ UNCHANGED <<links, act, crossed>>
  /\ \A c \in Component : running'[c] = NoRelease => running[c] = NoRelease

LEMMA GraphlessKeeps ==
  ASSUME CutoverInv, Graphless
  PROVE  BarrierKeepsLinks' /\ \A q \in Operator : InFlight(act[q])'
BY DEF CutoverInv, Graphless, BarrierKeepsLinks, InFlight, Serving, CrossedBy

\* A failure of the only driver, whatever the handler did to the disk or to
\* the Host files.
LEMMA FailCarries ==
  ASSUME IInv, CutoverInv, NEW o \in Operator,
         \A p \in Operator \ {o} : op[p].pc \notin Driving,
         op[o].pc # "idle", Fail(o), Graphless,
         op[o].pc \in {"reclaim", "retain", "commit", "abort"} \/ UNCHANGED marker
  PROVE  CutoverInv'
<1>1. /\ \A p \in Operator \ {o} : op'[p] = op[p]
      /\ op'[o].pc \in {"idle", "abort", "restore"}
      /\ op'[o].pc # "idle" => op'[o] = [op[o] EXCEPT !.pc = op'[o].pc]
      /\ op'[o].pc = "restore" => op[o].receipt # 0 /\ ~op[o].gates
      /\ op[o].pc \in {"reclaim", "restore", "abort"} => op'[o].pc = "idle"
  BY FailMoves
<1>2. op[o] \in Call /\ op[o].pc \in Phase BY DEF IInv, TypeOK, Call
<1>3. Course(op[o], act[o]) BY DEF CutoverInv
<1>4. op'[o].pc # "idle" => op'[o].outcome = "none" /\ op'[o].release = op[o].release
  BY <1>1, <1>2, <1>3 DEF Course, Call
<1>5. Course(op[o], act[o])'
  BY <1>1, <1>4 DEF Course, Unsnapshotted, Preparing
<1>6. op'[o].pc \in Driving =>
        /\ marker' = op'[o].release
        /\ ReleaseLockFree \/ (op'[o].pc = "restore" /\ op[o].pc = "activating")
  <2> SUFFICES ASSUME op'[o].pc = "restore"
               PROVE  /\ marker' = op'[o].release
                      /\ ReleaseLockFree \/ op[o].pc = "activating"
    BY <1>1 DEF Driving
  <2>1. op[o].pc \notin {"idle", "reclaim", "abort", "restore", "commit", "retain"}
    BY <1>1, <1>3 DEF Course, Unsnapshotted
  <2>2. op[o].pc \in Driving /\ marker = op[o].release /\ UNCHANGED marker
    BY <1>2, <2>1 DEF Driving, CutoverInv, Marked
  <2>3. ReleaseLockFree \/ op[o].pc = "activating"
    BY <2>1, <2>2 DEF CutoverInv, OneActivator, ReleaseLockFree
  <2> QED BY <1>4, <2>2, <2>3
<1> QED BY <1>1, <1>5, <1>6, Carry, GraphlessKeeps DEF Graphless

\* A step beside a deploy of another, or no deploy's, that does nothing to the
\* Host.
LEMMA Aside ==
  ASSUME IInv, CutoverInv, NEW o \in Operator, UNCHANGED hostVars,
         \A p \in Operator \ {o} : op'[p] = op[p],
         \/ op'[o].pc = "idle"
         \/ op'[o].pc = "reclaim" /\ op'[o].outcome = "none" /\ op'[o].receipt = 0
  PROVE  CutoverInv'
<1>0. UNCHANGED <<disk, marker, links, running, act, crossed, config, ingress, receipts>>
  BY DEF hostVars, storeVars, graphVars, layerVars
<1>1. Marked' /\ OneActivator'
  BY <1>0 DEF CutoverInv, Marked, OneActivator, Driving
<1>2. BarrierKeepsLinks' /\ \A q \in Operator : InFlight(act[q])'
  BY <1>0, GraphlessKeeps DEF Graphless
<1>3. ASSUME NEW p \in Operator PROVE Course(op[p], act[p])'
  <2>1. CASE p = o
    BY <2>1 DEF Course, Unsnapshotted, Preparing
  <2>2. CASE p # o
    <3>1. Course(op[p], act[p]) /\ op'[p] = op[p] BY <2>2 DEF CutoverInv
    <3> QED BY <1>0, <3>1 DEF Course, CrossedBy, Serving, Whole
  <2> QED BY <2>1, <2>2
<1> QED BY <1>1, <1>2, <1>3 DEF CutoverInv

-----------------------------------------------------------------------------
(* The driver's actions, one deploy at a time                                *)

\* The phases in which a deploy knows nothing of the graph or the files.
Plain ==
  {"dry_run", "retain", "preconditions", "snapshot", "stage", "refresh", "restore_host"}
  \cup Preparing

LEMMA PlainCarries ==
  ASSUME IInv, CutoverInv, NEW o \in Operator,
         \A p \in Operator \ {o} : op[p].pc \notin Driving /\ op'[p] = op[p],
         Graphless, ReleaseLockFree,
         op'[o].outcome = "none", op'[o].pc \in Plain \cup {"abort"},
         op'[o].pc \in Plain => marker' = op'[o].release,
         op'[o].pc \in Unsnapshotted => op'[o].receipt = 0
  PROVE  CutoverInv'
<1>1. Course(op[o], act[o])' BY DEF Course, Plain, Preparing
<1>2. op'[o].pc \in Driving => op'[o].pc \in Plain BY DEF Driving
<1> QED BY <1>1, <1>2, Carry, GraphlessKeeps DEF Graphless

\* Where the driver has the Host to itself, what it may do there is its own.
LEMMA DriverAlone ==
  ASSUME IInv, CutoverInv, NEW o \in Operator, op[o].pc \in Driving \ {"activating", "restore"}
  PROVE  ReleaseLockFree /\ marker = op[o].release /\ op[o].outcome = "none"
BY DEF CutoverInv, Marked, OneActivator, ReleaseLockFree, Course, Driving

LEMMA GotoMoves ==
  ASSUME IInv, NEW o \in Operator, NEW pc, Goto(o, pc)
  PROVE  /\ op'[o] = [op[o] EXCEPT !.pc = pc] /\ op'[o].pc = pc
         /\ op'[o].release = op[o].release /\ op'[o].outcome = op[o].outcome
         /\ op'[o].receipt = op[o].receipt /\ op'[o].mode = op[o].mode
         /\ op'[o].gateError = op[o].gateError /\ op'[o].activation = op[o].activation
         /\ op'[o].prev = op[o].prev /\ op'[o].gates = op[o].gates
         /\ \A p \in Operator \ {o} : op'[p] = op[p]
BY DEF IInv, TypeOK, Goto, Call

\* From a plain phase to a plain phase.
LEMMA GotoPlain ==
  ASSUME IInv, CutoverInv, NEW o \in Operator,
         \A p \in Operator \ {o} : op[p].pc \notin Driving,
         op[o].pc \in Driving \ {"activating", "restore"}, NEW pc \in Plain, Goto(o, pc),
         Graphless, UNCHANGED marker, pc \in Unsnapshotted => op[o].pc \in Unsnapshotted
  PROVE  CutoverInv'
<1>1. ReleaseLockFree /\ marker = op[o].release /\ op[o].outcome = "none" BY DriverAlone
<1>2. Course(op[o], act[o]) BY DEF CutoverInv
<1>3. op[o].pc \in Unsnapshotted => op[o].receipt = 0 BY <1>2 DEF Course
<1>4. /\ op'[o].pc = pc /\ op'[o].release = op[o].release
      /\ op'[o].outcome = op[o].outcome /\ op'[o].receipt = op[o].receipt
      /\ \A p \in Operator \ {o} : op'[p] = op[p]
  BY GotoMoves
<1> QED BY <1>1, <1>3, <1>4, PlainCarries

LEMMA DriverPrepares ==
  ASSUME IInv, CutoverInv, NEW o \in Operator,
         \A p \in Operator \ {o} : op[p].pc \notin Driving,
         Prepare(o) \/ ClaimUpload(o) \/ CloseUpload(o) \/ StartBuild(o) \/ Built(o)
  PROVE  CutoverInv'
<1>1. CASE Prepare(o)
  <2>1. op[o].pc = "reclaim" /\ Graphless
    BY <1>1 DEF Prepare, At, Reclaim, ReclaimShort, ReclaimFails, ReclaimRefused, ReclaimTorn,
      hostVars, graphVars, Graphless
  <2>2. CASE Fail(o) BY <2>1, <2>2, FailCarries
  <2>3. CASE /\ Reclaim("prepare", op[o].release)
             /\ op' = [op EXCEPT ![o].pc = IF o \in Sealer THEN "guard" ELSE "dry_run",
                                 ![o].before = [links |-> links, config |-> config]]
    <3>1. ReleaseLockFree /\ marker' = op[o].release BY <2>3 DEF Reclaim, Accepts
    <3>2. op \in [Operator -> Call] /\ op[o] \in Call BY DEF IInv, TypeOK
    <3>3. /\ op'[o].pc \in {"guard", "dry_run"} /\ op'[o].release = op[o].release
          /\ op'[o].outcome = op[o].outcome /\ op'[o].receipt = op[o].receipt
          /\ \A p \in Operator \ {o} : op'[p] = op[p]
      BY <2>3, <3>2 DEF Call
    <3>4. Course(op[o], act[o]) BY DEF CutoverInv
    <3>5. op[o].outcome = "none" /\ op[o].receipt = 0
      BY <2>1, <3>4 DEF Course, Unsnapshotted
    <3> QED BY <2>1, <3>1, <3>3, <3>5, PlainCarries DEF Plain, Preparing
  <2> QED BY <1>1, <2>2, <2>3 DEF Prepare, Answer
<1>2. CASE ClaimUpload(o)
  <2>1. /\ op[o].pc = "guard" /\ Graphless /\ UNCHANGED marker
        /\ Goto(o, "upload") \/ Goto(o, "dry_run") \/ Fail(o)
    BY <1>2 DEF ClaimUpload, At, GuardUpload, Answer, hostVars, storeVars, graphVars, Graphless
  <2> QED BY <2>1, FailCarries, GotoPlain DEF Plain, Driving, Phase, Preparing, Unsnapshotted
<1>3. CASE CloseUpload(o)
  <2>1. /\ op[o].pc = "upload" /\ Graphless /\ UNCHANGED marker
        /\ Goto(o, "build") \/ Fail(o)
    BY <1>3 DEF CloseUpload, At, FinalizeUpload, Answer, hostVars, storeVars, graphVars, Graphless
  <2> QED BY <2>1, FailCarries, GotoPlain DEF Plain, Driving, Phase, Preparing, Unsnapshotted
<1>4. CASE StartBuild(o)
  <2>1. /\ op[o].pc = "build" /\ Graphless /\ UNCHANGED marker
        /\ Goto(o, "building") \/ Fail(o)
    BY <1>4 DEF StartBuild, At, BuildBegin, hostVars, storeVars, graphVars, Graphless
  <2> QED BY <2>1, FailCarries, GotoPlain DEF Plain, Driving, Phase, Preparing, Unsnapshotted
<1>5. CASE Built(o)
  <2>1. /\ op[o].pc = "building" /\ Graphless /\ UNCHANGED marker
        /\ Goto(o, "dry_run") \/ Fail(o)
    BY <1>5 DEF Built, At, Answer, hostVars, storeVars, graphVars, Graphless
  <2> QED BY <2>1, FailCarries, GotoPlain DEF Plain, Driving, Phase, Preparing, Unsnapshotted
<1> QED BY <1>1, <1>2, <1>3, <1>4, <1>5

\* A deploy that is over knows nothing.
LEMMA EndCarries ==
  ASSUME IInv, CutoverInv, NEW o \in Operator, NEW outcome, End(o, outcome),
         \A p \in Operator \ {o} : op[p].pc \notin Driving, Graphless
  PROVE  CutoverInv'
<1>1. op'[o].pc = "idle" /\ \A p \in Operator \ {o} : op'[p] = op[p]
  BY DEF End, Resting, IInv, TypeOK
<1>2. Course(op[o], act[o])' BY <1>1 DEF Course, Unsnapshotted, Preparing
<1> QED BY <1>1, <1>2, Carry, GraphlessKeeps DEF Graphless, Driving

LEMMA DriverStages ==
  ASSUME IInv, CutoverInv, NEW o \in Operator,
         \A p \in Operator \ {o} : op[p].pc \notin Driving,
         DryRun(o) \/ Retain(o) \/ Preconditions(o) \/ Snapshot(o) \/ Stage(o) \/ Refresh(o)
  PROVE  CutoverInv'
<1>1. CASE DryRun(o) \/ Preconditions(o)
  <2>1. /\ op[o].pc \in {"dry_run", "preconditions"} /\ Graphless /\ UNCHANGED marker
        /\ \/ \E pc \in {"retain", "preconditions", "snapshot"} : Goto(o, pc)
           \/ Fail(o)
    BY <1>1 DEF DryRun, Preconditions, At, hostVars, storeVars, graphVars, Graphless
  <2> QED BY <2>1, FailCarries, GotoPlain DEF Plain, Driving, Phase, Unsnapshotted
<1>2. CASE Retain(o)
  <2>1. op[o].pc = "retain" /\ Graphless /\ (End(o, "dry_run") \/ Fail(o))
    BY <1>2 DEF Retain, At, Reclaim, ReclaimFails, ReclaimRefused, ReclaimTorn, Answer,
      hostVars, graphVars, Graphless
  <2> QED BY <2>1, FailCarries, EndCarries
<1>3. CASE Snapshot(o)
  <2>1. op[o].pc = "snapshot" /\ Graphless /\ UNCHANGED marker
    BY <1>3 DEF Snapshot, At, CutoverSnapshot, hostVars, storeVars, graphVars, Graphless
  <2>2. CASE Fail(o) BY <2>1, <2>2, FailCarries
  <2>3. CASE op' = [op EXCEPT ![o].pc = "stage", ![o].receipt = Len(receipts')]
    <3>1. op \in [Operator -> Call] /\ op[o] \in Call BY DEF IInv, TypeOK
    <3>2. /\ op'[o].pc = "stage" /\ op'[o].release = op[o].release
          /\ op'[o].outcome = op[o].outcome /\ \A p \in Operator \ {o} : op'[p] = op[p]
      BY <2>3, <3>1 DEF Call
    <3>3. ReleaseLockFree /\ marker = op[o].release /\ op[o].outcome = "none"
      BY <2>1, DriverAlone DEF Driving, Phase
    <3> QED BY <2>1, <3>2, <3>3, PlainCarries DEF Plain, Unsnapshotted, Preparing
  <2> QED BY <1>3, <2>2, <2>3 DEF Snapshot, Answer
<1>4. CASE Stage(o)
  <2>1. /\ op[o].pc = "stage" /\ Graphless /\ UNCHANGED marker
        /\ Goto(o, "refresh") \/ Fail(o)
    BY <1>4 DEF Stage, At, StageConfiguration, storeVars, graphVars, Graphless
  <2> QED BY <2>1, FailCarries, GotoPlain DEF Plain, Driving, Phase, Preparing, Unsnapshotted
<1>5. CASE Refresh(o)
  <2>1. op[o].pc = "refresh" /\ Graphless /\ UNCHANGED marker
    BY <1>5 DEF Refresh, At, RefreshConfiguration, RefreshFails, storeVars, graphVars, Graphless
  <2>2. CASE Fail(o) BY <2>1, <2>2, FailCarries
  <2>3. CASE RefreshConfiguration(op[o].release) /\ Goto(o, "activate")
    <3>1. ReleaseLockFree /\ marker = op[o].release /\ op[o].outcome = "none"
      BY <2>1, DriverAlone DEF Driving, Phase
    <3>2. /\ op'[o].pc = "activate" /\ op'[o].release = op[o].release
          /\ op'[o].outcome = op[o].outcome /\ \A p \in Operator \ {o} : op'[p] = op[p]
      BY <2>3, GotoMoves
    <3>3. config' = Rendered(op'[o].release) BY <2>3, <3>2 DEF RefreshConfiguration
    <3>4. Course(op[o], act[o])'
      BY <3>1, <3>2, <3>3 DEF Course, Unsnapshotted, Preparing
    <3> QED BY <2>1, <3>1, <3>2, <3>4, Carry, GraphlessKeeps DEF Graphless
  <2> QED BY <1>5, <2>2, <2>3 DEF Refresh, Answer
<1> QED BY <1>1, <1>2, <1>3, <1>4, <1>5

\* The switch takes the lock; what it will put back is whole.
LEMMA DriverActivates ==
  ASSUME IInv, CutoverInv, NEW o \in Operator,
         \A p \in Operator \ {o} : op[p].pc \notin Driving, Activate(o)
  PROVE  CutoverInv'
<1>1. op[o].pc = "activate" BY DEF Activate, At
<1>2. CASE UNCHANGED hostVars /\ Fail(o)
  BY <1>1, <1>2, FailCarries DEF hostVars, storeVars, graphVars, Graphless
<1>3. CASE ActivateBegin(o, op[o].release) /\ Goto(o, "activating")
  <2>1. ReleaseLockFree /\ marker = op[o].release /\ op[o].outcome = "none"
    BY <1>1, DriverAlone DEF Driving, Phase
  <2>2. /\ op'[o].pc = "activating" /\ op'[o].release = op[o].release
        /\ op'[o].outcome = op[o].outcome /\ \A p \in Operator \ {o} : op'[p] = op[p]
    BY <1>3, GotoMoves
  <2>3. /\ act'[o].pc = "switching" /\ act'[o].release = op[o].release /\ act'[o].prev = links
        /\ \A p \in Operator \ {o} : act'[p] = act[p]
        /\ crossed' = NoRelease
        /\ UNCHANGED <<disk, marker, config>>
    BY <1>3 DEF ActivateBegin, storeVars, layerVars, IInv, TypeOK, HostTypeOK
  <2>4. config = Rendered(op[o].release) BY <1>1 DEF CutoverInv, Course
  <2>5. Course(op[o], act[o])'
    <3>1. \A c \in Component : disk'[act'[o].prev[c]] = "sealed"
      BY <2>3 DEF IInv, LinkedAndRunningIntact
    <3>2. act'[o].release = op'[o].release /\ config' = Rendered(op'[o].release)
      BY <2>2, <2>3, <2>4
    <3> QED BY <2>1, <2>2, <2>3, <3>1, <3>2 DEF Course, Unsnapshotted, Preparing
  <2>6. ASSUME NEW p \in Operator \ {o} PROVE Course(op[p], act[p])'
    <3>1. Course(op[p], act[p]) /\ op[p].pc \notin Driving /\ op'[p] = op[p] /\ op[p].pc \in Phase
      BY <2>2 DEF CutoverInv, IInv, TypeOK, Call
    <3> QED BY <3>1 DEF Course, Driving, Phase, Unsnapshotted, Preparing
  <2>7. Marked' BY <2>1, <2>2, <2>3 DEF Marked
  <2>8. OneActivator' BY <2>1, <2>2, <2>3 DEF OneActivator, ReleaseLockFree, Driving
  <2>9. BarrierKeepsLinks' /\ \A q \in Operator : InFlight(act[q])'
    BY <2>1, <2>3 DEF BarrierKeepsLinks, InFlight, ReleaseLockFree
  <2> QED BY <2>5, <2>6, <2>7, <2>8, <2>9 DEF CutoverInv
<1> QED BY <1>1, <1>2, <1>3 DEF Activate

LEMMA DriverReads ==
  ASSUME IInv, CutoverInv, NEW o \in Operator,
         \A p \in Operator \ {o} : op[p].pc \notin Driving, Activated(o) \/ LoseActivation(o)
  PROVE  CutoverInv'
<1>1. op[o].pc = "activating" /\ UNCHANGED hostVars /\ Graphless /\ UNCHANGED marker
  BY DEF Activated, LoseActivation, At, hostVars, storeVars, graphVars, Graphless
<1>2. UNCHANGED <<disk, marker, links, running, act, crossed, config, ingress, receipts>>
  BY <1>1 DEF hostVars, storeVars, graphVars, layerVars
<1>3. CASE Fail(o) BY <1>1, <1>3, FailCarries
<1>4. op \in [Operator -> Call] /\ op[o] \in Call /\ act[o] \in Activation
  BY DEF IInv, TypeOK, HostTypeOK
<1>5. /\ op[o].outcome = "none" /\ config = Rendered(op[o].release)
      /\ act[o].release = op[o].release
      /\ \A c \in Component : disk[act[o].prev[c]] = "sealed"
      /\ act[o].pc = "idle" /\ act[o].result # "error" =>
           CrossedBy(act[o].release) /\ Serving(act[o].release)
  BY <1>1 DEF CutoverInv, Course
<1>6. marker = op[o].release /\ (act[o].pc = "idle" => ReleaseLockFree)
  BY <1>1 DEF CutoverInv, Marked, OneActivator, ReleaseLockFree, Driving, Phase
<1>7. CASE /\ act[o].pc = "idle" /\ act[o].result = "activated"
           /\ SealedMode(op[o].release) = op[o].mode
           /\ op'[o].pc = "gate" /\ op'[o].prev = act[o].prev
           /\ op'[o].activation = "activated" /\ op'[o].mode = op[o].mode
           /\ op'[o].release = op[o].release /\ op'[o].outcome = op[o].outcome
           /\ \A p \in Operator \ {o} : op'[p] = op[p]
  <2>1. CrossedBy(op[o].release)' /\ Serving(op[o].release)'
    BY <1>2, <1>5, <1>7 DEF CrossedBy, Serving
  <2>2. Course(op[o], act[o])'
    BY <1>2, <1>5, <1>7, <2>1 DEF Course, CrossedBy, Serving, Unsnapshotted, Preparing
  <2> QED BY <1>1, <1>2, <1>6, <1>7, <2>2, Carry, GraphlessKeeps DEF Graphless
<1>8. CASE /\ act[o].pc = "idle"
           /\ op'[o].pc = "finalize" /\ op'[o].gateError
           /\ op'[o].release = op[o].release /\ op'[o].outcome = op[o].outcome
           /\ \A p \in Operator \ {o} : op'[p] = op[p]
  <2>1. Course(op[o], act[o])'
    BY <1>2, <1>5, <1>8 DEF Course, Unsnapshotted, Preparing
  <2> QED BY <1>1, <1>2, <1>6, <1>8, <2>1, Carry, GraphlessKeeps DEF Graphless
<1>9. ASSUME Activated(o), ~Fail(o)
      PROVE  /\ act[o].pc = "idle"
             /\ \/ /\ act[o].result = "activated"
                   /\ SealedMode(op[o].release) = op[o].mode
                   /\ op'[o].pc = "gate" /\ op'[o].prev = act[o].prev
                   /\ op'[o].activation = "activated" /\ op'[o].mode = op[o].mode
                   /\ op'[o].release = op[o].release /\ op'[o].outcome = op[o].outcome
                   /\ \A p \in Operator \ {o} : op'[p] = op[p]
                \/ /\ op'[o].pc = "finalize" /\ op'[o].gateError
                   /\ op'[o].release = op[o].release /\ op'[o].outcome = op[o].outcome
                   /\ \A p \in Operator \ {o} : op'[p] = op[p]
  BY <1>4, <1>9 DEF Activated, Call
<1> QED BY <1>3, <1>7, <1>8, <1>9 DEF LoseActivation

\* A failed gate before the barrier is undone, beyond it recorded.
LEMMA GateFailsCarries ==
  ASSUME IInv, CutoverInv, NEW o \in Operator, op[o].pc \in {"gate", "doctor"},
         \A p \in Operator \ {o} : op[p].pc \notin Driving,
         Graphless, UNCHANGED <<disk, marker, config>>, GateFails(o)
  PROVE  CutoverInv'
<1>1. op \in [Operator -> Call] /\ op[o] \in Call BY DEF IInv, TypeOK
<1>2. /\ op'[o].pc = (IF op[o].mode = "forward-only" THEN "finalize" ELSE "rollback")
      /\ op'[o].gateError /\ op'[o].release = op[o].release /\ op'[o].mode = op[o].mode
      /\ op'[o].outcome = op[o].outcome /\ op'[o].prev = op[o].prev
      /\ \A p \in Operator \ {o} : op'[p] = op[p]
      /\ op[o].mode \in Mode
  BY <1>1 DEF GateFails, Call
<1>3. ReleaseLockFree /\ marker = op[o].release /\ op[o].outcome = "none"
  BY DriverAlone DEF Driving, Phase
<1>4. /\ config = Rendered(op[o].release) /\ op[o].mode = SealedMode(op[o].release)
      /\ \A c \in Component : disk[op[o].prev[c]] = "sealed"
      /\ CrossedBy(op[o].release)
  BY DEF CutoverInv, Course
<1>5. CrossedBy(op[o].release)' BY <1>2, <1>4 DEF CrossedBy, Graphless
<1>6. op'[o].pc = "rollback" => op'[o].mode = "reversible" BY <1>2 DEF Mode
<1>7. Course(op[o], act[o])'
  BY <1>2, <1>3, <1>4, <1>5, <1>6 DEF Course, CrossedBy, Unsnapshotted, Preparing
<1> QED BY <1>2, <1>3, <1>7, Carry, GraphlessKeeps DEF Graphless

\* The restart leaves every unit on the one release the links name.
LEMMA ConvergeMakesWhole ==
  ASSUME IInv, NEW r \in Release, Serving(r), config = Rendered(r), ConvergeRunning
  PROVE  Whole(r)'
<1>1. links = Everywhere(r) /\ running \in [Component -> Release \cup {NoRelease}]
  BY DEF Serving, IInv, TypeOK, HostTypeOK
<1>2. \A c \in Component : running[c] \notin ActiveIds => c \in Stale
  BY DEF Serving, Stale
<1>3. ASSUME NEW c \in Component PROVE running'[c] = r
  <2>1. ActiveIds \subseteq {r} /\ links[c] = r BY <1>1 DEF ActiveIds, Everywhere
  <2> QED BY <1>2, <2>1 DEF ConvergeRunning
<1>4. running' = Everywhere(r)
  BY <1>3 DEF Everywhere, ConvergeRunning
<1> QED BY <1>1, <1>4 DEF ConvergeRunning, Whole

LEMMA DriverGates ==
  ASSUME IInv, CutoverInv, NEW o \in Operator,
         \A p \in Operator \ {o} : op[p].pc \notin Driving, Gate(o) \/ Doctor(o)
  PROVE  CutoverInv'
<1>1. op[o] \in Call /\ op[o].release \in Release BY DEF IInv, TypeOK, Call
<1>2. CASE Gate(o)
  <2>1. op[o].pc = "gate" /\ Graphless /\ UNCHANGED <<disk, marker, config>>
    <3>1. /\ op[o].pc = "gate" /\ UNCHANGED <<disk, marker, config, links, act, crossed>>
          /\ \A c \in Component : running'[c] \in {running[c], links[c]}
      BY <1>2 DEF Gate, At, ConvergeRunning, ConvergeFails, storeVars, IInv, TypeOK, HostTypeOK
    <3>2. \A c \in Component : links[c] # NoRelease
      BY ReleaseAssumption DEF IInv, TypeOK, HostTypeOK
    <3> QED BY <3>1, <3>2 DEF Graphless
  <2>2. CASE GateFails(o) BY <2>1, <2>2, GateFailsCarries
  <2>3. CASE ConvergeRunning /\ Goto(o, "doctor")
    <3>1. ReleaseLockFree /\ marker = op[o].release /\ op[o].outcome = "none"
      BY <2>1, DriverAlone DEF Driving, Phase
    <3>2. /\ op'[o].pc = "doctor" /\ op'[o].release = op[o].release /\ op'[o].mode = op[o].mode
          /\ op'[o].outcome = op[o].outcome /\ op'[o].prev = op[o].prev
          /\ op'[o].activation = op[o].activation
          /\ \A p \in Operator \ {o} : op'[p] = op[p]
      BY <2>3, GotoMoves
    <3>3. /\ config = Rendered(op[o].release) /\ op[o].mode = SealedMode(op[o].release)
          /\ \A c \in Component : disk[op[o].prev[c]] = "sealed"
          /\ CrossedBy(op[o].release) /\ Serving(op[o].release) /\ op[o].activation = "activated"
      BY <2>1 DEF CutoverInv, Course
    <3>4. Whole(op[o].release)'
      <4>1. PICK r \in Release : r = op[o].release BY <1>1
      <4>2. Whole(r)' BY <2>3, <3>3, <4>1, ConvergeMakesWhole
      <4> QED BY <3>2, <4>1, <4>2 DEF Whole
    <3>5. CrossedBy(op[o].release)' /\ Serving(op[o].release)'
      BY <2>1, <3>2, <3>3 DEF CrossedBy, Serving, Graphless
    <3>6. Course(op[o], act[o])'
      BY <2>1, <3>1, <3>2, <3>3, <3>4, <3>5
      DEF Course, CrossedBy, Serving, Whole, Unsnapshotted, Preparing
    <3> QED BY <2>1, <3>1, <3>2, <3>6, Carry, GraphlessKeeps DEF Graphless
  <2> QED BY <1>2, <2>2, <2>3 DEF Gate
<1>3. CASE Doctor(o)
  <2>1. /\ op[o].pc = "doctor" /\ Graphless
        /\ UNCHANGED <<disk, marker, links, running, act, crossed, config, ingress, receipts>>
    BY <1>3 DEF Doctor, At, hostVars, storeVars, graphVars, layerVars, Graphless
  <2>2. CASE GateFails(o) BY <2>1, <2>2, GateFailsCarries
  <2>3. CASE Goto(o, "finalize")
    <3>1. ReleaseLockFree /\ marker = op[o].release /\ op[o].outcome = "none"
      BY <2>1, DriverAlone DEF Driving, Phase
    <3>2. /\ op'[o].pc = "finalize" /\ op'[o].release = op[o].release
          /\ op'[o].outcome = op[o].outcome /\ op'[o].activation = op[o].activation
          /\ \A p \in Operator \ {o} : op'[p] = op[p]
      BY <2>3, GotoMoves
    <3>3. config = Rendered(op[o].release) /\ Whole(op[o].release) /\ op[o].activation = "activated"
      BY <2>1 DEF CutoverInv, Course
    <3>4. Whole(op[o].release)' BY <2>1, <3>2, <3>3 DEF Whole
    <3>5. Course(op[o], act[o])'
      BY <2>1, <3>1, <3>2, <3>3, <3>4 DEF Course, Whole, Unsnapshotted, Preparing
    <3> QED BY <2>1, <3>1, <3>2, <3>5, Carry, GraphlessKeeps DEF Graphless
  <2> QED BY <1>3, <2>2, <2>3 DEF Doctor
<1> QED BY <1>2, <1>3

\* Before the barrier nothing was crossed that the old links could not read.
LEMMA DriverRollsBack ==
  ASSUME IInv, CutoverInv, NEW o \in Operator,
         \A p \in Operator \ {o} : op[p].pc \notin Driving, Rollback(o)
  PROVE  CutoverInv'
<1>1. op[o].pc = "rollback" /\ Goto(o, "restore_host") BY DEF Rollback, At
<1>2. ReleaseLockFree /\ marker = op[o].release /\ op[o].outcome = "none"
  BY <1>1, DriverAlone DEF Driving, Phase
<1>3. CASE ActivatorRollbackFails(op[o].prev)
  <2>1. Graphless /\ UNCHANGED marker
    BY <1>3 DEF ActivatorRollbackFails, hostVars, storeVars, graphVars, Graphless
  <2> QED BY <1>1, <2>1, GotoPlain DEF Plain, Driving, Phase, Unsnapshotted, Preparing
<1>4. CASE ActivatorRollback(op[o].prev)
  <2>1. op'[o].pc = "restore_host" /\ op'[o].release = op[o].release
        /\ op'[o].outcome = op[o].outcome /\ \A p \in Operator \ {o} : op'[p] = op[p]
    BY <1>1, GotoMoves
  <2>2. UNCHANGED <<marker, act, crossed>> BY <1>4 DEF ActivatorRollback, storeVars
  <2>3. crossed = NoRelease
    BY <1>1 DEF CutoverInv, Course, CrossedBy, SealedMode
  <2>4. BarrierKeepsLinks' /\ \A q \in Operator : InFlight(act[q])'
    BY <1>2, <2>2, <2>3 DEF BarrierKeepsLinks, InFlight, ReleaseLockFree
  <2>5. Course(op[o], act[o])'
    BY <1>2, <2>1 DEF Course, Unsnapshotted, Preparing
  <2> QED BY <1>2, <2>1, <2>2, <2>4, <2>5, Carry
<1> QED BY <1>3, <1>4 DEF Rollback

LEMMA DriverRestores ==
  ASSUME IInv, CutoverInv, NEW o \in Operator,
         \A p \in Operator \ {o} : op[p].pc \notin Driving,
         RestoreHost(o) \/ Restore(o) \/ Abort(o)
  PROVE  CutoverInv'
<1>1. CASE RestoreHost(o) \/ Restore(o)
  <2>1. op[o].pc \in {"restore_host", "restore"} /\ Graphless /\ UNCHANGED marker
    BY <1>1 DEF RestoreHost, Restore, At, CutoverRestore, CutoverRestoreFails,
      storeVars, graphVars, Graphless
  <2>2. CASE Fail(o) BY <2>1, <2>2, FailCarries
  <2>3. ASSUME ~Fail(o)
        PROVE  /\ op'[o].pc = "abort" /\ op'[o].outcome = op[o].outcome
               /\ \A p \in Operator \ {o} : op'[p] = op[p]
    <3>1. op \in [Operator -> Call] /\ op[o] \in Call BY DEF IInv, TypeOK
    <3>2. Goto(o, "abort") \/ op' = [op EXCEPT ![o].pc = "abort", ![o].restored = TRUE]
      BY <1>1, <2>3 DEF RestoreHost, Restore, Answer
    <3> QED BY <3>1, <3>2 DEF Goto, Call
  <2>4. op[o].outcome = "none" BY <2>1 DEF CutoverInv, Course
  <2>5. CASE ~Fail(o)
    <3>1. Course(op[o], act[o])'
      BY <2>3, <2>4, <2>5 DEF Course, Unsnapshotted, Preparing
    <3> QED BY <2>1, <2>3, <2>5, <3>1, Carry, GraphlessKeeps DEF Graphless, Driving
  <2> QED BY <2>2, <2>5
<1>2. CASE Abort(o)
  <2>1. op[o].pc = "abort" /\ Graphless /\ (End(o, "failed") \/ Fail(o))
    BY <1>2 DEF Abort, At, Reclaim, ReclaimFails, ReclaimRefused, ReclaimTorn, Answer,
      hostVars, graphVars, Graphless
  <2> QED BY <2>1, FailCarries, EndCarries
<1> QED BY <1>1, <1>2

LEMMA DriverCloses ==
  ASSUME IInv, CutoverInv, NEW o \in Operator,
         \A p \in Operator \ {o} : op[p].pc \notin Driving, Finalize(o) \/ Commit(o)
  PROVE  CutoverInv'
<1>1. CASE Finalize(o)
  <2>1. op[o].pc = "finalize" /\ Graphless /\ UNCHANGED <<marker, config, ingress, links, running>>
    BY <1>1 DEF Finalize, At, CutoverFinalize, CutoverFinalizeFails,
      hostVars, storeVars, graphVars, layerVars, Graphless
  <2>2. CASE Fail(o) BY <2>1, <2>2, FailCarries
  <2>3. CASE /\ CutoverFinalize(op[o].receipt, op[o].activation)
             /\ op' = [op EXCEPT ![o].pc = "commit", ![o].gates = TRUE]
    <3>1. /\ op \in [Operator -> Call] /\ op[o] \in Call /\ receipts \in Seq(Document)
          /\ op[o].receipt \in 1..Len(receipts)
      BY <2>1 DEF IInv, TypeOK, HostTypeOK, LocalsReady, Snapshotted, Call
    <3>2. /\ op'[o].pc = "commit" /\ op'[o].gates /\ op'[o].release = op[o].release
          /\ op'[o].outcome = op[o].outcome /\ op'[o].gateError = op[o].gateError
          /\ op'[o].receipt = op[o].receipt /\ op'[o].activation = op[o].activation
          /\ \A p \in Operator \ {o} : op'[p] = op[p]
      BY <2>3, <3>1 DEF Call
    <3>3. ReleaseLockFree /\ marker = op[o].release /\ op[o].outcome = "none"
      BY <2>1, DriverAlone DEF Driving, Phase
    <3>4. /\ config = Rendered(op[o].release)
          /\ ~op[o].gateError => Whole(op[o].release) /\ op[o].activation = "activated"
      BY <2>1 DEF CutoverInv, Course
    <3>5. ~op[o].gateError => Whole(op[o].release)'
      BY <2>1, <3>2, <3>4 DEF Whole
    <3>6. receipts'[op[o].receipt].status = op[o].activation
      BY <2>3, <3>1 DEF CutoverFinalize, Document
    <3>7. Course(op[o], act[o])'
      BY <2>1, <3>2, <3>3, <3>4, <3>5, <3>6 DEF Course, Whole, Unsnapshotted, Preparing
    <3> QED BY <2>1, <3>2, <3>3, <3>7, Carry, GraphlessKeeps DEF Graphless
  <2> QED BY <1>1, <2>2, <2>3 DEF Finalize, Answer
<1>2. CASE Commit(o)
  <2>1. /\ op[o].pc = "commit" /\ Graphless
        /\ (End(o, IF op[o].gateError THEN "forward_fix" ELSE "activated") \/ Fail(o))
    BY <1>2 DEF Commit, At, Reclaim, ReclaimFails, ReclaimRefused, ReclaimTorn, Answer,
      hostVars, graphVars, Graphless
  <2> QED BY <2>1, FailCarries, EndCarries
<1> QED BY <1>1, <1>2

\* Beside a deploy every other one is refused before it has done anything.
LEMMA Bystander ==
  ASSUME IInv, CutoverInv, Apart, NEW o \in Operator, Driver(o),
         NEW p \in Operator \ {o}, op[p].pc \in Driving
  PROVE  CutoverInv'
<1>1. op[o].pc \notin Driving BY OneDriver
<1>2. Prepare(o) \/ Abort(o)
  BY <1>1 DEF Driver, Driving, Phase, Preparing, At, ClaimUpload, CloseUpload, StartBuild, Built,
    DryRun, Retain, Preconditions, Snapshot, Stage, Refresh, Activate, Activated, LoseActivation,
    Gate, Doctor, Rollback, RestoreHost, Finalize, Commit, Restore
<1>3. op[o].pc \in {"reclaim", "abort"} BY <1>2 DEF Prepare, Abort, At
<1>4. \A phase : ~Accepts(phase, op[o].release)
  BY <1>3, MarkerGuards DEF Apart, Driving
<1>5. UNCHANGED hostVars /\ Fail(o)
  BY <1>2, <1>4 DEF Prepare, Abort, Reclaim, ReclaimShort, ReclaimFails, ReclaimTorn, ReclaimRefused
<1>6. op'[o].pc = "idle" /\ \A q \in Operator \ {o} : op'[q] = op[q]
  BY <1>3, <1>5, FailMoves
<1> QED BY <1>5, <1>6, Aside

LEMMA DriverStep ==
  ASSUME IInv, CutoverInv, Apart, NEW o \in Operator, Driver(o)
  PROVE  CutoverInv'
<1>1. CASE \E p \in Operator \ {o} : op[p].pc \in Driving
  BY <1>1, Bystander
<1>2. CASE \A p \in Operator \ {o} : op[p].pc \notin Driving
  BY <1>2, DriverPrepares, DriverStages, DriverActivates, DriverReads, DriverGates,
    DriverRollsBack, DriverRestores, DriverCloses DEF Driver
<1> QED BY <1>1, <1>2

-----------------------------------------------------------------------------
(* What happens on the Host, and the commands of others                      *)

LEMMA ActivatorMoves ==
  ASSUME IInv, CutoverInv, NEW q \in Operator, act[q].pc # "idle",
         \A p \in Operator \ {q} : act'[p] = act[p],
         act'[q].release = act[q].release, act'[q].prev = act[q].prev,
         UNCHANGED <<storeVars, layerVars, op>>,
         BarrierKeepsLinks', InFlight(act[q])',
         act'[q].pc = "idle" /\ act'[q].result # "error" =>
           CrossedBy(act[q].release)' /\ Serving(act[q].release)'
  PROVE  CutoverInv'
<1>0. UNCHANGED <<disk, marker, config, ingress, receipts>> BY DEF storeVars, layerVars
<1>1. Marked' BY <1>0 DEF CutoverInv, Marked
<1>2. \A p \in Operator \ {q} : act[p].pc = "idle" BY DEF CutoverInv, OneActivator
<1>3. \A o \in Operator : op[o].pc \in Driving => o = q /\ op[o].pc \in {"activating", "restore"}
  BY DEF CutoverInv, OneActivator
<1>4. OneActivator' BY <1>2, <1>3 DEF OneActivator
<1>5. ASSUME NEW p \in Operator PROVE InFlight(act[p])'
  BY <1>2 DEF InFlight
<1>6. ASSUME NEW p \in Operator PROVE Course(op[p], act[p])'
  <2>1. Course(op[p], act[p]) /\ op[p].pc \in Phase BY DEF CutoverInv, IInv, TypeOK, Call
  <2>2. CASE op[p].pc = "activating"
    <3>1. p = q BY <1>3, <2>2 DEF Driving, Phase
    <3> QED BY <1>0, <2>1, <2>2, <3>1 DEF Course, CrossedBy, Serving, Unsnapshotted, Preparing
  <2>3. CASE op[p].pc # "activating"
    <3>1. op[p].pc \in {"idle", "reclaim", "abort", "restore"} BY <1>3, <2>1, <2>3 DEF Driving
    <3> QED BY <2>1, <3>1 DEF Course, Unsnapshotted, Preparing
  <2> QED BY <2>2, <2>3
<1> QED BY <1>1, <1>4, <1>5, <1>6 DEF CutoverInv

LEMMA ActivatorStep ==
  ASSUME IInv, CutoverInv, NEW q \in Operator, Activator(q) \/ ActivatorDies(q), UNCHANGED op
  PROVE  CutoverInv'
<1>1. /\ act \in [Operator -> Activation] /\ act[q] \in Activation /\ act[q].release \in Release
      /\ act[q].release # NoRelease
  BY ReleaseAssumption DEF IInv, TypeOK, HostTypeOK, Activation
<1>2. BarrierKeepsLinks /\ InFlight(act[q]) BY DEF CutoverInv
<1>3. ASSUME NEW result, Answers(q, result)
      PROVE  /\ act'[q].pc = "idle" /\ act'[q].result = result
             /\ act'[q].release = act[q].release /\ act'[q].prev = act[q].prev
             /\ \A p \in Operator \ {q} : act'[p] = act[p]
  BY <1>1, <1>3 DEF Answers, Activation
<1>4. CASE \E c \in Component : SwitchLink(q, c)
  <2>1. act[q].pc = "switching" /\ UNCHANGED <<storeVars, act, crossed, layerVars>>
    BY <1>4 DEF SwitchLink
  <2>2. BarrierKeepsLinks' /\ InFlight(act[q])' BY <1>2, <2>1 DEF InFlight, BarrierKeepsLinks
  <2> QED BY <2>1, <2>2, ActivatorMoves
<1>5. CASE StartUnits(q)
  <2>1. /\ act[q].pc = "switching" /\ links = Everywhere(act[q].release) /\ links' = links
        /\ act'[q].pc = "started" /\ act'[q].release = act[q].release
        /\ act'[q].prev = act[q].prev /\ \A p \in Operator \ {q} : act'[p] = act[p]
        /\ UNCHANGED <<storeVars, layerVars>>
        /\ crossed' = IF act[q].release \in ForwardOnly THEN act[q].release ELSE NoRelease
    BY <1>1, <1>5 DEF StartUnits, Activation
  <2>2. \A c \in Component : running'[c] # NoRelease
    BY <1>1, <1>5, <2>1 DEF StartUnits, Everywhere
  <2>3. BarrierKeepsLinks' /\ InFlight(act[q])'
    BY <1>1, <2>1, <2>2 DEF InFlight, BarrierKeepsLinks, CrossedBy, Serving
  <2> QED BY <2>1, <2>3, ActivatorMoves
<1>6. CASE BecomeReady(q) \/ ForwardFixRequired(q) \/ ActivatorDies(q)
  <2>1. PICK result : Answers(q, result) /\ (act[q].pc # "started" => result = "error")
    BY <1>6 DEF BecomeReady, ForwardFixRequired, ActivatorDies
  <2>2. act[q].pc # "idle" /\ UNCHANGED <<storeVars, links, running, crossed, layerVars>>
    BY <1>6 DEF BecomeReady, ForwardFixRequired, ActivatorDies
  <2>3. BarrierKeepsLinks' BY <1>2, <2>2 DEF BarrierKeepsLinks
  <2>4. InFlight(act[q])' BY <1>3, <2>1 DEF InFlight
  <2>5. act[q].pc = "started" => CrossedBy(act[q].release) /\ Serving(act[q].release)
    BY <1>2 DEF InFlight
  <2>6. act'[q].pc = "idle" /\ act'[q].result # "error" =>
          CrossedBy(act[q].release)' /\ Serving(act[q].release)'
    BY <1>3, <2>1, <2>2, <2>5 DEF CrossedBy, Serving
  <2> QED BY <1>3, <2>1, <2>2, <2>3, <2>4, <2>6, ActivatorMoves
<1>7. CASE ActivateRestores(q)
  <2>1. /\ act[q].pc # "idle" /\ Answers(q, "error") /\ crossed = NoRelease
        /\ UNCHANGED <<storeVars, crossed, layerVars>>
    BY <1>7 DEF ActivateRestores
  <2>2. act'[q].pc = "idle" /\ act'[q].result = "error"
        /\ act'[q].release = act[q].release /\ act'[q].prev = act[q].prev
        /\ \A p \in Operator \ {q} : act'[p] = act[p]
    BY <1>3, <2>1
  <2>3. BarrierKeepsLinks' /\ InFlight(act[q])'
    BY <2>1, <2>2 DEF BarrierKeepsLinks, InFlight
  <2> QED BY <2>1, <2>2, <2>3, ActivatorMoves
<1> QED BY <1>4, <1>5, <1>6, <1>7 DEF Activator

\* A build ends on a directory that nothing was linked to; a unit that comes
\* back by itself comes back on what its link names.
LEMMA HostMovesOn ==
  ASSUME IInv, CutoverInv, BuildEnd \/ (\E c \in Component : UnitReexec(c)), UNCHANGED op
  PROVE  CutoverInv'
<1>1. CASE BuildEnd
  <2>1. /\ building # NoRelease /\ disk[building] = "unsealed"
        /\ UNCHANGED <<marker, links, running, act, crossed, config, ingress, receipts>>
        /\ \A d \in Release : disk[d] = "sealed" => disk'[d] = "sealed"
    BY <1>1 DEF BuildEnd, IInv, TypeOK, HostTypeOK, BuildUnsealed, graphVars, layerVars
  <2>2. Marked' /\ OneActivator' BY <2>1 DEF CutoverInv, Marked, OneActivator
  <2>3. BarrierKeepsLinks' /\ \A q \in Operator : InFlight(act[q])'
    BY <2>1, GraphlessKeeps DEF Graphless
  <2>4. ASSUME NEW p \in Operator PROVE Course(op[p], act[p])'
    <3>1. Course(op[p], act[p]) BY DEF CutoverInv
    <3>2. \A c \in Component : op[p].prev[c] \in Release /\ act[p].prev[c] \in Release
      BY DEF IInv, TypeOK, HostTypeOK, Call, Activation
    <3> QED BY <2>1, <3>1, <3>2 DEF Course, CrossedBy, Serving, Whole
  <2> QED BY <2>2, <2>3, <2>4 DEF CutoverInv
<1>2. ASSUME NEW c \in Component, UnitReexec(c) PROVE CutoverInv'
  <2>1. /\ UNCHANGED <<disk, marker, links, act, crossed, config, ingress, receipts>>
        /\ running[c] # links[c] /\ links[c] # NoRelease
        /\ running \in [Component -> Release \cup {NoRelease}]
        /\ running' = [running EXCEPT ![c] = links[c]]
    BY <1>2, ReleaseAssumption DEF UnitReexec, storeVars, layerVars, IInv, TypeOK, HostTypeOK
  <2>2. Graphless BY <2>1 DEF Graphless
  <2>3. Marked' /\ OneActivator' BY <2>1 DEF CutoverInv, Marked, OneActivator
  <2>4. BarrierKeepsLinks' /\ \A q \in Operator : InFlight(act[q])' BY <2>2, GraphlessKeeps
  <2>5. ASSUME NEW p \in Operator PROVE Course(op[p], act[p])'
    <3>1. Course(op[p], act[p]) BY DEF CutoverInv
    <3>2. ~Whole(op[p].release) BY <2>1 DEF Whole, Everywhere
    <3>3. ASSUME NEW r, CrossedBy(r) PROVE CrossedBy(r)' BY <2>1, <3>3 DEF CrossedBy
    <3>4. ASSUME NEW r, Serving(r) PROVE Serving(r)' BY <2>1, <3>4 DEF Serving
    <3> QED BY <2>1, <3>1, <3>2, <3>3, <3>4 DEF Course, Serving, CrossedBy
  <2> QED BY <2>3, <2>4, <2>5 DEF CutoverInv
<1> QED BY <1>1, <1>2

\* An abandon is refused to everybody else while a deploy runs.
LEMMA AbandonStep ==
  ASSUME IInv, CutoverInv, Unforced, NEW r \in Release, Abandon(r)
  PROVE  CutoverInv'
<1>1. \A p \in Operator : op[p].pc \notin Driving
  <2> SUFFICES ASSUME NEW p \in Operator, op[p].pc \in Driving PROVE FALSE
    OBVIOUS
  <2>1. Accepts("abort", r) BY DEF Abandon, Reclaim, ReclaimTorn
  <2>2. r = op[p].release BY <2>1, MarkerGuards
  <2> QED BY <2>2 DEF Abandon, Unforced, Driving
<1>2. Graphless /\ UNCHANGED op
  BY DEF Abandon, Reclaim, ReclaimTorn, graphVars, Graphless
<1>3. ASSUME NEW p \in Operator PROVE Course(op[p], act[p])'
  <2>1. Course(op[p], act[p]) /\ op[p].pc \in Phase BY DEF CutoverInv, IInv, TypeOK, Call
  <2> QED BY <1>1, <1>2, <2>1 DEF Course, Driving, Phase, Unsnapshotted, Preparing
<1>4. Marked' /\ OneActivator'
  BY <1>1, <1>2 DEF CutoverInv, Marked, OneActivator, Graphless
<1> QED BY <1>2, <1>3, <1>4, GraphlessKeeps DEF CutoverInv

LEMMA CutoverInit == Init => CutoverInv
<1> SUFFICES ASSUME Init PROVE CutoverInv OBVIOUS
<1>1. \A o \in Operator : op[o].pc = "idle" /\ act[o].pc = "idle"
  BY DEF Init, HostInit, Resting
<1>2. crossed = NoRelease BY DEF Init, HostInit
<1> QED BY <1>1, <1>2 DEF CutoverInv, Marked, OneActivator, BarrierKeepsLinks, InFlight, Course,
  Driving, Unsnapshotted, Preparing

LEMMA CutoverStays == ASSUME IInv, CutoverInv, UNCHANGED vars PROVE CutoverInv'
BY DEF vars, hostVars, storeVars, graphVars, layerVars, CutoverInv, Marked, OneActivator,
  BarrierKeepsLinks, InFlight, Course, CrossedBy, Serving, Whole

LEMMA CutoverInductive ==
  ASSUME Unforced, IInv, CutoverInv, Apart, [Next]_vars
  PROVE  CutoverInv'
<1>1. ASSUME NEW o \in Operator, Driver(o) PROVE CutoverInv' BY <1>1, DriverStep
<1>2. ASSUME NEW o \in Operator, OperatorDies(o) PROVE CutoverInv'
  <2>1. /\ op'[o].pc = "idle" /\ UNCHANGED hostVars
        /\ \A p \in Operator \ {o} : op'[p] = op[p]
    BY <1>2 DEF OperatorDies, End, Resting, IInv, TypeOK
  <2> QED BY <2>1, Aside
<1>3. ASSUME NEW o \in Operator, NEW r \in Release, NEW mode \in Mode, Begin(o, r, mode)
      PROVE  CutoverInv'
  <2>1. /\ op'[o].pc = "reclaim" /\ op'[o].outcome = "none" /\ op'[o].receipt = 0
        /\ \A p \in Operator \ {o} : op'[p] = op[p]
    BY <1>3 DEF Begin, Resting, IInv, TypeOK
  <2>2. UNCHANGED hostVars BY <1>3 DEF Begin
  <2> QED BY <2>1, <2>2, Aside
<1>4. ASSUME NEW r \in Release, Abandon(r) PROVE CutoverInv' BY <1>4, AbandonStep
<1>5. ASSUME NEW o \in Operator, NEW r \in Release, RollbackByHand(o, r) PROVE CutoverInv'
  BY <1>5 DEF RollbackByHand, Unforced
<1>6. ASSUME HostNext, UNCHANGED <<op, deploys>> PROVE CutoverInv'
  BY <1>6, ActivatorStep, HostMovesOn DEF HostNext, HostReboots, Unforced
<1>7. ASSUME Rest \/ UNCHANGED vars PROVE CutoverInv' BY <1>7, CutoverStays DEF Rest
<1> QED BY <1>1, <1>2, <1>3, <1>4, <1>5, <1>6, <1>7 DEF Next

-----------------------------------------------------------------------------
(* The theorems: Spec, and no two workstations ever drive one release        *)

LEMMA CutoverCourse ==
  ASSUME Unforced
  PROVE  Spec /\ []Apart => [](IInv /\ CutoverInv)
<1>1. Init => CutoverInv BY CutoverInit
<1>2. IInv /\ CutoverInv /\ Apart /\ [Next]_vars => CutoverInv'
  BY CutoverInductive
<1> QED BY <1>1, <1>2, Inductive, PTL DEF Spec

\* RollbackTargetKept: whatever another workstation, a crash or the collector
\* does meanwhile, what an open gate would go back to is whole.
THEOREM RollbackTargetIsKept ==
  ASSUME Unforced
  PROVE  Spec /\ []Apart => []RollbackTargetKept
<1>1. CutoverInv => RollbackTargetKept BY DEF CutoverInv, Course, RollbackTargetKept
<1> QED BY <1>1, CutoverCourse, PTL

\* BarrierKeepsLinks: behind a start that migrated state, no rollback, restore
\* or later deploy leads the links back to the old release.
THEOREM BarrierIsKept ==
  ASSUME Unforced
  PROVE  Spec /\ []Apart => []BarrierKeepsLinks
<1>1. CutoverInv => BarrierKeepsLinks BY DEF CutoverInv
<1> QED BY <1>1, CutoverCourse, PTL

\* JudgedOnCandidate: when a gate is passed, every unit and the ingress are the
\* candidate's, whichever units came back by themselves before it.
THEOREM GateJudgesCandidate ==
  ASSUME Unforced
  PROVE  Spec /\ []Apart => JudgedOnCandidate
<1> DEFINE Judged ==
      \A o \in Operator :
        op[o].pc = "doctor" /\ op'[o].pc = "finalize" /\ ~op'[o].gateError =>
          running = Everywhere(op[o].release) /\ ingress = Rendered(op[o].release)
<1>1. CutoverInv /\ [Next]_vars => [Judged]_vars BY DEF CutoverInv, Course, Whole
<1> QED BY <1>1, CutoverCourse, PTL DEF JudgedOnCandidate, Spec

\* Only a commit prints `activated`.
LEMMA ActivatedByCommit ==
  ASSUME IInv, CutoverInv, [Next]_vars, NEW o \in Operator,
         op[o].pc = "commit", op'[o].outcome = "activated"
  PROVE  Reclaim("commit", op[o].release) /\ ~op[o].gateError
<1>1. op \in [Operator -> Call] /\ op[o] \in Call BY DEF IInv, TypeOK
<1>2. op[o].outcome = "none" BY DEF CutoverInv, Course
<1>3. ASSUME NEW outcome, End(o, outcome) PROVE outcome = "activated"
  BY <1>1, <1>3 DEF End, Resting
<1>4. ~Fail(o)
  <2> SUFFICES ASSUME Fail(o) PROVE FALSE OBVIOUS
  <2>1. op[o].gates BY DEF CutoverInv, Course
  <2>2. End(o, "unrecorded") BY <2>1 DEF Fail, Preparing
  <2> QED BY <1>3, <2>2
<1>5. op'[o] # op[o] BY <1>2
<1>6. PICK p \in Operator :
        Driver(p) \/ OperatorDies(p) \/ \E r \in Release, m \in Mode : Begin(p, r, m)
  BY <1>5 DEF Next, vars, Abandon, RollbackByHand, Rest
<1>7. p = o
  <2> SUFFICES ASSUME p # o PROVE op'[o] = op[o] BY <1>5
  <2>1. ASSUME NEW call, op' = [op EXCEPT ![p] = call] PROVE op'[o] = op[o] BY <1>1, <2>1
  <2>2. ASSUME NEW pc, Goto(p, pc) PROVE op'[o] = op[o] BY <1>1, <2>2 DEF Goto
  <2>3. ASSUME NEW outcome, End(p, outcome) PROVE op'[o] = op[o] BY <1>1, <2>3 DEF End
  <2>4. Fail(p) => op'[o] = op[o] BY <2>2, <2>3 DEF Fail
  <2> QED BY <1>1, <1>6, <2>2, <2>3, <2>4 DEF Driver, OperatorDies, Begin, Prepare, ClaimUpload,
        CloseUpload, StartBuild, Built, DryRun, Retain, Preconditions, Snapshot, Stage, Refresh,
        Activate, Activated, LoseActivation, Gate, GateFails, Doctor, Rollback, RestoreHost,
        Finalize, Commit, Restore, Abort, Answer
<1>8. Commit(o) \/ OperatorDies(o)
  BY <1>6, <1>7 DEF Driver, At, Begin, Prepare, ClaimUpload, CloseUpload, StartBuild, Built, DryRun,
    Retain, Preconditions, Snapshot, Stage, Refresh, Activate, Activated, LoseActivation, Gate,
    Doctor, Rollback, RestoreHost, Finalize, Restore, Abort
<1>9. ~OperatorDies(o) BY <1>3 DEF OperatorDies
<1>10. /\ Reclaim("commit", op[o].release)
       /\ End(o, IF op[o].gateError THEN "forward_fix" ELSE "activated")
  BY <1>4, <1>8, <1>9 DEF Commit, Answer
<1> QED BY <1>3, <1>10

\* ActivatedIsWhole: `activated` is one release in the links, the processes, the
\* Host files, the ingress and the receipt, with nothing left of the candidate.
THEOREM ActivatedMeansWhole ==
  ASSUME Unforced
  PROVE  Spec /\ []Apart => ActivatedIsWhole
<1> DEFINE One ==
      \A o \in Operator :
        op[o].pc = "commit" /\ op'[o].outcome = "activated" =>
          LET r == op[o].release IN
            /\ links = Everywhere(r) /\ running = Everywhere(r)
            /\ config = Rendered(r) /\ ingress = Rendered(r)
            /\ receipts[op[o].receipt].status = "activated"
            /\ secrets' = {} /\ marker' = NoRelease
<1>1. ASSUME IInv, CutoverInv, [Next]_vars PROVE One
  <2> SUFFICES ASSUME NEW o \in Operator, op[o].pc = "commit", op'[o].outcome = "activated"
               PROVE  /\ Whole(op[o].release)
                      /\ receipts[op[o].receipt].status = "activated"
                      /\ secrets' = {} /\ marker' = NoRelease
    BY DEF Whole
  <2>1. Reclaim("commit", op[o].release) /\ ~op[o].gateError BY <1>1, ActivatedByCommit
  <2>2. Whole(op[o].release) /\ receipts[op[o].receipt].status = "activated"
    BY <1>1, <2>1 DEF CutoverInv, Course
  <2> QED BY <2>1, <2>2 DEF Reclaim, CleanStaging, ProtectedStaging
<1>2. IInv /\ CutoverInv /\ [Next]_vars => [One]_vars BY <1>1
<1> QED BY <1>2, CutoverCourse, PTL DEF ActivatedIsWhole, Spec

-----------------------------------------------------------------------------
(* UndoInv: what a failed deploy puts back                                   *)

\* The phases of a deploy whose candidate may be linked, or may have to go.
Tried == Driving \cup {"abort"}

\* The phases before the links or the Host files change.
Unlinked == (Unsnapshotted \ {"reclaim"}) \cup {"stage", "refresh", "activate"}

\* What a deploy that fails has to put back, and what it knows of it.
Undoable(call, a) ==
  /\ call.pc # "idle" => call.outcome = "none"
  /\ call.pc \in Unsnapshotted => call.receipt = 0
  /\ call.restored => call.pc = "abort"
  /\ call.barrier => call.gates
  /\ call.pc \in Tried =>
       /\ \A c \in Component : links[c] \in {call.release, call.before.links[c]}
       /\ a.pc # "idle" => call.pc \in {"activating", "restore", "abort"}
       /\ a.pc # "idle" \/ call.pc = "activating" =>
            a.release = call.release /\ a.prev = call.before.links
  /\ call.pc \in {"gate", "doctor", "rollback"} => call.prev = call.before.links
  /\ call.pc \in Unlinked => links = call.before.links
  /\ call.pc \in (Unlinked \ {"activate"}) \cup {"abort"} => config = call.before.config
  /\ call.pc \in Snapshotted => receipts[call.receipt].files = call.before.config
  /\ call.outcome = "failed" =>
       a.pc = "idle" /\ links = call.before.links /\ config = call.before.config

UndoInv == \A o \in Operator : Undoable(op[o], act[o])

\* One workstation: the Host's state after a deploy is what that deploy left.
Lone == \A o, p \in Operator : o = p

LEMMA FailChooses ==
  ASSUME IInv, NEW o \in Operator, op[o].pc # "idle", Fail(o)
  PROVE  /\ op'[o].pc = "idle" =>
              op'[o].outcome # "failed" /\ ~op'[o].restored /\ ~op'[o].barrier
         /\ op'[o].pc = "abort" =>
              \/ op[o].pc \in Preparing
              \/ /\ ~op[o].gates
                 /\ op[o].receipt = 0 \/ op[o].restored \/ op[o].barrier
<1>1. op \in [Operator -> Call] /\ op[o] \in Call BY DEF IInv, TypeOK
<1>2. ASSUME NEW outcome \in {"refused", "host_restore_failed", "cleanup_failed", "unrecorded"},
             End(o, outcome)
      PROVE  op'[o].pc = "idle" /\ op'[o].outcome # "failed" /\ ~op'[o].restored /\ ~op'[o].barrier
  BY <1>1, <1>2 DEF End, Resting
<1>3. ASSUME NEW pc, Goto(o, pc) PROVE op'[o].pc = pc
  BY <1>1, <1>3 DEF Goto, Call
<1>4. CASE op[o].pc \in {"reclaim", "restore", "abort"} BY <1>2, <1>4 DEF Fail, Preparing
<1>5. CASE op[o].pc \in Preparing BY <1>3, <1>5 DEF Fail, Preparing
<1>6. CASE op[o].pc \notin {"reclaim", "restore", "abort"} \cup Preparing
  <2>1. IF op[o].receipt # 0 /\ ~op[o].restored /\ ~op[o].barrier /\ ~op[o].gates
        THEN Goto(o, "restore")
        ELSE IF ~op[o].gates THEN Goto(o, "abort")
        ELSE End(o, "unrecorded")
    BY <1>6 DEF Fail, Preparing
  <2>2. CASE Goto(o, "restore") BY <1>3, <2>2
  <2>3. CASE End(o, "unrecorded") BY <1>2, <2>3
  <2>4. CASE /\ Goto(o, "abort") /\ ~op[o].gates
             /\ op[o].receipt = 0 \/ op[o].restored \/ op[o].barrier
    BY <1>3, <2>4
  <2> QED BY <2>1, <2>2, <2>3, <2>4
<1> QED BY <1>4, <1>5, <1>6

\* With one workstation the invariant is that workstation's.
LEMMA UndoOfOne ==
  ASSUME Lone, NEW o \in Operator, Undoable(op[o], act[o])'
  PROVE  UndoInv'
BY DEF Lone, UndoInv

\* What the documents say of the files they hold does not change.
Documents(o) ==
  op[o].receipt # 0 => receipts'[op[o].receipt].files = receipts[op[o].receipt].files

LEMMA UndoFail ==
  ASSUME IInv, UndoInv, Lone, NEW o \in Operator, op[o].pc # "idle", Fail(o),
         UNCHANGED <<links, act>>, Documents(o),
         op[o].pc \in Unsnapshotted => UNCHANGED config
  PROVE  UndoInv'
<1>1. /\ op'[o].pc \in {"idle", "abort", "restore"}
      /\ op'[o].pc # "idle" => op'[o] = [op[o] EXCEPT !.pc = op'[o].pc]
      /\ op'[o].pc = "restore" => op[o].receipt # 0 /\ ~op[o].gates
      /\ op[o].pc \in {"reclaim", "restore", "abort"} => op'[o].pc = "idle"
  BY FailMoves
<1>2. /\ op'[o].pc = "idle" =>
           op'[o].outcome # "failed" /\ ~op'[o].restored /\ ~op'[o].barrier
      /\ op'[o].pc = "abort" =>
           \/ op[o].pc \in Preparing
           \/ /\ ~op[o].gates
              /\ op[o].receipt = 0 \/ op[o].restored \/ op[o].barrier
  BY FailChooses
<1>3. /\ op[o] \in Call /\ op[o].pc \in Phase
      /\ op[o].pc \in Snapshotted => op[o].receipt # 0
  BY DEF IInv, TypeOK, Call, LocalsReady
<1>4. Undoable(op[o], act[o]) BY DEF UndoInv
<1>5. CASE op'[o].pc = "idle"
  BY <1>2, <1>5, UndoOfOne
  DEF Undoable, Tried, Driving, Unlinked, Unsnapshotted, Preparing, Snapshotted
<1>6. CASE op'[o].pc # "idle"
  <2>1. /\ op'[o].release = op[o].release /\ op'[o].before = op[o].before
        /\ op'[o].outcome = "none" /\ op'[o].receipt = op[o].receipt
        /\ op'[o].restored = op[o].restored
        /\ op'[o].barrier = op[o].barrier /\ op'[o].gates = op[o].gates
    BY <1>1, <1>3, <1>4, <1>6 DEF Call, Undoable
  <2>2. op[o].pc \in Tried \ {"abort", "restore"}
    BY <1>1, <1>3, <1>6 DEF Tried, Driving
  <2>3. /\ \A c \in Component : links[c] \in {op[o].release, op[o].before.links[c]}
        /\ act[o].pc # "idle" => act[o].release = op[o].release /\ act[o].prev = op[o].before.links
        /\ ~op[o].restored /\ (op[o].barrier => op[o].gates)
    BY <1>4, <2>2 DEF Undoable
  <2>4. CASE op'[o].pc = "restore"
    <3>1. op[o].receipt # 0 /\ op[o].pc \in Snapshotted
      BY <1>1, <1>3, <1>4, <2>2, <2>4
      DEF Undoable, Unsnapshotted, Preparing, Snapshotted, Phase, Tried, Driving
    <3>2. receipts'[op'[o].receipt].files = op'[o].before.config
      BY <1>4, <2>1, <3>1 DEF Undoable, Documents
    <3>3. Undoable(op[o], act[o])'
      BY <2>1, <2>3, <2>4, <3>2 DEF Undoable, Unlinked, Unsnapshotted, Preparing
    <3> QED BY <3>3, UndoOfOne
  <2>5. CASE op'[o].pc = "abort"
    <3>1. op[o].pc \in Unsnapshotted \ {"reclaim"}
      BY <1>2, <1>3, <2>2, <2>3, <2>5
      DEF Unsnapshotted, Preparing, Snapshotted, Phase, Tried, Driving
    <3>2. config' = op'[o].before.config
      <4>1. op[o].pc \in Unlinked \ {"activate"} BY <3>1 DEF Unlinked, Unsnapshotted, Preparing
      <4>2. config = op[o].before.config BY <1>4, <4>1 DEF Undoable
      <4>3. config' = config BY <3>1
      <4> QED BY <2>1, <4>2, <4>3
    <3>3. Undoable(op[o], act[o])'
      BY <2>1, <2>3, <2>5, <3>2 DEF Undoable, Unlinked, Unsnapshotted, Preparing, Snapshotted
    <3> QED BY <3>3, UndoOfOne
  <2> QED BY <1>1, <1>6, <2>4, <2>5
<1> QED BY <1>5, <1>6

\* The deploy goes on with what it knows.
Onward(o) ==
  /\ op'[o].release = op[o].release /\ op'[o].before = op[o].before
  /\ op'[o].prev = op[o].prev /\ op'[o].receipt = op[o].receipt
  /\ op'[o].outcome = op[o].outcome /\ op'[o].restored = op[o].restored
  /\ op'[o].barrier = op[o].barrier /\ (op[o].gates => op'[o].gates)

LEMMA GotoOnward ==
  ASSUME IInv, NEW o \in Operator, NEW pc, Goto(o, pc)
  PROVE  Onward(o) /\ op'[o].pc = pc
BY DEF IInv, TypeOK, Goto, Call, Onward

LEMMA UndoOnward ==
  ASSUME IInv, UndoInv, Lone, NEW o \in Operator, Onward(o),
         UNCHANGED <<links, act>>, Documents(o),
         op[o].pc \in Tried, op'[o].pc \in Tried \ {"abort", "activating"},
         op'[o].pc \in Unsnapshotted => op[o].pc \in Unsnapshotted,
         op'[o].pc \in Unlinked \ {"activate"} =>
           op[o].pc \in Unlinked \ {"activate"} /\ UNCHANGED config,
         op'[o].pc = "activate" => op[o].pc \in Unlinked,
         op[o].pc \notin {"activating", "restore"},
         op'[o].pc \in {"gate", "doctor", "rollback"} =>
           op[o].pc \in {"gate", "doctor", "rollback"},
         op'[o].pc \in Snapshotted => op[o].pc \in Snapshotted,
         op[o].pc # "abort"
  PROVE  UndoInv'
<1>1. Undoable(op[o], act[o]) BY DEF UndoInv
<1>2. op[o].receipt # 0 => receipts'[op'[o].receipt].files = receipts[op[o].receipt].files
  BY DEF Onward, Documents
<1>3. op[o].pc \in Snapshotted => op[o].receipt # 0 BY DEF IInv, LocalsReady
<1>4. op[o].pc # "idle" /\ op'[o].pc # "idle" /\ op'[o].outcome = "none"
  BY <1>1 DEF Undoable, Tried, Driving, Onward
<1>5. op'[o].pc \in Snapshotted => receipts'[op'[o].receipt].files = op'[o].before.config
  BY <1>1, <1>2, <1>3 DEF Undoable, Onward
<1>6. /\ op'[o].pc \in (Unlinked \ {"activate"}) \cup {"abort"} => config' = op'[o].before.config
      /\ op'[o].pc \in Unlinked => links' = op'[o].before.links
  BY <1>1 DEF Undoable, Onward
<1>7. Undoable(op[o], act[o])'
  BY <1>1, <1>4, <1>5, <1>6 DEF Undoable, Onward
<1> QED BY <1>7, UndoOfOne

\* From one phase to the next, the Host files and the documents as they were.
LEMMA UndoGoto ==
  ASSUME IInv, UndoInv, Lone, NEW o \in Operator, NEW pc, Goto(o, pc),
         UNCHANGED <<links, act, config, receipts>>,
         \/ op[o].pc \in Preparing \cup {"dry_run", "preconditions"}
              /\ pc \in Unsnapshotted \ {"reclaim"}
         \/ op[o].pc \in {"stage"} /\ pc = "refresh"
         \/ op[o].pc \in {"gate"} /\ pc = "doctor"
         \/ op[o].pc \in {"doctor"} /\ pc = "finalize"
  PROVE  UndoInv'
<1>1. Onward(o) /\ op'[o].pc = pc BY GotoOnward
<1> QED BY <1>1, UndoOnward DEF Documents, Tried, Driving, Phase, Unlinked, Unsnapshotted,
      Preparing, Snapshotted

LEMMA UndoPrepares ==
  ASSUME IInv, UndoInv, Lone, NEW o \in Operator,
         Prepare(o) \/ ClaimUpload(o) \/ CloseUpload(o) \/ StartBuild(o) \/ Built(o)
  PROVE  UndoInv'
<1>1. UNCHANGED <<links, act, config, receipts>> /\ Documents(o)
  BY DEF Prepare, ClaimUpload, CloseUpload, StartBuild, Built, Reclaim, ReclaimShort, ReclaimFails,
    ReclaimRefused, ReclaimTorn, GuardUpload, FinalizeUpload, BuildBegin,
    hostVars, graphVars, layerVars, Documents
<1>2. op[o].pc # "idle"
  BY DEF Prepare, ClaimUpload, CloseUpload, StartBuild, Built, At
<1>3. CASE Fail(o) BY <1>1, <1>2, <1>3, UndoFail
<1>4. CASE /\ At(o, "reclaim") /\ Reclaim("prepare", op[o].release)
           /\ op' = [op EXCEPT ![o].pc = IF o \in Sealer THEN "guard" ELSE "dry_run",
                               ![o].before = [links |-> links, config |-> config]]
  <2>1. op \in [Operator -> Call] /\ op[o] \in Call BY DEF IInv, TypeOK
  <2>2. /\ op'[o].pc \in {"guard", "dry_run"} /\ op'[o].outcome = op[o].outcome
        /\ op'[o].receipt = op[o].receipt /\ op'[o].restored = op[o].restored
        /\ op'[o].barrier = op[o].barrier /\ op'[o].gates = op[o].gates
        /\ op'[o].before = [links |-> links, config |-> config]
    BY <1>4, <2>1 DEF Call
  <2>3. act[o].pc = "idle" BY <1>4 DEF Reclaim, Accepts, ReleaseLockFree
  <2>4. Undoable(op[o], act[o]) /\ op[o].pc = "reclaim" BY <1>4 DEF UndoInv, At
  <2>5. /\ op[o].outcome = "none" /\ op[o].receipt = 0 /\ ~op[o].restored
        /\ op[o].barrier => op[o].gates
    BY <2>4 DEF Undoable, Unsnapshotted
  <2>6. op'[o].before.links = links /\ op'[o].before.config = config BY <2>2
  <2>7. Undoable(op[o], act[o])'
    BY <1>1, <2>2, <2>3, <2>5, <2>6 DEF Undoable, Snapshotted
  <2> QED BY <2>7, UndoOfOne
<1>5. CASE /\ op[o].pc \in Preparing
           /\ \E pc \in Preparing \cup {"dry_run"} : Goto(o, pc)
  <2>1. PICK pc \in Preparing \cup {"dry_run"} : Goto(o, pc) BY <1>5
  <2>2. pc \in Unsnapshotted \ {"reclaim"} BY <2>1 DEF Unsnapshotted, Preparing
  <2>3. op[o].pc \in Preparing \cup {"dry_run", "preconditions"} BY <1>5
  <2> QED BY <1>1, <2>1, <2>2, <2>3, UndoGoto
<1>6. \/ Fail(o)
      \/ /\ At(o, "reclaim") /\ Reclaim("prepare", op[o].release)
         /\ op' = [op EXCEPT ![o].pc = IF o \in Sealer THEN "guard" ELSE "dry_run",
                             ![o].before = [links |-> links, config |-> config]]
      \/ /\ op[o].pc \in Preparing
         /\ \E pc \in Preparing \cup {"dry_run"} : Goto(o, pc)
  BY DEF Prepare, ClaimUpload, CloseUpload, StartBuild, Built, At, Answer, Preparing
<1> QED BY <1>3, <1>4, <1>5, <1>6

\* What ends otherwise than as failed has nothing to put back.
LEMMA UndoEnd ==
  ASSUME IInv, Lone, NEW o \in Operator, NEW outcome, End(o, outcome),
         outcome = "failed" =>
           /\ act'[o].pc = "idle" /\ links' = op[o].before.links /\ config' = op[o].before.config
  PROVE  UndoInv'
<1>1. /\ op'[o].pc = "idle" /\ op'[o].outcome = outcome /\ op'[o].receipt = 0
      /\ ~op'[o].restored /\ ~op'[o].barrier /\ op'[o].before = op[o].before
  BY DEF End, Resting, IInv, TypeOK
<1>2. Undoable(op[o], act[o])'
  BY <1>1 DEF Undoable, Tried, Driving, Unlinked, Unsnapshotted, Preparing, Snapshotted
<1> QED BY <1>2, UndoOfOne

LEMMA UndoStages ==
  ASSUME IInv, UndoInv, Lone, NEW o \in Operator,
         DryRun(o) \/ Retain(o) \/ Preconditions(o) \/ Snapshot(o) \/ Stage(o) \/ Refresh(o)
  PROVE  UndoInv'
<1>1. CASE DryRun(o) \/ Preconditions(o) \/ Stage(o)
  <2>1. /\ UNCHANGED <<links, act, config, receipts>> /\ Documents(o) /\ op[o].pc # "idle"
        /\ \/ Fail(o)
           \/ /\ op[o].pc \in {"dry_run", "preconditions"}
              /\ \E pc \in {"retain", "preconditions", "snapshot"} : Goto(o, pc)
           \/ op[o].pc = "stage" /\ Goto(o, "refresh")
    BY <1>1 DEF DryRun, Preconditions, Stage, StageConfiguration, At, hostVars, graphVars,
      layerVars, Documents
  <2> QED BY <2>1, UndoFail, UndoGoto DEF Unsnapshotted
<1>2. CASE Retain(o)
  <2>1. /\ UNCHANGED <<links, act, config, receipts>> /\ Documents(o) /\ op[o].pc # "idle"
        /\ Fail(o) \/ End(o, "dry_run")
    BY <1>2 DEF Retain, At, Reclaim, ReclaimFails, ReclaimRefused, ReclaimTorn, Answer,
      hostVars, graphVars, layerVars, Documents
  <2> QED BY <2>1, UndoFail, UndoEnd
<1>3. CASE Snapshot(o)
  <2>1. op[o].pc = "snapshot" /\ UNCHANGED <<links, act, config>>
    BY <1>3 DEF Snapshot, At, CutoverSnapshot, hostVars, graphVars, layerVars
  <2>2. Undoable(op[o], act[o]) /\ op[o].receipt = 0
    BY <2>1 DEF UndoInv, Undoable, Unsnapshotted
  <2>3. CASE Fail(o) BY <2>1, <2>2, <2>3, UndoFail DEF Documents
  <2>4. CASE /\ CutoverSnapshot(op[o].release, op[o].mode)
             /\ op' = [op EXCEPT ![o].pc = "stage", ![o].receipt = Len(receipts')]
    <3>1. op \in [Operator -> Call] /\ op[o] \in Call /\ receipts \in Seq(Document)
      BY DEF IInv, TypeOK, HostTypeOK
    <3>2. /\ op'[o].pc = "stage" /\ op'[o].outcome = op[o].outcome
          /\ op'[o].receipt = Len(receipts') /\ op'[o].restored = op[o].restored
          /\ op'[o].barrier = op[o].barrier /\ op'[o].gates = op[o].gates
          /\ op'[o].before = op[o].before /\ op'[o].release = op[o].release
      BY <2>4, <3>1 DEF Call
    <3>3. receipts'[Len(receipts')].files = config
      <4> DEFINE document == [release |-> op[o].release, mode |-> op[o].mode,
                              status |-> "snapshotted", migration |-> "not_started",
                              targets |-> links, files |-> config]
      <4>1. receipts' = Append(receipts, document) BY <2>4 DEF CutoverSnapshot
      <4>2. document.files = config OBVIOUS
      <4> HIDE DEF document
      <4>3. Len(receipts') = Len(receipts) + 1 /\ receipts'[Len(receipts) + 1] = document
        BY <3>1, <4>1
      <4> QED BY <4>2, <4>3
    <3>4. /\ op[o].outcome = "none" /\ ~op[o].restored /\ (op[o].barrier => op[o].gates)
          /\ \A c \in Component : links[c] \in {op[o].release, op[o].before.links[c]}
          /\ act[o].pc = "idle" /\ links = op[o].before.links /\ config = op[o].before.config
      BY <2>1, <2>2 DEF Undoable, Tried, Driving, Phase, Unlinked, Unsnapshotted
    <3>5. Undoable(op[o], act[o])'
      BY <2>1, <3>2, <3>3, <3>4 DEF Undoable, Unsnapshotted, Preparing
    <3> QED BY <3>5, UndoOfOne
  <2> QED BY <1>3, <2>1, <2>3, <2>4 DEF Snapshot, Answer
<1>4. CASE Refresh(o)
  <2>1. /\ op[o].pc = "refresh" /\ UNCHANGED <<links, act, receipts>> /\ Documents(o)
        /\ Fail(o) \/ Goto(o, "activate")
    BY <1>4 DEF Refresh, At, RefreshConfiguration, RefreshFails, Answer, graphVars, Documents
  <2>2. CASE Fail(o) BY <2>1, <2>2, UndoFail DEF Unsnapshotted, Preparing
  <2>3. CASE Goto(o, "activate")
    <3>1. Onward(o) /\ op'[o].pc = "activate" BY <2>3, GotoOnward
    <3> QED BY <2>1, <3>1, UndoOnward DEF Tried, Driving, Phase, Unlinked, Unsnapshotted,
          Preparing, Snapshotted
  <2> QED BY <2>1, <2>2, <2>3
<1> QED BY <1>1, <1>2, <1>3, <1>4

LEMMA UndoActivates ==
  ASSUME IInv, UndoInv, Lone, NEW o \in Operator, Activate(o) \/ Activated(o) \/ LoseActivation(o)
  PROVE  UndoInv'
<1>1. /\ op \in [Operator -> Call] /\ op[o] \in Call /\ act \in [Operator -> Activation]
      /\ Undoable(op[o], act[o])
  BY DEF IInv, TypeOK, HostTypeOK, UndoInv
<1>2. CASE UNCHANGED hostVars /\ Fail(o)
  <2>1. op[o].pc \in {"activate", "activating"} BY DEF Activate, Activated, LoseActivation, At
  <2>2. UNCHANGED <<links, act, config>> /\ Documents(o)
    BY <1>2 DEF hostVars, graphVars, layerVars, Documents
  <2> QED BY <1>2, <2>1, <2>2, UndoFail
<1>3. CASE At(o, "activate") /\ ActivateBegin(o, op[o].release) /\ Goto(o, "activating")
  <2>1. Onward(o) /\ op'[o].pc = "activating" BY <1>3, GotoOnward
  <2>2. /\ act'[o].release = op[o].release /\ act'[o].prev = links
        /\ UNCHANGED <<links, config, receipts>>
    BY <1>1, <1>3 DEF ActivateBegin, layerVars
  <2>3. op[o].pc = "activate" BY <1>3 DEF At
  <2>4. /\ op[o].outcome = "none" /\ ~op[o].restored /\ (op[o].barrier => op[o].gates)
        /\ links = op[o].before.links /\ receipts[op[o].receipt].files = op[o].before.config
    BY <1>1, <2>3 DEF Undoable, Unlinked, Snapshotted
  <2>5. Undoable(op[o], act[o])'
    BY <2>1, <2>2, <2>4 DEF Undoable, Onward, Unlinked, Unsnapshotted, Preparing
  <2> QED BY <2>5, UndoOfOne
<1>4. CASE /\ At(o, "activating") /\ act[o].pc = "idle" /\ UNCHANGED hostVars
           /\ op'[o].pc \in {"gate", "finalize"}
           /\ op'[o].release = op[o].release /\ op'[o].before = op[o].before
           /\ op'[o].outcome = op[o].outcome /\ op'[o].restored = op[o].restored
           /\ op'[o].receipt = op[o].receipt
           /\ op'[o].barrier => op[o].barrier \/ op'[o].gates
           /\ op[o].gates => op'[o].gates
           /\ op'[o].pc = "gate" => op'[o].prev = act[o].prev
  <2>1. UNCHANGED <<links, act, config, receipts>> BY <1>4 DEF hostVars, graphVars, layerVars
  <2>2. op[o].pc = "activating" BY <1>4 DEF At
  <2>3. /\ op[o].outcome = "none" /\ ~op[o].restored /\ (op[o].barrier => op[o].gates)
        /\ act[o].prev = op[o].before.links /\ receipts[op[o].receipt].files = op[o].before.config
        /\ \A c \in Component : links[c] \in {op[o].release, op[o].before.links[c]}
    BY <1>1, <2>2 DEF Undoable, Snapshotted, Tried, Driving, Phase
  <2>4. Undoable(op[o], act[o])'
    BY <1>4, <2>1, <2>3 DEF Undoable, Unlinked, Unsnapshotted, Preparing
  <2> QED BY <2>4, UndoOfOne
<1>5. ASSUME Activated(o), ~Fail(o)
      PROVE  /\ At(o, "activating") /\ act[o].pc = "idle" /\ UNCHANGED hostVars
             /\ op'[o].pc \in {"gate", "finalize"}
             /\ op'[o].release = op[o].release /\ op'[o].before = op[o].before
             /\ op'[o].outcome = op[o].outcome /\ op'[o].restored = op[o].restored
             /\ op'[o].receipt = op[o].receipt
             /\ op'[o].barrier => op[o].barrier \/ op'[o].gates
             /\ op[o].gates => op'[o].gates
             /\ op'[o].pc = "gate" => op'[o].prev = act[o].prev
  <2> DEFINE forward == [op EXCEPT ![o].barrier = TRUE, ![o].gates = TRUE]
  <2>1. /\ forward \in [Operator -> Call] /\ forward[o].release = op[o].release
        /\ forward[o].before = op[o].before /\ forward[o].outcome = op[o].outcome
        /\ forward[o].restored = op[o].restored /\ forward[o].receipt = op[o].receipt
        /\ forward[o].gates
    BY <1>1 DEF Call
  <2>2. /\ At(o, "activating") /\ act[o].pc = "idle" /\ UNCHANGED hostVars
        /\ \/ op' = [op EXCEPT ![o].pc = "gate", ![o].prev = act[o].prev,
                              ![o].activation = act[o].result]
           \/ op' = [forward EXCEPT ![o].pc = "gate", ![o].prev = act[o].prev,
                                   ![o].activation = act[o].result]
           \/ op' = [forward EXCEPT ![o].pc = "finalize", ![o].gateError = TRUE,
                                   ![o].activation = act[o].result]
    BY <1>5 DEF Activated
  <2> HIDE DEF forward
  <2>3. CASE op' = [op EXCEPT ![o].pc = "gate", ![o].prev = act[o].prev,
                              ![o].activation = act[o].result]
    BY <1>1, <2>2, <2>3 DEF Call
  <2>4. CASE op' = [forward EXCEPT ![o].pc = "gate", ![o].prev = act[o].prev,
                                   ![o].activation = act[o].result]
    <3>1. op'[o].gates /\ op'[o].pc = "gate" /\ op'[o].prev = act[o].prev BY <2>1, <2>4 DEF Call
    <3> QED BY <2>1, <2>2, <2>4, <3>1 DEF Call
  <2>5. CASE op' = [forward EXCEPT ![o].pc = "finalize", ![o].gateError = TRUE,
                                   ![o].activation = act[o].result]
    <3>1. op'[o].gates /\ op'[o].pc = "finalize" BY <2>1, <2>5 DEF Call
    <3> QED BY <2>1, <2>2, <2>5, <3>1 DEF Call
  <2> QED BY <2>2, <2>3, <2>4, <2>5
<1>6. CASE Activated(o)
  <2>1. UNCHANGED hostVars BY <1>6 DEF Activated
  <2> QED BY <1>2, <1>4, <1>5, <1>6, <2>1
<1> QED BY <1>2, <1>3, <1>6 DEF Activate, LoseActivation

LEMMA UndoGateFails ==
  ASSUME IInv, UndoInv, Lone, NEW o \in Operator, op[o].pc \in {"gate", "doctor"}, GateFails(o),
         UNCHANGED <<links, act>>, Documents(o)
  PROVE  UndoInv'
<1>1. Onward(o) /\ op'[o].pc \in {"finalize", "rollback"}
  BY DEF GateFails, Onward, IInv, TypeOK, Call
<1> QED BY <1>1, UndoOnward DEF Tried, Driving, Phase, Unlinked, Unsnapshotted, Preparing,
      Snapshotted

LEMMA UndoGates ==
  ASSUME IInv, UndoInv, Lone, NEW o \in Operator, Gate(o) \/ Doctor(o)
  PROVE  UndoInv'
<1>1. /\ UNCHANGED <<links, act, config, receipts>> /\ Documents(o)
      /\ op[o].pc \in {"gate", "doctor"}
  BY DEF Gate, Doctor, At, ConvergeRunning, ConvergeFails, hostVars, graphVars, layerVars, Documents
<1>2. \/ GateFails(o)
      \/ op[o].pc = "gate" /\ Goto(o, "doctor")
      \/ op[o].pc = "doctor" /\ Goto(o, "finalize")
  BY DEF Gate, Doctor, At
<1>3. CASE GateFails(o) BY <1>1, <1>3, UndoGateFails
<1>4. CASE op[o].pc = "gate" /\ Goto(o, "doctor") BY <1>1, <1>4, UndoGoto
<1>5. CASE op[o].pc = "doctor" /\ Goto(o, "finalize") BY <1>1, <1>5, UndoGoto
<1> QED BY <1>2, <1>3, <1>4, <1>5

\* The links a failed gate goes back to are those the deploy found.
LEMMA UndoRollsBack ==
  ASSUME IInv, UndoInv, Lone, NEW o \in Operator, Rollback(o)
  PROVE  UndoInv'
<1>1. /\ op[o].pc = "rollback" /\ Goto(o, "restore_host") /\ UNCHANGED <<act, config, receipts>>
      /\ links' \in {links, op[o].prev}
  BY DEF Rollback, At, ActivatorRollback, ActivatorRollbackFails, storeVars, hostVars, graphVars,
    layerVars
<1>2. Onward(o) /\ op'[o].pc = "restore_host" BY <1>1, GotoOnward
<1>3. /\ Undoable(op[o], act[o]) /\ op[o].receipt # 0
  BY <1>1 DEF UndoInv, IInv, LocalsReady, Snapshotted
<1>4. /\ op[o].outcome = "none" /\ ~op[o].restored /\ (op[o].barrier => op[o].gates)
      /\ act[o].pc = "idle" /\ op[o].prev = op[o].before.links
      /\ receipts[op[o].receipt].files = op[o].before.config
      /\ \A c \in Component : links[c] \in {op[o].release, op[o].before.links[c]}
  BY <1>1, <1>3 DEF Undoable, Snapshotted, Tried, Driving, Phase
<1>5. \A c \in Component : links'[c] \in {op[o].release, op[o].before.links[c]}
  BY <1>1, <1>4
<1>6. Undoable(op[o], act[o])'
  BY <1>1, <1>2, <1>4, <1>5 DEF Undoable, Onward, Unlinked, Unsnapshotted, Preparing
<1> QED BY <1>6, UndoOfOne

\* The Host files a restore brings back are those the deploy found.
LEMMA UndoRestores ==
  ASSUME IInv, UndoInv, Lone, NEW o \in Operator, RestoreHost(o) \/ Restore(o)
  PROVE  UndoInv'
<1>1. op[o].pc \in {"restore_host", "restore"} /\ UNCHANGED <<links, act>>
  BY DEF RestoreHost, Restore, At, CutoverRestore, CutoverRestoreFails, graphVars
<1>2. /\ Undoable(op[o], act[o]) /\ op[o].receipt # 0 /\ op[o].pc # "idle"
      /\ op \in [Operator -> Call] /\ op[o] \in Call /\ receipts \in Seq(Document)
      /\ op[o].receipt \in DOMAIN receipts /\ receipts[op[o].receipt] \in Document
  BY <1>1 DEF UndoInv, IInv, LocalsReady, Snapshotted, TypeOK, HostTypeOK
<1>3. Documents(o)
  BY <1>2 DEF RestoreHost, Restore, CutoverRestore, CutoverRestoreFails, Document, Documents
<1>4. CASE Fail(o)
  BY <1>1, <1>2, <1>3, <1>4, UndoFail DEF Unsnapshotted, Preparing
<1>5. CASE ~Fail(o)
  <2>1. /\ CutoverRestore(op[o].receipt)
        /\ Goto(o, "abort") \/ op' = [op EXCEPT ![o].pc = "abort", ![o].restored = TRUE]
    BY <1>5 DEF RestoreHost, Restore, Answer
  <2>2. /\ op'[o].pc = "abort" /\ op'[o].release = op[o].release /\ op'[o].before = op[o].before
        /\ op'[o].outcome = op[o].outcome /\ op'[o].receipt = op[o].receipt
        /\ op'[o].barrier = op[o].barrier /\ op'[o].gates = op[o].gates
    BY <1>2, <2>1 DEF Goto, Call
  <2>3. config' = receipts[op[o].receipt].files BY <2>1 DEF CutoverRestore
  <2>4. /\ op[o].outcome = "none" /\ (op[o].barrier => op[o].gates)
        /\ receipts[op[o].receipt].files = op[o].before.config
        /\ \A c \in Component : links[c] \in {op[o].release, op[o].before.links[c]}
    BY <1>1, <1>2 DEF Undoable, Snapshotted, Tried, Driving, Phase
  <2>5. config' = op'[o].before.config BY <2>2, <2>3, <2>4
  <2>6. Undoable(op[o], act[o])'
    <3>1. act[o].pc # "idle" => act[o].release = op[o].release /\ act[o].prev = op[o].before.links
      BY <1>1, <1>2 DEF Undoable, Tried, Driving, Phase
    <3> QED BY <1>1, <2>2, <2>4, <2>5, <3>1 DEF Undoable, Unlinked, Unsnapshotted, Preparing,
      Snapshotted
  <2> QED BY <2>6, UndoOfOne
<1> QED BY <1>4, <1>5

LEMMA UndoCloses ==
  ASSUME IInv, UndoInv, Lone, NEW o \in Operator, Finalize(o) \/ Commit(o)
  PROVE  UndoInv'
<1>1. /\ op[o].pc \in {"finalize", "commit"} /\ op[o].pc # "idle"
      /\ UNCHANGED <<links, act, config>>
  BY DEF Finalize, Commit, At, CutoverFinalize, CutoverFinalizeFails, Reclaim, ReclaimFails,
    ReclaimRefused, ReclaimTorn, hostVars, graphVars, layerVars
<1>2. /\ op \in [Operator -> Call] /\ op[o] \in Call /\ receipts \in Seq(Document)
      /\ op[o].receipt \in DOMAIN receipts /\ receipts[op[o].receipt] \in Document
  BY <1>1 DEF IInv, LocalsReady, Snapshotted, TypeOK, HostTypeOK
<1>3. Documents(o)
  BY <1>2 DEF Finalize, Commit, CutoverFinalize, CutoverFinalizeFails, Reclaim, ReclaimFails,
    ReclaimRefused, ReclaimTorn, hostVars, layerVars, Document, Documents
<1>4. CASE Fail(o) BY <1>1, <1>3, <1>4, UndoFail
<1>5. CASE \E outcome \in {"forward_fix", "activated"} : End(o, outcome)
  BY <1>5, UndoEnd
<1>6. CASE op[o].pc = "finalize" /\ op' = [op EXCEPT ![o].pc = "commit", ![o].gates = TRUE]
  <2>1. Onward(o) /\ op'[o].pc = "commit" BY <1>2, <1>6 DEF Onward, Call
  <2> QED BY <1>1, <1>3, <1>6, <2>1, UndoOnward DEF Tried, Driving, Phase, Unlinked, Unsnapshotted,
      Preparing, Snapshotted
<1> QED BY <1>4, <1>5, <1>6 DEF Finalize, Commit, At, Answer

\* An abort is only accepted once no link names the candidate: what is left of
\* the links is what the deploy found.
LEMMA UndoAborts ==
  ASSUME IInv, UndoInv, Lone, NEW o \in Operator, Abort(o)
  PROVE  UndoInv'
<1>1. /\ op[o].pc = "abort" /\ op[o].pc # "idle" /\ UNCHANGED <<links, act, config, receipts>>
      /\ Documents(o)
  BY DEF Abort, At, Reclaim, ReclaimFails, ReclaimRefused, ReclaimTorn, hostVars, graphVars,
    layerVars, Documents
<1>2. CASE Fail(o) BY <1>1, <1>2, UndoFail
<1>3. CASE Reclaim("abort", op[o].release) /\ End(o, "failed")
  <2>1. act[o].pc = "idle" /\ op[o].release \notin ActiveIds
    BY <1>3 DEF Reclaim, Accepts, ReleaseLockFree
  <2>2. /\ config = op[o].before.config
        /\ \A c \in Component : links[c] \in {op[o].release, op[o].before.links[c]}
    BY <1>1 DEF UndoInv, Undoable, Tried
  <2>3. \A c \in Component : links[c] = op[o].before.links[c] BY <2>1, <2>2 DEF ActiveIds
  <2>4. links \in [Component -> Release] /\ op[o].before.links \in [Component -> Release]
    BY DEF IInv, TypeOK, HostTypeOK, Call
  <2>5. links = op[o].before.links BY <2>3, <2>4
  <2> QED BY <1>1, <1>3, <2>1, <2>2, <2>5, UndoEnd
<1> QED BY <1>2, <1>3 DEF Abort, Answer

-----------------------------------------------------------------------------
(* What happens to the graph beside the driver                              *)

LEMMA UndoActivator ==
  ASSUME IInv, UndoInv, Lone, NEW q \in Operator, Activator(q) \/ ActivatorDies(q), UNCHANGED op
  PROVE  UndoInv'
<1>1. /\ Undoable(op[q], act[q]) /\ act \in [Operator -> Activation] /\ act[q] \in Activation
      /\ act[q].pc # "idle" /\ op[q].pc \in Phase /\ links \in [Component -> Release]
  BY DEF UndoInv, IInv, TypeOK, HostTypeOK, Call, Activator, SwitchLink, StartUnits, BecomeReady,
    ActivateRestores, ForwardFixRequired, ActivatorDies
<1>2. /\ UNCHANGED <<config, receipts>> /\ act'[q].release = act[q].release
      /\ act'[q].prev = act[q].prev /\ act'[q].pc \in {act[q].pc, "started", "idle"}
  BY <1>1 DEF Activator, SwitchLink, StartUnits, BecomeReady, ActivateRestores, ForwardFixRequired,
    ActivatorDies, Answers, layerVars, Activation
<1>3. \A c \in Component : links'[c] \in {links[c], act[q].release, act[q].prev[c]}
  BY <1>1 DEF Activator, SwitchLink, StartUnits, BecomeReady, ActivateRestores, ForwardFixRequired,
    ActivatorDies
<1>4. op[q].outcome # "failed" /\ op[q].pc \notin Unlinked
  BY <1>1 DEF Undoable, Unlinked, Tried, Driving, Phase, Unsnapshotted, Preparing
<1>5. CASE op[q].pc \in Tried
  <2>1. /\ act[q].release = op[q].release /\ act[q].prev = op[q].before.links
        /\ op[q].pc \in {"activating", "restore", "abort"}
        /\ \A c \in Component : links[c] \in {op[q].release, op[q].before.links[c]}
    BY <1>1, <1>5 DEF Undoable
  <2>2. \A c \in Component : links'[c] \in {op[q].release, op[q].before.links[c]}
    BY <1>3, <2>1
  <2>3. Undoable(op[q], act[q])'
    BY <1>1, <1>2, <1>4, <2>1, <2>2 DEF Undoable
  <2> QED BY <2>3, UndoOfOne
<1>6. CASE op[q].pc \notin Tried
  <2>1. op[q].pc \in {"idle", "reclaim"} BY <1>1, <1>6 DEF Tried, Driving
  <2>2. Undoable(op[q], act[q])'
    BY <1>1, <1>2, <1>4, <2>1 DEF Undoable, Tried, Driving, Unlinked, Unsnapshotted, Preparing,
      Snapshotted
  <2> QED BY <2>2, UndoOfOne
<1> QED BY <1>5, <1>6

LEMMA UndoKeeps ==
  ASSUME UndoInv, UNCHANGED <<op, links, config, receipts>>,
         \A o \in Operator : /\ act'[o].pc \in {act[o].pc, "idle"}
                             /\ act'[o].release = act[o].release /\ act'[o].prev = act[o].prev
  PROVE  UndoInv'
<1> SUFFICES ASSUME NEW o \in Operator PROVE Undoable(op[o], act[o])' BY DEF UndoInv
<1>1. Undoable(op[o], act[o]) BY DEF UndoInv
<1> QED BY <1>1 DEF Undoable

LEMMA UndoHost ==
  ASSUME IInv, UndoInv, Lone, HostNext, UNCHANGED op
  PROVE  UndoInv'
<1>1. ASSUME NEW q \in Operator, Activator(q) \/ ActivatorDies(q) PROVE UndoInv'
  BY <1>1, UndoActivator
<1>2. ASSUME BuildEnd \/ (\E c \in Component : UnitReexec(c)) PROVE UndoInv'
  BY <1>2, UndoKeeps DEF BuildEnd, UnitReexec, graphVars, layerVars
<1>3. ASSUME HostReboots PROVE UndoInv'
  <2>1. ASSUME NEW o \in Operator
        PROVE  /\ act'[o].pc \in {act[o].pc, "idle"}
               /\ act'[o].release = act[o].release /\ act'[o].prev = act[o].prev
    BY <1>3 DEF HostReboots, IInv, TypeOK, HostTypeOK, Activation
  <2> QED BY <1>3, <2>1, UndoKeeps DEF HostReboots
<1> QED BY <1>1, <1>2, <1>3 DEF HostNext

LEMMA UndoDriver ==
  ASSUME IInv, UndoInv, Lone, NEW o \in Operator, Driver(o)
  PROVE  UndoInv'
BY UndoPrepares, UndoStages, UndoActivates, UndoGates, UndoRollsBack, UndoRestores, UndoCloses,
  UndoAborts DEF Driver

LEMMA UndoInductive ==
  ASSUME Lone, "rolls_back" \notin Faults, IInv, UndoInv, [Next]_vars
  PROVE  UndoInv'
<1>1. ASSUME NEW o \in Operator, Driver(o) PROVE UndoInv' BY <1>1, UndoDriver
<1>2. ASSUME NEW o \in Operator, OperatorDies(o) PROVE UndoInv'
  BY <1>2, UndoEnd DEF OperatorDies
<1>3. ASSUME NEW o \in Operator, NEW r \in Release, NEW mode \in Mode, Begin(o, r, mode)
      PROVE  UndoInv'
  <2>1. /\ op'[o].pc = "reclaim" /\ op'[o].outcome = "none" /\ op'[o].receipt = 0
        /\ ~op'[o].restored /\ ~op'[o].barrier
    BY <1>3 DEF Begin, Resting, IInv, TypeOK
  <2>2. Undoable(op[o], act[o])'
    BY <2>1 DEF Undoable, Tried, Driving, Unlinked, Unsnapshotted, Preparing, Snapshotted
  <2> QED BY <2>2, UndoOfOne
<1>4. ASSUME NEW r \in Release, Abandon(r) PROVE UndoInv'
  <2>1. UNCHANGED <<op, links, act, config, receipts>>
    BY <1>4 DEF Abandon, Reclaim, ReclaimTorn, graphVars, layerVars
  <2> QED BY <2>1, UndoKeeps
<1>5. ASSUME NEW o \in Operator, NEW r \in Release, RollbackByHand(o, r) PROVE UndoInv'
  BY <1>5 DEF RollbackByHand
<1>6. ASSUME HostNext, UNCHANGED <<op, deploys>> PROVE UndoInv' BY <1>6, UndoHost
<1>7. ASSUME UNCHANGED vars PROVE UndoInv'
  BY <1>7, UndoKeeps DEF vars, hostVars, graphVars, layerVars
<1> QED BY <1>1, <1>2, <1>3, <1>4, <1>5, <1>6, <1>7 DEF Next, Rest

LEMMA UndoInit == Init => UndoInv
<1> SUFFICES ASSUME Init PROVE UndoInv OBVIOUS
<1>1. \A o \in Operator : op[o] = Resting BY DEF Init
<1>2. \A o \in Operator : /\ op[o].pc = "idle" /\ op[o].outcome = "none"
                          /\ ~op[o].restored /\ ~op[o].barrier
  BY <1>1 DEF Resting
<1> QED BY <1>2 DEF UndoInv, Undoable, Tried, Driving, Unlinked, Unsnapshotted, Preparing,
      Snapshotted

\* FailedIsUndone: a deploy that reports `failed` found nothing else on the Host
\* than it leaves there, for any failure on any of its paths, when it has the
\* Host for itself and nobody rolls a release back by hand under it.
THEOREM FailedDeployIsUndone ==
  ASSUME Lone, "rolls_back" \notin Faults
  PROVE  Spec => []FailedIsUndone
<1>1. Init => UndoInv BY UndoInit
<1>2. IInv /\ UndoInv /\ [Next]_vars => UndoInv' BY UndoInductive
<1>3. UndoInv => FailedIsUndone BY DEF UndoInv, Undoable, FailedIsUndone
<1> QED BY <1>1, <1>2, <1>3, Inductive, PTL DEF Spec

-----------------------------------------------------------------------------
(* The release of the last cutover on record, and what a deploy does to it   *)

\* The cutovers on record, and the release of the last one.
Recorded == {i \in DOMAIN receipts : receipts[i].migration # "not_started"}

OnRecordIs(b) ==
  \/ Recorded = {} /\ b = Installed
  \/ \E i \in Recorded : (\A j \in Recorded : j <= i) /\ receipts[i].release = b

\* The phases in which the links are those of the last cutover on record, and
\* those with a document that is neither on record nor restored.
Standing == Unlinked \cup {"idle", "reclaim", "commit", "restore", "restore_host", "abort"}
Pending == Snapshotted \ {"commit"}

\* The document a deploy in progress wrote before it changed anything.
Documented(call, b) ==
  LET document == receipts[call.receipt]
  IN /\ call.receipt = Len(receipts)
     /\ document.release = call.release /\ document.mode = call.mode
     /\ document.migration = "not_started" /\ document.status = "snapshotted"
     /\ document.targets = Everywhere(b)

\* What a deploy over the release b of the last cutover on record knows.
Based(call, a, b) ==
  /\ call.pc # "idle" => call.mode = SealedMode(call.release)
  /\ a.pc # "idle" => call.pc = "activating"
  /\ call.gates => \/ call.pc \in {"finalize", "commit"}
                   \/ call.pc \in {"gate", "doctor"} /\ call.mode = "forward-only"
  /\ call.pc \in Standing => links = Everywhere(b) /\ crossed \in {NoRelease, b}
  /\ call.pc \in {"idle", "reclaim", "commit"} => config = Rendered(b)
  /\ call.pc = "commit" => b = call.release
  /\ call.pc \in Tried \ {"commit"} =>
       call.before.links = Everywhere(b) /\ call.before.config = Rendered(b)
  /\ call.pc \in Pending => Documented(call, b)
  /\ call.pc = "restore" => \A f \in HostFile : config[f] \in {b, call.release}
  /\ call.pc = "restore_host" => call.mode = "reversible" /\ crossed = NoRelease
  /\ call.pc = "activating" /\ a.pc = "idle" =>
       /\ a.result = "error" => links = Everywhere(b) /\ crossed = NoRelease
       /\ a.result = "forward_fix_required" => call.release \in ForwardOnly
  /\ call.pc = "finalize" =>
       links = Everywhere(call.release) /\ crossed \in {NoRelease, call.release}

BasedOn(b) ==
  /\ OnRecordIs(b) /\ disk[b] = "sealed"
  /\ \A o \in Operator : Based(op[o], act[o], b)

RecordInv == \E b \in Release : BasedOn(b)

\* One workstation that has every bundle, and none but these two mishaps.
Steady ==
  /\ Lone /\ Operator # {} /\ Component # {} /\ Sealer = Operator
  /\ Faults \subseteq {"unit_reexec", "sweep_torn"}

\* What the invariant says of the last cutover is what the property looks up.
LEMMA OnRecordUnique ==
  ASSUME IInv, NEW b, OnRecordIs(b)
  PROVE  OnRecord = b
<1>1. Recorded \subseteq Nat
  BY DEF Recorded, IInv, TypeOK, HostTypeOK
<1>2. CASE Recorded = {} BY <1>2 DEF OnRecordIs, OnRecord, Recorded
<1>3. CASE Recorded # {}
  <2>1. PICK i \in Recorded : (\A j \in Recorded : j <= i) /\ receipts[i].release = b
    BY <1>3 DEF OnRecordIs
  <2>2. ASSUME NEW k \in Recorded, \A j \in Recorded : j <= k PROVE k = i
    BY <1>1, <2>1, <2>2
  <2>3. (CHOOSE k \in Recorded : \A j \in Recorded : j <= k) = i BY <2>1, <2>2
  <2>4. OnRecord = receipts[CHOOSE k \in Recorded : \A j \in Recorded : j <= k].release
    BY <1>3 DEF OnRecord, Recorded
  <2> QED BY <2>1, <2>3, <2>4
<1> QED BY <1>2, <1>3

\* It stays while nothing else goes on record.
LEMMA OnRecordStays ==
  ASSUME NEW b, OnRecordIs(b), DOMAIN receipts \subseteq DOMAIN receipts',
         \A i \in DOMAIN receipts :
           /\ receipts'[i].migration = receipts[i].migration
           /\ receipts'[i].release = receipts[i].release,
         \A i \in DOMAIN receipts' \ DOMAIN receipts : receipts'[i].migration = "not_started"
  PROVE  OnRecordIs(b)'
<1>1. Recorded' = Recorded BY DEF Recorded
<1>2. \A i \in Recorded : receipts'[i].release = receipts[i].release BY DEF Recorded
<1> QED BY <1>1, <1>2 DEF OnRecordIs

\* The newest document that goes on record becomes the last cutover.
LEMMA OnRecordMoves ==
  ASSUME IInv, NEW r, Len(receipts) # 0, DOMAIN receipts' = DOMAIN receipts,
         receipts'[Len(receipts)].migration # "not_started",
         receipts'[Len(receipts)].release = r
  PROVE  OnRecordIs(r)'
<1>1. receipts \in Seq(Document) BY DEF IInv, TypeOK, HostTypeOK
<1>2. Len(receipts) \in DOMAIN receipts /\ \A j \in DOMAIN receipts : j <= Len(receipts)
  BY <1>1
<1>3. Len(receipts) \in Recorded' /\ \A j \in Recorded' : j <= Len(receipts)
  BY <1>2 DEF Recorded
<1>4. PICK n : n = Len(receipts) OBVIOUS
<1>5. n \in Recorded' /\ (\A j \in Recorded' : j <= n) /\ receipts'[n].release = r
  BY <1>3, <1>4
<1> QED BY <1>5 DEF OnRecordIs

\* No phase of the collector removes the one release every link names.
LEMMA SweepKeepsBase ==
  ASSUME IInv, Component # {}, NEW b \in Release, links = Everywhere(b), disk[b] = "sealed",
         NEW phase, NEW r,
         Reclaim(phase, r) \/ ReclaimShort(r) \/ ReclaimFails(phase, r)
  PROVE  disk'[b] = "sealed"
<1>1. ActiveIds = {b} BY DEF ActiveIds, Everywhere
<1>2. \A p : Accepts(p, r) => b \notin Obsolete(p, r)
  BY <1>1 DEF Accepts, Obsolete, Protected
<1>3. CASE Reclaim(phase, r) BY <1>2, <1>3 DEF Reclaim, CleanReleases
<1>4. CASE ReclaimShort(r) BY <1>2, <1>4 DEF ReclaimShort, CleanReleases
<1>5. CASE ReclaimTorn(phase, r)
  <2>1. b \notin Obsolete(phase, r) BY <1>2, <1>5 DEF ReclaimTorn
  <2> QED BY <1>5, <2>1 DEF ReclaimTorn
<1>6. CASE ReclaimRefused(phase, r)
  BY <1>6 DEF ReclaimRefused, hostVars, storeVars
<1> QED BY <1>3, <1>4, <1>5, <1>6 DEF ReclaimFails

\* A build only touches a release that is not sealed.
LEMMA BuildKeepsBase ==
  ASSUME IInv, NEW b \in Release, disk[b] = "sealed",
         (\E r \in Release : BuildBegin(r)) \/ BuildEnd
  PROVE  disk'[b] = "sealed"
<1>1. disk \in [Release -> {"absent", "unsealed", "sealed", "torn"}] BY DEF IInv, TypeOK, HostTypeOK
<1> QED BY <1>1 DEF BuildBegin, BuildEnd, Prepared, IInv, BuildUnsealed

\* With one workstation, what it knows is what there is to know.
LEMMA BasedOfOne ==
  ASSUME Steady, NEW b, NEW o \in Operator, OnRecordIs(b)', disk'[b] = "sealed",
         Based(op[o], act[o], b)'
  PROVE  BasedOn(b)'
BY DEF Steady, Lone, BasedOn

\* The driver knows that its candidate's document and its base are as they were.
Behind(o, b) ==
  /\ op'[o].release = op[o].release /\ op'[o].mode = op[o].mode
  /\ op'[o].before = op[o].before /\ op'[o].receipt = op[o].receipt
  /\ OnRecordIs(b)' /\ disk'[b] = "sealed"

LEMMA GotoBehind ==
  ASSUME IInv, NEW o \in Operator, NEW pc, Goto(o, pc), NEW b, BasedOn(b),
         UNCHANGED receipts, disk'[b] = "sealed"
  PROVE  /\ Behind(o, b) /\ op'[o].pc = pc /\ op'[o].gates = op[o].gates
         /\ op'[o].prev = op[o].prev
<1>1. OnRecordIs(b)' BY DEF BasedOn, OnRecordIs, Recorded
<1> QED BY <1>1 DEF IInv, TypeOK, Goto, Call, Behind

\* A failure before the barrier: the documents are as they were, the links are
\* the base's, and the Host files the base's or the candidate's.
LEMMA BasedFail ==
  ASSUME Steady, IInv, CutoverInv, UndoInv, NEW b \in Release, BasedOn(b),
         NEW o \in Operator, Fail(o), act[o].pc = "idle",
         UNCHANGED <<links, act, crossed, receipts>>, disk'[b] = "sealed",
         op[o].pc \in Unlinked \cup {"activating"},
         links = Everywhere(b), crossed \in {NoRelease, b},
         op'[o].pc = "restore" => \A f \in HostFile : config'[f] \in {b, op[o].release}
  PROVE  BasedOn(b)'
<1>1. /\ op'[o].pc \in {"idle", "abort", "restore"}
      /\ op'[o].pc # "idle" => op'[o] = [op[o] EXCEPT !.pc = op'[o].pc]
      /\ op'[o].pc = "restore" => op[o].receipt # 0 /\ ~op[o].gates
  BY FailMoves DEF Unlinked, Unsnapshotted, Preparing
<1>2. op[o] \in Call /\ Based(op[o], act[o], b) /\ Undoable(op[o], act[o])
  BY DEF IInv, TypeOK, BasedOn, UndoInv
<1>3. ~op[o].gates /\ op[o].pc \in Tried \ {"commit"}
  BY <1>2 DEF Based, Unlinked, Unsnapshotted, Preparing, Tried, Driving, Phase
<1>4. op'[o].pc # "idle"
  <2>1. \A outcome : End(o, outcome) => op'[o].pc = "idle" BY DEF End, Resting, IInv, TypeOK
  <2>2. Goto(o, "restore") \/ Goto(o, "abort")
    BY <1>3 DEF Fail, Unlinked, Unsnapshotted, Preparing
  <2>3. PICK pc \in {"restore", "abort"} : Goto(o, pc) BY <2>2
  <2>4. op'[o].pc = pc BY <2>3, GotoMoves
  <2> QED BY <2>3, <2>4
<1>5. /\ op'[o].release = op[o].release /\ op'[o].mode = op[o].mode
      /\ op'[o].before = op[o].before /\ op'[o].receipt = op[o].receipt
      /\ op'[o].gates = op[o].gates
  BY <1>1, <1>2, <1>4 DEF Call
<1>6. OnRecordIs(b)' BY DEF BasedOn, OnRecordIs, Recorded
<1>7. op'[o].pc = "restore" => op[o].pc \in Pending
  BY <1>1, <1>2, <1>3 DEF Undoable, Unlinked, Unsnapshotted, Preparing, Pending, Snapshotted
<1>8. op'[o].pc = "restore" => Documented(op[o], b)'
  BY <1>2, <1>5, <1>7 DEF Based, Documented
<1>9. Based(op[o], act[o], b)'
  <2>1. op'[o].pc \in {"abort", "restore"} /\ act'[o].pc = "idle" BY <1>1, <1>4
  <2>2. /\ op'[o].mode = SealedMode(op'[o].release) /\ ~op'[o].gates
        /\ op'[o].before.links = Everywhere(b) /\ op'[o].before.config = Rendered(b)
    BY <1>2, <1>3, <1>5 DEF Based, Tried, Driving
  <2>3. links' = Everywhere(b) /\ crossed' \in {NoRelease, b} OBVIOUS
  <2>4. op'[o].pc = "restore" =>
          Documented(op[o], b)' /\ \A f \in HostFile : config'[f] \in {b, op'[o].release}
    BY <1>5, <1>8
  <2> QED BY <2>1, <2>2, <2>3, <2>4 DEF Based, Pending, Snapshotted
<1> QED BY <1>6, <1>9, BasedOfOne

\* A deploy that starts finds the base; one that stands at it may end.
LEMMA BasedRests ==
  ASSUME Steady, IInv, NEW b \in Release, BasedOn(b), NEW o \in Operator,
         op'[o].pc = "idle" \/ (op'[o].pc = "reclaim" /\ op'[o].mode = SealedMode(op'[o].release)),
         ~op'[o].gates, act'[o].pc = "idle",
         UNCHANGED receipts, disk'[b] = "sealed",
         links' = Everywhere(b), config' = Rendered(b), crossed' \in {NoRelease, b}
  PROVE  BasedOn(b)'
<1>1. OnRecordIs(b)' BY DEF BasedOn, OnRecordIs, Recorded
<1>2. Based(op[o], act[o], b)'
  BY DEF Based, Pending, Snapshotted, Tried, Driving
<1> QED BY <1>1, <1>2, BasedOfOne

LEMMA BasedPrepares ==
  ASSUME Steady, IInv, CutoverInv, UndoInv, NEW b \in Release, BasedOn(b), NEW o \in Operator,
         Prepare(o) \/ ClaimUpload(o) \/ CloseUpload(o) \/ StartBuild(o) \/ Built(o)
  PROVE  BasedOn(b)'
<1>1. UNCHANGED <<links, act, crossed, config, receipts>>
  BY DEF Prepare, ClaimUpload, CloseUpload, StartBuild, Built, Reclaim, ReclaimShort, ReclaimFails,
    ReclaimRefused, ReclaimTorn, GuardUpload, FinalizeUpload, BuildBegin,
    hostVars, graphVars, layerVars
<1>2. op[o].pc \in {"reclaim"} \cup Preparing
  BY DEF Prepare, ClaimUpload, CloseUpload, StartBuild, Built, At, Preparing
<1>3. /\ op \in [Operator -> Call] /\ op[o] \in Call /\ Based(op[o], act[o], b)
      /\ op[o].release \in Release /\ disk[b] = "sealed"
  BY DEF IInv, TypeOK, Call, BasedOn
<1>4. /\ act[o].pc = "idle" /\ ~op[o].gates /\ links = Everywhere(b) /\ crossed \in {NoRelease, b}
      /\ op[o].mode = SealedMode(op[o].release)
  BY <1>2, <1>3 DEF Based, Standing, Unlinked, Unsnapshotted, Preparing
<1>5. CASE Prepare(o)
  <2>1. op[o].pc = "reclaim" /\ config = Rendered(b) BY <1>3, <1>5 DEF Prepare, At, Based
  <2>2. disk'[b] = "sealed"
    BY <1>3, <1>4, <1>5, SweepKeepsBase DEF Prepare, Steady
  <2>3. CASE Fail(o)
    <3>1. End(o, "refused") BY <2>1, <2>3 DEF Fail, Preparing
    <3>2. op'[o].pc = "idle" /\ ~op'[o].gates BY <1>3, <3>1 DEF End, Resting
    <3> QED BY <1>1, <1>4, <2>1, <2>2, <3>2, BasedRests
  <2>4. CASE op' = [op EXCEPT ![o].pc = IF o \in Sealer THEN "guard" ELSE "dry_run",
                              ![o].before = [links |-> links, config |-> config]]
    <3>1. /\ op'[o].pc \in {"guard", "dry_run"} /\ op'[o].gates = op[o].gates
          /\ op'[o].mode = op[o].mode /\ op'[o].release = op[o].release
          /\ op'[o].before = [links |-> links, config |-> config]
      BY <1>3, <2>4 DEF Call
    <3>2. op'[o].before.links = Everywhere(b) /\ op'[o].before.config = Rendered(b)
      BY <1>4, <2>1, <3>1
    <3>3. OnRecordIs(b)' BY <1>1 DEF BasedOn, OnRecordIs, Recorded
    <3>4. Based(op[o], act[o], b)'
      BY <1>1, <1>4, <3>1, <3>2 DEF Based, Pending, Snapshotted
    <3> QED BY <2>2, <3>3, <3>4, BasedOfOne
  <2> QED BY <1>5, <2>3, <2>4 DEF Prepare, Answer
<1>6. CASE ClaimUpload(o) \/ CloseUpload(o) \/ StartBuild(o) \/ Built(o)
  <2>1. op[o].pc \in Preparing
    BY <1>6 DEF ClaimUpload, CloseUpload, StartBuild, Built, At, Preparing
  <2>2. disk'[b] = "sealed"
    <3>1. (\E r \in Release : BuildBegin(r)) \/ UNCHANGED disk
      BY <1>3, <1>6 DEF ClaimUpload, CloseUpload, StartBuild, Built, GuardUpload, FinalizeUpload,
        hostVars, storeVars
    <3> QED BY <1>3, <3>1, BuildKeepsBase
  <2>3. CASE Fail(o)
    <3>1. op'[o].pc # "restore"
      <4>1. Goto(o, "abort") BY <2>1, <2>3 DEF Fail, Preparing
      <4>2. op'[o].pc = "abort" BY <4>1, GotoMoves
      <4> QED BY <4>2
    <3> QED BY <1>1, <1>4, <2>1, <2>2, <2>3, <3>1, BasedFail DEF Unlinked, Unsnapshotted, Preparing
  <2>4. ASSUME NEW pc \in Preparing \cup {"dry_run"}, Goto(o, pc) PROVE BasedOn(b)'
    <3>1. Behind(o, b) /\ op'[o].pc = pc /\ op'[o].gates = op[o].gates
      BY <1>1, <2>2, <2>4, GotoBehind
    <3>2. op[o].before.links = Everywhere(b) /\ op[o].before.config = Rendered(b)
      BY <1>3, <2>1 DEF Based, Tried, Driving, Phase, Preparing
    <3>3. Based(op[o], act[o], b)'
      BY <1>1, <1>4, <3>1, <3>2 DEF Based, Behind, Pending, Snapshotted, Preparing
    <3> QED BY <3>1, <3>3, BasedOfOne DEF Behind
  <2>5. \/ Fail(o)
        \/ \E pc \in Preparing \cup {"dry_run"} : Goto(o, pc)
    BY <1>6 DEF ClaimUpload, CloseUpload, StartBuild, Built, Answer, Preparing
  <2> QED BY <2>3, <2>4, <2>5
<1> QED BY <1>5, <1>6

\* From one phase before the switch to the next.
LEMMA BasedUnlinked ==
  ASSUME Steady, IInv, NEW b \in Release, BasedOn(b), NEW o \in Operator,
         NEW pc \in Unlinked, Goto(o, pc), op[o].pc \in Unlinked,
         UNCHANGED <<links, act, crossed, receipts>>, disk'[b] = "sealed",
         pc \in Pending => op[o].pc \in Pending
  PROVE  BasedOn(b)'
<1>1. Behind(o, b) /\ op'[o].pc = pc /\ op'[o].gates = op[o].gates BY GotoBehind
<1>2. Based(op[o], act[o], b) BY DEF BasedOn
<1>3. /\ act[o].pc = "idle" /\ ~op[o].gates /\ links = Everywhere(b) /\ crossed \in {NoRelease, b}
      /\ op[o].mode = SealedMode(op[o].release)
      /\ op[o].before.links = Everywhere(b) /\ op[o].before.config = Rendered(b)
  BY <1>2 DEF Based, Standing, Unlinked, Unsnapshotted, Preparing, Tried, Driving, Phase
<1>4. pc \in Pending => Documented(op[o], b)' BY <1>1, <1>2 DEF Based, Behind, Documented
<1>5. Based(op[o], act[o], b)'
  BY <1>1, <1>3, <1>4 DEF Based, Behind, Unlinked, Unsnapshotted, Preparing
<1> QED BY <1>1, <1>5, BasedOfOne DEF Behind

LEMMA BasedStages ==
  ASSUME Steady, IInv, CutoverInv, UndoInv, NEW b \in Release, BasedOn(b), NEW o \in Operator,
         DryRun(o) \/ Retain(o) \/ Preconditions(o) \/ Snapshot(o) \/ Stage(o) \/ Refresh(o)
  PROVE  BasedOn(b)'
<1>1. op[o].pc \in {"dry_run", "retain", "preconditions", "snapshot", "stage", "refresh"}
  BY DEF DryRun, Retain, Preconditions, Snapshot, Stage, Refresh, At
<1>2. UNCHANGED <<links, act, crossed>>
  BY DEF DryRun, Retain, Preconditions, Snapshot, Stage, Refresh, Reclaim, ReclaimFails,
    ReclaimRefused, ReclaimTorn, CutoverSnapshot, StageConfiguration, RefreshConfiguration,
    RefreshFails, hostVars, graphVars
<1>3. /\ op \in [Operator -> Call] /\ op[o] \in Call /\ Based(op[o], act[o], b)
      /\ op[o].release \in Release /\ disk[b] = "sealed" /\ Undoable(op[o], act[o])
  BY DEF IInv, TypeOK, Call, BasedOn, UndoInv
<1>4. op[o].pc \in Unlinked /\ op[o].pc # "activate" BY <1>1 DEF Unlinked, Unsnapshotted
<1>5. /\ act[o].pc = "idle" /\ ~op[o].gates /\ links = Everywhere(b) /\ crossed \in {NoRelease, b}
      /\ op[o].mode = SealedMode(op[o].release)
      /\ op[o].before.links = Everywhere(b) /\ op[o].before.config = Rendered(b)
  BY <1>1, <1>3, <1>4 DEF Based, Standing, Tried, Driving, Phase
<1>6. config = Rendered(b) BY <1>3, <1>4, <1>5 DEF Undoable
<1>7. ASSUME UNCHANGED <<config, receipts>>, disk'[b] = "sealed", Fail(o)
      PROVE  BasedOn(b)'
  BY <1>2, <1>4, <1>5, <1>6, <1>7, BasedFail DEF Rendered
<1>8. CASE DryRun(o) \/ Preconditions(o) \/ Stage(o)
  <2>1. UNCHANGED <<config, receipts, disk>>
    BY <1>8 DEF DryRun, Preconditions, Stage, StageConfiguration, hostVars, storeVars, layerVars
  <2>2. \/ Fail(o)
        \/ op[o].pc # "stage" /\ \E pc \in {"retain", "preconditions", "snapshot"} : Goto(o, pc)
        \/ op[o].pc = "stage" /\ Goto(o, "refresh")
    BY <1>8 DEF DryRun, Preconditions, Stage, At
  <2>3. ASSUME NEW pc \in {"retain", "preconditions", "snapshot", "refresh"}, Goto(o, pc),
               pc = "refresh" => op[o].pc = "stage"
        PROVE  BasedOn(b)'
    BY <1>2, <1>3, <1>4, <2>1, <2>3, BasedUnlinked
    DEF Unlinked, Unsnapshotted, Pending, Snapshotted
  <2> QED BY <1>3, <1>7, <2>1, <2>2, <2>3
<1>9. CASE Retain(o)
  <2>1. UNCHANGED <<config, receipts>>
    BY <1>9 DEF Retain, Reclaim, ReclaimFails, ReclaimRefused, ReclaimTorn, hostVars, layerVars
  <2>2. disk'[b] = "sealed"
    BY <1>3, <1>5, <1>9, SweepKeepsBase DEF Retain, Steady
  <2>3. CASE End(o, "dry_run")
    <3>1. op'[o].pc = "idle" /\ ~op'[o].gates BY <1>3, <2>3 DEF End, Resting
    <3> QED BY <1>2, <1>5, <1>6, <2>1, <2>2, <3>1, BasedRests
  <2> QED BY <1>7, <1>9, <2>1, <2>2, <2>3 DEF Retain, Answer
<1>10. CASE Snapshot(o)
  <2>1. disk'[b] = "sealed" /\ UNCHANGED config
    BY <1>3, <1>10 DEF Snapshot, CutoverSnapshot, hostVars, storeVars, layerVars
  <2>2. CASE Fail(o) /\ UNCHANGED receipts BY <1>7, <2>1, <2>2
  <2>3. CASE /\ CutoverSnapshot(op[o].release, op[o].mode)
             /\ op' = [op EXCEPT ![o].pc = "stage", ![o].receipt = Len(receipts')]
    <3>1. /\ op'[o].pc = "stage" /\ op'[o].gates = op[o].gates /\ op'[o].mode = op[o].mode
          /\ op'[o].release = op[o].release /\ op'[o].before = op[o].before
          /\ op'[o].receipt = Len(receipts')
      BY <1>3, <2>3 DEF Call
    <3>2. receipts \in Seq(Document) BY DEF IInv, TypeOK, HostTypeOK
    <3> DEFINE document == [release |-> op[o].release, mode |-> op[o].mode,
                            status |-> "snapshotted", migration |-> "not_started",
                            targets |-> links, files |-> config]
    <3>3. receipts' = Append(receipts, document) BY <2>3 DEF CutoverSnapshot
    <3>4. /\ document.release = op[o].release /\ document.mode = op[o].mode
          /\ document.status = "snapshotted" /\ document.migration = "not_started"
          /\ document.targets = links
      OBVIOUS
    <3> HIDE DEF document
    <3>5. /\ Len(receipts') = Len(receipts) + 1 /\ receipts'[Len(receipts) + 1] = document
          /\ DOMAIN receipts \subseteq DOMAIN receipts'
          /\ \A i \in DOMAIN receipts : receipts'[i] = receipts[i]
          /\ \A i \in DOMAIN receipts' \ DOMAIN receipts : receipts'[i] = document
      BY <3>2, <3>3
    <3>6. OnRecordIs(b)' BY <3>4, <3>5, OnRecordStays DEF BasedOn
    <3>7. Documented(op[o], b)' BY <1>5, <3>1, <3>4, <3>5 DEF Documented
    <3>8. Based(op[o], act[o], b)'
      BY <1>2, <1>5, <3>1, <3>7 DEF Based
    <3> QED BY <2>1, <3>6, <3>8, BasedOfOne
  <2> QED BY <1>10, <2>2, <2>3 DEF Snapshot, Answer, Steady, hostVars, layerVars
<1>11. CASE Refresh(o)
  <2>1. /\ UNCHANGED <<receipts, disk>>
        /\ \A f \in HostFile : config'[f] \in {config[f], op[o].release}
        /\ op[o].pc = "refresh"
    BY <1>11 DEF Refresh, RefreshConfiguration, RefreshFails, Rendered, storeVars, At
  <2>2. \A f \in HostFile : config'[f] \in {b, op[o].release} BY <1>6, <2>1 DEF Rendered
  <2>3. CASE Fail(o) BY <1>2, <1>3, <1>4, <1>5, <2>1, <2>2, <2>3, BasedFail
  <2>4. CASE Goto(o, "activate")
    BY <1>2, <1>3, <1>4, <2>1, <2>4, BasedUnlinked DEF Unlinked, Pending, Snapshotted
  <2> QED BY <1>11, <2>3, <2>4 DEF Refresh, Answer
<1> QED BY <1>8, <1>9, <1>10, <1>11

LEMMA BasedActivates ==
  ASSUME Steady, IInv, CutoverInv, UndoInv, NEW b \in Release, BasedOn(b), NEW o \in Operator,
         Activate(o) \/ Activated(o) \/ LoseActivation(o)
  PROVE  BasedOn(b)'
<1>1. /\ op \in [Operator -> Call] /\ op[o] \in Call /\ act \in [Operator -> Activation]
      /\ Based(op[o], act[o], b) /\ Undoable(op[o], act[o]) /\ Course(op[o], act[o])
      /\ disk[b] = "sealed" /\ OnRecordIs(b)
  BY DEF IInv, TypeOK, HostTypeOK, BasedOn, UndoInv, CutoverInv
<1>2. ~LoseActivation(o) BY DEF LoseActivation, Steady
<1>3. op[o].pc \in {"activate", "activating"} BY <1>2 DEF Activate, Activated, At
<1>4. /\ op[o].mode = SealedMode(op[o].release) /\ ~op[o].gates
      /\ op[o].before.links = Everywhere(b) /\ op[o].before.config = Rendered(b)
      /\ Documented(op[o], b) /\ config = Rendered(op[o].release)
  BY <1>1, <1>3 DEF Based, Course, Tried, Driving, Phase, Pending, Snapshotted
<1>5. CASE Activate(o)
  <2>1. /\ op[o].pc = "activate" /\ act[o].pc = "idle" /\ links = Everywhere(b)
        /\ crossed \in {NoRelease, b}
    BY <1>1, <1>5 DEF Activate, At, Based, Standing, Unlinked
  <2>2. UNCHANGED <<disk, links, config, receipts>>
    BY <1>5 DEF Activate, ActivateBegin, hostVars, storeVars, graphVars, layerVars
  <2>3. CASE Fail(o) /\ UNCHANGED hostVars
    <3>1. UNCHANGED <<links, act, crossed, receipts, disk, config>>
      BY <2>3 DEF hostVars, storeVars, graphVars, layerVars
    <3> QED BY <1>1, <1>4, <2>1, <2>3, <3>1, BasedFail DEF Unlinked, Rendered
  <2>4. CASE ActivateBegin(o, op[o].release) /\ Goto(o, "activating")
    <3>1. Behind(o, b) /\ op'[o].pc = "activating" /\ op'[o].gates = op[o].gates
      BY <1>1, <2>2, <2>4, GotoBehind
    <3>2. act'[o].pc = "switching" BY <1>1, <2>4 DEF ActivateBegin
    <3>3. Documented(op[o], b)' BY <1>4, <2>2, <3>1 DEF Documented, Behind
    <3>4. Based(op[o], act[o], b)'
      BY <1>4, <3>1, <3>2, <3>3 DEF Based, Behind, Standing, Unlinked, Unsnapshotted, Preparing
    <3> QED BY <3>1, <3>4, BasedOfOne DEF Behind
  <2> QED BY <1>5, <2>3, <2>4 DEF Activate
<1>6. CASE Activated(o)
  <2>1. /\ UNCHANGED <<disk, links, act, crossed, config, receipts>>
        /\ op[o].pc = "activating" /\ act[o].pc = "idle"
    BY <1>6 DEF Activated, At, hostVars, storeVars, graphVars, layerVars
  <2>2. OnRecordIs(b)' BY <1>1, <2>1 DEF OnRecordIs, Recorded
  <2>3. CASE Fail(o) /\ act[o].result = "error"
    BY <1>1, <1>4, <2>1, <2>3, BasedFail DEF Based, Rendered
  <2>4. CASE /\ act[o].result # "error" /\ op'[o].pc \in {"gate", "finalize"}
             /\ op'[o].release = op[o].release /\ op'[o].before = op[o].before
             /\ op'[o].mode = op[o].mode /\ op'[o].receipt = op[o].receipt
             /\ op'[o].pc = "gate" /\ op'[o].gates => op[o].mode = "forward-only"
    <3>1. CrossedBy(op[o].release) /\ Serving(op[o].release)
      BY <1>1, <2>1, <2>4 DEF Course
    <3>2. Documented(op[o], b)' BY <1>4, <2>1, <2>4 DEF Documented
    <3>3. Based(op[o], act[o], b)'
      BY <1>4, <2>1, <2>4, <3>1, <3>2
      DEF Based, Standing, Unlinked, Unsnapshotted, Preparing, CrossedBy, Serving
    <3> QED BY <1>1, <2>1, <2>2, <3>3, BasedOfOne
  <2>5. \/ Fail(o) /\ act[o].result = "error"
        \/ /\ act[o].result # "error" /\ op'[o].pc \in {"gate", "finalize"}
           /\ op'[o].release = op[o].release /\ op'[o].before = op[o].before
           /\ op'[o].mode = op[o].mode /\ op'[o].receipt = op[o].receipt
           /\ op'[o].pc = "gate" /\ op'[o].gates => op[o].mode = "forward-only"
    <3> DEFINE forward == [op EXCEPT ![o].barrier = TRUE, ![o].gates = TRUE]
    <3>1. /\ forward \in [Operator -> Call] /\ forward[o].release = op[o].release
          /\ forward[o].before = op[o].before /\ forward[o].mode = op[o].mode
          /\ forward[o].receipt = op[o].receipt
      BY <1>1 DEF Call
    <3>2. \/ /\ act[o].result # "error" /\ op[o].mode # "forward-only"
             /\ op' = [op EXCEPT ![o].pc = "gate", ![o].prev = act[o].prev,
                                 ![o].activation = act[o].result]
          \/ /\ act[o].result # "error" /\ op[o].mode = "forward-only"
             /\ op' = [forward EXCEPT ![o].pc = "gate", ![o].prev = act[o].prev,
                                      ![o].activation = act[o].result]
          \/ /\ act[o].result # "error"
             /\ op' = [forward EXCEPT ![o].pc = "finalize", ![o].gateError = TRUE,
                                      ![o].activation = act[o].result]
          \/ Fail(o) /\ act[o].result = "error"
      BY <1>4, <1>6 DEF Activated
    <3> HIDE DEF forward
    <3>3. CASE /\ act[o].result # "error" /\ op[o].mode # "forward-only"
               /\ op' = [op EXCEPT ![o].pc = "gate", ![o].prev = act[o].prev,
                                   ![o].activation = act[o].result]
      BY <1>1, <1>4, <3>3 DEF Call
    <3>4. CASE /\ act[o].result # "error" /\ op[o].mode = "forward-only"
               /\ op' = [forward EXCEPT ![o].pc = "gate", ![o].prev = act[o].prev,
                                        ![o].activation = act[o].result]
      BY <3>1, <3>4 DEF Call
    <3>5. CASE /\ act[o].result # "error"
               /\ op' = [forward EXCEPT ![o].pc = "finalize", ![o].gateError = TRUE,
                                        ![o].activation = act[o].result]
      BY <3>1, <3>5 DEF Call
    <3> QED BY <3>2, <3>3, <3>4, <3>5
  <2> QED BY <2>3, <2>4, <2>5
<1> QED BY <1>2, <1>5, <1>6

LEMMA BasedGates ==
  ASSUME Steady, IInv, CutoverInv, UndoInv, NEW b \in Release, BasedOn(b), NEW o \in Operator,
         Gate(o) \/ Doctor(o)
  PROVE  BasedOn(b)'
<1>1. /\ op \in [Operator -> Call] /\ op[o] \in Call
      /\ Based(op[o], act[o], b) /\ Course(op[o], act[o])
      /\ disk[b] = "sealed" /\ OnRecordIs(b)
  BY DEF IInv, TypeOK, BasedOn, CutoverInv
<1>2. /\ op[o].pc \in {"gate", "doctor"}
      /\ UNCHANGED <<disk, links, act, crossed, config, receipts>>
  BY DEF Gate, Doctor, At, ConvergeRunning, ConvergeFails, hostVars, storeVars, graphVars, layerVars
<1>3. /\ op[o].mode = SealedMode(op[o].release)
      /\ op[o].gates => op[o].mode = "forward-only"
  BY <1>1, <1>2 DEF Based
<1>4. /\ op[o].before.links = Everywhere(b) /\ op[o].before.config = Rendered(b)
      /\ Documented(op[o], b) /\ act[o].pc = "idle"
      /\ CrossedBy(op[o].release) /\ Serving(op[o].release)
  BY <1>1, <1>2 DEF Based, Course, Tried, Driving, Phase, Pending, Snapshotted
<1>5. /\ Behind(o, b) /\ op'[o].gates = op[o].gates
      /\ \/ op'[o].pc \in {"doctor", "finalize"}
         \/ op'[o].pc = "rollback" /\ op[o].mode # "forward-only"
  <2>1. \A pc : Goto(o, pc) => /\ op'[o].pc = pc /\ op'[o].gates = op[o].gates
                               /\ op'[o].release = op[o].release /\ op'[o].mode = op[o].mode
                               /\ op'[o].before = op[o].before /\ op'[o].receipt = op[o].receipt
    BY <1>1 DEF Goto, Call
  <2>2. GateFails(o) =>
          /\ \/ op'[o].pc = "finalize"
             \/ op'[o].pc = "rollback" /\ op[o].mode # "forward-only"
          /\ op'[o].gates = op[o].gates
          /\ op'[o].release = op[o].release /\ op'[o].mode = op[o].mode
          /\ op'[o].before = op[o].before /\ op'[o].receipt = op[o].receipt
    BY <1>1 DEF GateFails, Call
  <2>3. GateFails(o) \/ Goto(o, "doctor") \/ Goto(o, "finalize") BY DEF Gate, Doctor
  <2>4. OnRecordIs(b)' BY <1>1, <1>2 DEF OnRecordIs, Recorded
  <2> QED BY <1>1, <1>2, <2>1, <2>2, <2>3, <2>4 DEF Behind
<1>6. Documented(op[o], b)' BY <1>2, <1>4, <1>5 DEF Documented, Behind
<1>7. Based(op[o], act[o], b)'
  <2>1. /\ op'[o].mode = SealedMode(op'[o].release) /\ act'[o].pc = "idle"
        /\ op'[o].before.links = Everywhere(b) /\ op'[o].before.config = Rendered(b)
        /\ op'[o].pc \in {"doctor", "finalize", "rollback"}
    BY <1>2, <1>3, <1>4, <1>5 DEF Behind
  <2>3. op'[o].gates => op'[o].mode = "forward-only" BY <1>3, <1>5 DEF Behind
  <2>4. op'[o].pc = "rollback" => op'[o].mode # "forward-only" BY <1>5 DEF Behind
  <2>2. links' = Everywhere(op'[o].release) /\ crossed' \in {NoRelease, op'[o].release}
    BY <1>2, <1>4, <1>5 DEF Behind, Serving, CrossedBy
  <2> QED BY <1>6, <2>1, <2>2, <2>3, <2>4 DEF Based, Standing, Unlinked, Unsnapshotted, Preparing
<1> QED BY <1>5, <1>7, BasedOfOne DEF Behind

LEMMA BasedRollsBack ==
  ASSUME Steady, IInv, CutoverInv, UndoInv, NEW b \in Release, BasedOn(b), NEW o \in Operator,
         Rollback(o)
  PROVE  BasedOn(b)'
<1>1. /\ op[o] \in Call /\ op[o].pc = "rollback" /\ Goto(o, "restore_host")
      /\ Based(op[o], act[o], b) /\ Course(op[o], act[o]) /\ Undoable(op[o], act[o])
      /\ disk[b] = "sealed"
  BY DEF Rollback, At, IInv, TypeOK, BasedOn, CutoverInv, UndoInv
<1>2. /\ op[o].before.links = Everywhere(b) /\ op[o].before.config = Rendered(b)
      /\ Documented(op[o], b) /\ op[o].mode = SealedMode(op[o].release) /\ ~op[o].gates
      /\ op[o].mode = "reversible" /\ CrossedBy(op[o].release)
      /\ op[o].prev = Everywhere(b)
      /\ \A c \in Component : disk[op[o].prev[c]] = "sealed"
  BY <1>1 DEF Based, Course, Undoable, Tried, Driving, Phase, Pending, Snapshotted
<1>3. crossed = NoRelease BY <1>2 DEF CrossedBy, SealedMode
<1>4. ReleaseLockFree BY <1>1, DriverAlone DEF Driving, Phase
<1>5. ActivatorRollback(op[o].prev)
  BY <1>2, <1>4 DEF Rollback, ActivatorRollbackFails, Steady
<1>6. links' = Everywhere(b) /\ UNCHANGED <<disk, act, crossed, receipts>>
  BY <1>2, <1>5 DEF ActivatorRollback, storeVars, layerVars
<1>7. Behind(o, b) /\ op'[o].pc = "restore_host" /\ op'[o].gates = op[o].gates
  BY <1>1, <1>6, GotoBehind
<1>8. Documented(op[o], b)' BY <1>2, <1>6, <1>7 DEF Documented, Behind
<1>9. act[o].pc = "idle" BY <1>4 DEF ReleaseLockFree
<1>10. Based(op[o], act[o], b)'
  BY <1>2, <1>3, <1>6, <1>7, <1>8, <1>9 DEF Based, Behind
<1> QED BY <1>7, <1>10, BasedOfOne DEF Behind

LEMMA BasedRestores ==
  ASSUME Steady, IInv, CutoverInv, UndoInv, NEW b \in Release, BasedOn(b), NEW o \in Operator,
         RestoreHost(o) \/ Restore(o)
  PROVE  BasedOn(b)'
<1>1. /\ op \in [Operator -> Call] /\ op[o] \in Call /\ op[o].pc \in {"restore_host", "restore"}
      /\ Based(op[o], act[o], b) /\ receipts \in Seq(Document) /\ disk[b] = "sealed"
      /\ op[o].receipt \in DOMAIN receipts /\ OnRecordIs(b)
  BY DEF RestoreHost, Restore, At, IInv, TypeOK, HostTypeOK, BasedOn, LocalsReady, Snapshotted
<1>2. /\ op[o].before.links = Everywhere(b) /\ op[o].before.config = Rendered(b)
      /\ Documented(op[o], b) /\ op[o].mode = SealedMode(op[o].release) /\ ~op[o].gates
      /\ links = Everywhere(b) /\ crossed \in {NoRelease, b} /\ act[o].pc = "idle"
  BY <1>1 DEF Based, Standing, Tried, Driving, Phase, Pending, Snapshotted
<1>3. Restorable(op[o].receipt) BY <1>2 DEF Restorable, Documented
<1>4. /\ CutoverRestore(op[o].receipt)
      /\ Goto(o, "abort") \/ op' = [op EXCEPT ![o].pc = "abort", ![o].restored = TRUE]
  BY <1>3 DEF RestoreHost, Restore, CutoverRestoreFails, Answer, Steady
<1>5. UNCHANGED <<disk, links, act, crossed>> BY <1>4 DEF CutoverRestore, storeVars, graphVars
<1>6. /\ op'[o].pc = "abort" /\ op'[o].release = op[o].release /\ op'[o].before = op[o].before
      /\ op'[o].mode = op[o].mode /\ op'[o].gates = op[o].gates
  BY <1>1, <1>4 DEF Goto, Call
<1>7. /\ DOMAIN receipts' = DOMAIN receipts
      /\ \A i \in DOMAIN receipts : /\ receipts'[i].migration = receipts[i].migration
                                    /\ receipts'[i].release = receipts[i].release
  BY <1>1, <1>4 DEF CutoverRestore, Document
<1>8. OnRecordIs(b)' BY <1>1, <1>7, OnRecordStays
<1>9. Based(op[o], act[o], b)'
  BY <1>2, <1>5, <1>6 DEF Based, Pending, Snapshotted
<1> QED BY <1>1, <1>5, <1>8, <1>9, BasedOfOne

\* The receipt joins both halves, and puts the candidate on record.
LEMMA BasedFinalizes ==
  ASSUME Steady, IInv, CutoverInv, UndoInv, NEW b \in Release, BasedOn(b), NEW o \in Operator,
         Finalize(o)
  PROVE  RecordInv'
<1>1. /\ op \in [Operator -> Call] /\ op[o] \in Call /\ op[o].pc = "finalize"
      /\ Based(op[o], act[o], b) /\ Course(op[o], act[o]) /\ receipts \in Seq(Document)
      /\ op[o].receipt \in DOMAIN receipts /\ op[o].release \in Release
  BY DEF Finalize, At, IInv, TypeOK, HostTypeOK, Call, BasedOn, CutoverInv, LocalsReady, Snapshotted
<1>2. /\ Documented(op[o], b) /\ op[o].mode = SealedMode(op[o].release)
      /\ links = Everywhere(op[o].release) /\ crossed \in {NoRelease, op[o].release}
      /\ config = Rendered(op[o].release) /\ act[o].pc = "idle"
  BY <1>1 DEF Based, Course, Pending, Snapshotted
<1>3. ActiveIds = {op[o].release} BY <1>2 DEF ActiveIds, Everywhere, Steady
<1>4. Recordable(op[o].receipt) BY <1>2, <1>3 DEF Recordable, Documented
<1>5. /\ CutoverFinalize(op[o].receipt, op[o].activation)
      /\ op' = [op EXCEPT ![o].pc = "commit", ![o].gates = TRUE]
  BY <1>4 DEF Finalize, CutoverFinalizeFails, Answer, Steady
<1>6. UNCHANGED <<disk, links, act, crossed, config>>
  BY <1>5 DEF CutoverFinalize, storeVars, graphVars
<1>7. /\ op'[o].pc = "commit" /\ op'[o].release = op[o].release /\ op'[o].mode = op[o].mode
  BY <1>1, <1>5 DEF Call
<1>8. PICK r \in Release : r = op[o].release BY <1>1
<1>9. OnRecordIs(r)'
  <2>1. op[o].receipt = Len(receipts) /\ receipts[op[o].receipt].release = r
    BY <1>2, <1>8 DEF Documented
  <2>2. /\ DOMAIN receipts' = DOMAIN receipts
        /\ receipts'[op[o].receipt].migration # "not_started"
        /\ receipts'[op[o].receipt].release = r
    <3>1. receipts[op[o].receipt] \in Document BY <1>1
    <3>2. PICK migration \in {"crossed", "not_mutated"} :
            receipts' = [receipts EXCEPT ![op[o].receipt].status = op[o].activation,
                                         ![op[o].receipt].migration = migration]
      BY <1>5 DEF CutoverFinalize
    <3>3. receipts'[op[o].receipt].migration = migration /\ DOMAIN receipts' = DOMAIN receipts
      BY <1>1, <3>1, <3>2 DEF Document
    <3>4. receipts'[op[o].receipt].release = receipts[op[o].receipt].release
      BY <1>1, <3>1, <3>2 DEF Document
    <3> QED BY <2>1, <3>3, <3>4
  <2>3. Len(receipts) # 0 BY <1>1, <2>1
  <2> QED BY <2>1, <2>2, <2>3, OnRecordMoves
<1>10. disk'[r] = "sealed"
  <2>1. PICK c \in Component : links[c] = r BY <1>2, <1>8 DEF Steady, Everywhere
  <2> QED BY <1>6, <2>1 DEF IInv, LinkedAndRunningIntact
<1>11. Based(op[o], act[o], r)'
  BY <1>2, <1>6, <1>7, <1>8 DEF Based, Pending
<1>12. BasedOn(r)' BY <1>9, <1>10, <1>11, BasedOfOne
<1> QED BY <1>12 DEF RecordInv

LEMMA BasedEnds ==
  ASSUME Steady, IInv, CutoverInv, UndoInv, NEW b \in Release, BasedOn(b), NEW o \in Operator,
         Commit(o) \/ Abort(o)
  PROVE  BasedOn(b)'
<1>1. /\ op \in [Operator -> Call] /\ op[o].pc \in {"commit", "abort"}
      /\ Based(op[o], act[o], b) /\ Course(op[o], act[o]) /\ Undoable(op[o], act[o])
      /\ disk[b] = "sealed"
  BY DEF Commit, Abort, At, IInv, TypeOK, BasedOn, CutoverInv, UndoInv
<1>2. /\ links = Everywhere(b) /\ crossed \in {NoRelease, b} /\ act[o].pc = "idle"
      /\ config = Rendered(b)
  BY <1>1 DEF Based, Standing, Undoable, Tried, Driving
<1>3. UNCHANGED <<links, act, crossed, config, receipts>>
  BY DEF Commit, Abort, Reclaim, ReclaimFails, ReclaimRefused, ReclaimTorn, hostVars, graphVars,
    layerVars
<1>4. disk'[b] = "sealed"
  BY <1>1, <1>2, SweepKeepsBase DEF Commit, Abort, Steady
<1>5. \E outcome : End(o, outcome)
  <2>1. Fail(o) \/ \E outcome : End(o, outcome) BY DEF Commit, Abort, Answer
  <2>2. op[o].pc = "commit" => op[o].gates BY <1>1 DEF Course
  <2> QED BY <1>1, <2>1, <2>2 DEF Fail, Preparing
<1>6. op'[o].pc = "idle" /\ ~op'[o].gates BY <1>1, <1>5 DEF End, Resting
<1> QED BY <1>2, <1>3, <1>4, <1>6, BasedRests

-----------------------------------------------------------------------------
(* The Host beside it, and the theorems                                      *)

\* A step that changes neither the links, the files nor the documents.
LEMMA BasedStays ==
  ASSUME IInv, NEW b \in Release, BasedOn(b),
         UNCHANGED <<op, links, act, crossed, config, receipts>>, disk'[b] = "sealed"
  PROVE  BasedOn(b)'
<1>1. OnRecordIs(b)' BY DEF BasedOn, OnRecordIs, Recorded
<1>2. ASSUME NEW o \in Operator PROVE Based(op[o], act[o], b)'
  <2>1. Based(op[o], act[o], b) BY DEF BasedOn
  <2> QED BY <2>1 DEF Based, Documented
<1> QED BY <1>1, <1>2 DEF BasedOn

LEMMA BasedActivator ==
  ASSUME Steady, IInv, CutoverInv, UndoInv, NEW b \in Release, BasedOn(b), NEW q \in Operator,
         Activator(q), UNCHANGED op
  PROVE  BasedOn(b)'
<1>1. /\ act \in [Operator -> Activation] /\ act[q] \in Activation /\ act[q].pc # "idle"
  BY DEF IInv, TypeOK, HostTypeOK, Activator, SwitchLink, StartUnits, BecomeReady,
    ActivateRestores, ForwardFixRequired
<1>2. /\ Based(op[q], act[q], b) /\ Undoable(op[q], act[q]) /\ Course(op[q], act[q])
      /\ InFlight(act[q]) /\ disk[b] = "sealed" /\ OnRecordIs(b)
  BY DEF BasedOn, UndoInv, CutoverInv
<1>3. op[q].pc = "activating" BY <1>1, <1>2 DEF Based
<1>4. /\ op[q].before.links = Everywhere(b) /\ act[q].prev = Everywhere(b)
      /\ act[q].release = op[q].release
  BY <1>1, <1>2, <1>3 DEF Based, Undoable, Tried, Driving, Phase
<1>5. UNCHANGED <<disk, config, receipts>>
  BY DEF Activator, SwitchLink, StartUnits, BecomeReady, ActivateRestores, ForwardFixRequired,
    storeVars, layerVars
<1>6. act'[q].pc = "idle" =>
        \/ act'[q].result = "activated"
        \/ act'[q].result = "error" /\ links' = Everywhere(b) /\ crossed' = NoRelease
        \/ act'[q].result = "forward_fix_required" /\ crossed # NoRelease /\ act[q].pc = "started"
  BY <1>1, <1>4 DEF Activator, SwitchLink, StartUnits, BecomeReady, ActivateRestores,
    ForwardFixRequired, Answers, Activation
<1>7. act'[q].pc = "idle" /\ act'[q].result = "forward_fix_required" =>
        op[q].release \in ForwardOnly
  BY <1>2, <1>4, <1>6 DEF InFlight, CrossedBy
<1>8. OnRecordIs(b)' BY <1>2, <1>5 DEF OnRecordIs, Recorded
<1>9. Based(op[q], act[q], b)'
  <2>1. Documented(op[q], b)' BY <1>2, <1>3, <1>5 DEF Based, Documented, Pending, Snapshotted
  <2>2. /\ op'[q] = op[q] /\ op[q].mode = SealedMode(op[q].release) /\ ~op[q].gates
        /\ op[q].before.links = Everywhere(b) /\ op[q].before.config = Rendered(b)
    BY <1>2, <1>3 DEF Based, Tried, Driving, Phase
  <2> QED BY <1>3, <1>6, <1>7, <2>1, <2>2 DEF Based, Standing, Unlinked, Unsnapshotted, Preparing
<1> QED BY <1>2, <1>5, <1>8, <1>9, BasedOfOne

LEMMA BasedAbandon ==
  ASSUME Steady, IInv, CutoverInv, NEW b \in Release, BasedOn(b), NEW r \in Release, Abandon(r)
  PROVE  BasedOn(b)'
<1>1. PICK o \in Operator : TRUE BY DEF Steady
<1>2. op[o].pc \notin Driving
  <2> SUFFICES ASSUME op[o].pc \in Driving PROVE FALSE OBVIOUS
  <2>1. Accepts("abort", r) BY DEF Abandon, Reclaim, ReclaimTorn
  <2>2. r = op[o].release BY <2>1, MarkerGuards
  <2> QED BY <2>2 DEF Abandon, Steady, Driving
<1>3. links = Everywhere(b) /\ disk[b] = "sealed"
  BY <1>2 DEF BasedOn, Based, Standing, Driving, IInv, TypeOK, Call
<1>4. disk'[b] = "sealed"
  BY <1>3, SweepKeepsBase DEF Abandon, ReclaimFails, Steady
<1>5. UNCHANGED <<op, links, act, crossed, config, receipts>>
  BY DEF Abandon, Reclaim, ReclaimTorn, graphVars, layerVars
<1> QED BY <1>4, <1>5, BasedStays

LEMMA BasedDriver ==
  ASSUME Steady, IInv, CutoverInv, UndoInv, NEW b \in Release, BasedOn(b), NEW o \in Operator,
         Driver(o)
  PROVE  RecordInv'
<1>1. CASE Finalize(o) BY <1>1, BasedFinalizes
<1>2. CASE Prepare(o) \/ ClaimUpload(o) \/ CloseUpload(o) \/ StartBuild(o) \/ Built(o)
  BY <1>2, BasedPrepares DEF RecordInv
<1>3. CASE DryRun(o) \/ Retain(o) \/ Preconditions(o) \/ Snapshot(o) \/ Stage(o) \/ Refresh(o)
  BY <1>3, BasedStages DEF RecordInv
<1>4. CASE Activate(o) \/ Activated(o) \/ LoseActivation(o)
  BY <1>4, BasedActivates DEF RecordInv
<1>5. CASE Gate(o) \/ Doctor(o) BY <1>5, BasedGates DEF RecordInv
<1>6. CASE Rollback(o) BY <1>6, BasedRollsBack DEF RecordInv
<1>7. CASE RestoreHost(o) \/ Restore(o) BY <1>7, BasedRestores DEF RecordInv
<1>8. CASE Commit(o) \/ Abort(o) BY <1>8, BasedEnds DEF RecordInv
<1> QED BY <1>1, <1>2, <1>3, <1>4, <1>5, <1>6, <1>7, <1>8 DEF Driver

LEMMA RecordInductive ==
  ASSUME Steady, IInv, CutoverInv, UndoInv, RecordInv, [Next]_vars
  PROVE  RecordInv'
<1>1. PICK b \in Release : BasedOn(b) BY DEF RecordInv
<1>2. ASSUME NEW o \in Operator, Driver(o) PROVE RecordInv' BY <1>1, <1>2, BasedDriver
<1>3. ASSUME NEW o \in Operator, OperatorDies(o) PROVE RecordInv'
  BY <1>3 DEF OperatorDies, Steady
<1>4. ASSUME NEW o \in Operator, NEW r \in Release, NEW mode \in Mode, Begin(o, r, mode)
      PROVE  RecordInv'
  <2>1. /\ op'[o].pc = "reclaim" /\ op'[o].mode = SealedMode(op'[o].release) /\ ~op'[o].gates
    BY <1>4 DEF Begin, Resting, IInv, TypeOK, Steady
  <2>2. UNCHANGED <<disk, links, act, crossed, config, receipts>> /\ op[o].pc = "idle"
    BY <1>4 DEF Begin, hostVars, storeVars, graphVars, layerVars
  <2>3. /\ links = Everywhere(b) /\ config = Rendered(b) /\ crossed \in {NoRelease, b}
        /\ act[o].pc = "idle" /\ disk[b] = "sealed"
    BY <1>1, <2>2 DEF BasedOn, Based, Standing
  <2>4. BasedOn(b)' BY <1>1, <2>1, <2>2, <2>3, BasedRests
  <2> QED BY <2>4 DEF RecordInv
<1>5. ASSUME NEW r \in Release, Abandon(r) PROVE RecordInv'
  BY <1>1, <1>5, BasedAbandon DEF RecordInv
<1>6. ASSUME NEW o \in Operator, NEW r \in Release, RollbackByHand(o, r) PROVE RecordInv'
  BY <1>6 DEF RollbackByHand, Steady
<1>7. ASSUME HostNext, UNCHANGED <<op, deploys>> PROVE RecordInv'
  <2>1. ~HostReboots /\ \A o \in Operator : ~ActivatorDies(o)
    BY DEF HostReboots, ActivatorDies, Steady
  <2>2. ASSUME NEW o \in Operator, Activator(o) PROVE RecordInv'
    BY <1>1, <1>7, <2>2, BasedActivator DEF RecordInv
  <2>3. ASSUME BuildEnd \/ \E c \in Component : UnitReexec(c) PROVE RecordInv'
    <3>1. disk[b] = "sealed" BY <1>1 DEF BasedOn
    <3>2. UNCHANGED <<op, links, act, crossed, config, receipts>>
      BY <1>7, <2>3 DEF BuildEnd, UnitReexec, graphVars, layerVars
    <3>3. disk'[b] = "sealed" BY <2>3, <3>1, BuildKeepsBase DEF UnitReexec, storeVars
    <3>4. BasedOn(b)' BY <1>1, <3>2, <3>3, BasedStays
    <3> QED BY <3>4 DEF RecordInv
  <2> QED BY <1>7, <2>1, <2>2, <2>3 DEF HostNext
<1>8. ASSUME UNCHANGED vars PROVE RecordInv'
  <2>1. UNCHANGED <<op, links, act, crossed, config, receipts>> /\ disk'[b] = "sealed"
    BY <1>1, <1>8 DEF vars, hostVars, storeVars, graphVars, layerVars, BasedOn
  <2>2. BasedOn(b)' BY <1>1, <2>1, BasedStays
  <2> QED BY <2>2 DEF RecordInv
<1> QED BY <1>2, <1>3, <1>4, <1>5, <1>6, <1>7, <1>8 DEF Next, Rest

LEMMA RecordInit == Init => RecordInv
<1> SUFFICES ASSUME Init PROVE RecordInv OBVIOUS
<1>1. /\ Installed \in Release /\ disk[Installed] = "sealed"
      /\ links = Everywhere(Installed) /\ config = Rendered(Installed)
      /\ crossed = NoRelease /\ receipts = <<>>
  BY ReleaseAssumption DEF Init, HostInit
<1>2. OnRecordIs(Installed) BY <1>1 DEF OnRecordIs, Recorded
<1>3. ASSUME NEW o \in Operator PROVE Based(op[o], act[o], Installed)
  <2>1. op[o].pc = "idle" /\ act[o].pc = "idle" /\ ~op[o].gates BY DEF Init, HostInit, Resting
  <2> QED BY <1>1, <2>1 DEF Based, Tried, Driving, Pending, Snapshotted
<1> QED BY <1>1, <1>2, <1>3 DEF BasedOn, RecordInv

LEMMA RecordCourse ==
  ASSUME Steady
  PROVE  Spec => [](IInv /\ CutoverInv /\ UndoInv /\ RecordInv)
<1>1. Unforced /\ Lone /\ "rolls_back" \notin Faults BY DEF Steady, Unforced
<1>2. Apart /\ Apart' BY <1>1 DEF Lone, Apart
<1>3. Init => CutoverInv /\ UndoInv /\ RecordInv BY CutoverInit, UndoInit, RecordInit
<1>4. IInv /\ CutoverInv /\ UndoInv /\ RecordInv /\ [Next]_vars =>
        CutoverInv' /\ UndoInv' /\ RecordInv'
  <2> SUFFICES ASSUME IInv, CutoverInv, UndoInv, RecordInv, [Next]_vars
               PROVE  CutoverInv' /\ UndoInv' /\ RecordInv'
    OBVIOUS
  <2>1. CutoverInv' BY <1>1, <1>2, CutoverInductive
  <2>2. UndoInv' BY <1>1, UndoInductive
  <2>3. RecordInv' BY RecordInductive
  <2> QED BY <2>1, <2>2, <2>3
<1> QED BY <1>3, <1>4, Inductive, PTL DEF Spec

\* OnRecordKept: whatever a later candidate fails at, what the Host has last
\* cut over to is still there whole.
THEOREM RecordIsKept ==
  ASSUME Steady
  PROVE  Spec => []OnRecordKept
<1>1. IInv /\ RecordInv => OnRecordKept
  BY OnRecordUnique DEF RecordInv, BasedOn, OnRecordKept
<1> QED BY <1>1, RecordCourse, PTL

\* OneCutover: no deploy ends between the two halves.
THEOREM HalvesAreOne ==
  ASSUME Steady
  PROVE  Spec => []OneCutover
<1>1. IInv /\ CutoverInv /\ RecordInv => OneCutover
  <2> SUFFICES ASSUME IInv, CutoverInv, RecordInv, NEW o \in Operator, op[o].outcome # "none"
               PROVE  \E r \in Release : links = Everywhere(r) /\ config = Rendered(r)
    BY DEF OneCutover
  <2>1. op[o].pc = "idle" BY DEF CutoverInv, Course
  <2>2. PICK b \in Release : BasedOn(b) BY DEF RecordInv
  <2> QED BY <2>1, <2>2 DEF BasedOn, Based, Standing
<1> QED BY <1>1, RecordCourse, PTL

\* BarrierKeepsConfig: no Host file goes back behind a start that migrated
\* state.
THEOREM BarrierKeepsFiles ==
  ASSUME Steady
  PROVE  Spec => []BarrierKeepsConfig
<1>1. IInv /\ CutoverInv /\ UndoInv /\ RecordInv => BarrierKeepsConfig
  <2> SUFFICES ASSUME IInv, CutoverInv, UndoInv, RecordInv, crossed # NoRelease, NEW f \in HostFile
               PROVE  \/ config[f] = crossed
                      \/ \E o \in Operator : op[o].pc # "idle" /\ config[f] = op[o].release
    BY DEF BarrierKeepsConfig
  <2>1. PICK b \in Release : BasedOn(b) BY DEF RecordInv
  <2>2. PICK o \in Operator : TRUE
    <3>1. Operator # {} => \E p \in Operator : TRUE OBVIOUS
    <3> QED BY <3>1 DEF Steady
  <2>3. /\ Based(op[o], act[o], b) /\ Course(op[o], act[o]) /\ Undoable(op[o], act[o])
        /\ op[o].pc \in Phase
    BY <2>1 DEF BasedOn, CutoverInv, UndoInv, IInv, TypeOK, Call
  <2>4. CASE op[o].pc \in {"idle", "reclaim", "restore"}
    BY <2>3, <2>4 DEF Based, Standing, Rendered
  <2>5. CASE op[o].pc \in (Unlinked \ {"activate"}) \cup {"abort"}
    <3>1. config = op[o].before.config BY <2>3, <2>5 DEF Undoable
    <3>2. op[o].before.config = Rendered(b) /\ crossed \in {NoRelease, b}
      BY <2>3, <2>5 DEF Based, Standing, Tried, Driving, Unlinked, Unsnapshotted, Preparing, Phase
    <3> QED BY <3>1, <3>2 DEF Rendered
  <2>6. CASE op[o].pc \in {"activate", "activating", "gate", "doctor", "finalize", "commit"}
    BY <2>3, <2>6 DEF Course, Rendered
  <2>7. CASE op[o].pc \in {"rollback", "restore_host"}
    BY <2>3, <2>7 DEF Course, CrossedBy, SealedMode, Based
  <2> QED BY <2>3, <2>4, <2>5, <2>6, <2>7 DEF Phase, Unlinked, Unsnapshotted, Preparing
<1> QED BY <1>1, RecordCourse, PTL
=============================================================================
