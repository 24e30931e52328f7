----------------------------- MODULE SourceRun -----------------------------
(***************************************************************************)
(* A Host run from the operator's own checkouts by supervisord             *)
(* (adapters/supervisord.py, local_product.py): the state roots its         *)
(* services own, moved from the accounts they used to run as to the         *)
(* operator while the Host is stopped; the smart-home database moved from   *)
(* Channel to Hub; the Authority its Hub establishes; and a reset.          *)
(*                                                                         *)
(* What a root holds is the epoch of the Host it belongs to: every wiping   *)
(* reset begins a new one.  One operator runs one command at a time.        *)
(***************************************************************************)
EXTENDS Naturals

CONSTANTS
  Root,         \* the service roots; "bootstrap" holds the Host identity
  None,         \* no directory there
  MaxEpoch,     \* bound: Host identities this machine gets
  MaxAside,     \* bound: commands other than start
  MaxFaults,    \* bound: faults of all kinds
  Faults        \* the faults of this instance

VARIABLES
  roots,        \* the directory, its owner, the transfer journal and what it names
  smarthome,    \* the smart-home database at Channel's place and at Hub's
  generated,    \* the configuration prepare renders is there
  material,     \* epoch of the install inputs and Owner material
  up,           \* supervisord runs the services
  op,           \* the command that runs, or what the last one reported
  asides, faults,   \* how many so far
  served        \* history: the epoch each root was last served at

vars == <<roots, smarthome, generated, material, up, op, asides, faults, served>>

\* What a directory holds, and what is noted in it: for the bootstrap root the
\* delivery binding, for the others the capability Hub may establish once.
Holds(epoch, note) == [epoch |-> epoch, note |-> note]
Empty == Holds(0, 0)

Root0(content, owner) ==
  [live |-> content, owner |-> owner, journal |-> FALSE, staging |-> None, original |-> None]

Idle == [cmd |-> "none", pc |-> "idle", answer |-> "none", todo |-> {}, at |-> None]

\* A machine nothing ran on, or one whose services ran under their own accounts.
Init ==
  /\ \/ /\ roots = [r \in Root |-> Root0(None, "operator")]
        /\ smarthome = [channel |-> 0, hub |-> 0]
        /\ served = [r \in Root |-> 0]
     \/ /\ roots = [r \in Root |-> Root0(Holds(1, IF r = "bootstrap" THEN 1 ELSE 0), "legacy")]
        /\ smarthome = [channel |-> 1, hub |-> 0]
        /\ served = [r \in Root |-> 1]
  /\ generated = FALSE /\ material = 1 /\ up = FALSE /\ op = Idle
  /\ asides = 0 /\ faults = 0

Fault(f) == f \in Faults /\ faults < MaxFaults /\ faults' = faults + 1

Goto(pc) == op' = [op EXCEPT !.pc = pc]
Report(answer) == op' = [op EXCEPT !.pc = "reported", !.answer = answer]

\* A step of a command as it should go, and the same step raising.
Step(pc, next) == op.pc = pc /\ Goto(next) /\ UNCHANGED <<asides, faults>>
Raises(pcs, f) ==
  /\ op.pc \in pcs /\ Fault(f) /\ Report("failed")
  /\ UNCHANGED <<roots, smarthome, generated, material, up, asides, served>>

-----------------------------------------------------------------------------
\* Commands.

Interrupted(r) == roots[r].journal
MigrationPending ==
  \E r \in Root : Interrupted(r) \/ (roots[r].live # None /\ roots[r].owner = "legacy")

FirstStep == [start |-> "roots", provision |-> "roots", prepare |-> "make roots", stop |-> "stop",
              reset |-> "stop", wipe |-> "replacement"]

\* Two habits an instance may grant the operator: to prepare, and to wipe, a
\* Host while the journal of an interrupted transfer waits for the next start.
Command(cmd) ==
  /\ op.pc \in {"idle", "reported"}
  /\ cmd # "start" => asides < MaxAside
  /\ asides' = IF cmd = "start" THEN asides ELSE asides + 1
  /\ cmd = "wipe" => material < MaxEpoch
  /\ (\E r \in Root : Interrupted(r)) =>
       /\ cmd = "prepare" => "prepares_unhealed" \in Faults
       /\ cmd = "wipe" => "wipes_unhealed" \in Faults
  /\ op' = [Idle EXCEPT !.cmd = cmd, !.pc = FirstStep[cmd], !.todo = Root]
  /\ UNCHANGED <<roots, smarthome, generated, material, up, faults, served>>

\* A transfer asks for a stopped Host first; otherwise the roots are prepared
\* as they stand.
BeginRoots ==
  /\ op.pc = "roots"
  /\ Goto(IF MigrationPending THEN "stop for transfer" ELSE "prepare roots")
  /\ UNCHANGED <<roots, smarthome, generated, material, up, asides, faults, served>>

\* _stop_host, and where each caller of it goes on.
AfterStop ==
  IF op.pc = "stop for transfer" THEN "prepare roots"
  ELSE CASE op.cmd \in {"reset", "wipe"} -> "remove generated"
         [] op.cmd = "start" -> "smart-home"
         [] OTHER -> "done"
StopHost ==
  /\ op.pc \in {"stop", "stop for transfer"}
  /\ Goto(AfterStop)
  /\ up' = FALSE
  /\ UNCHANGED <<roots, smarthome, generated, material, asides, faults, served>>

-----------------------------------------------------------------------------
\* prepare_roots: root by root.

Put(r, root) == roots' = [roots EXCEPT ![r] = root]
RootStep(r) ==
  /\ op.pc = "prepare roots" /\ r \in op.todo
  /\ UNCHANGED <<smarthome, generated, material, up, asides, served>>

\* _recover: the original goes back to a path that is missing, then the copy
\* is discarded, then the journal.
RestoreOriginal(r) ==
  /\ RootStep(r) /\ Interrupted(r)
  /\ roots[r].live = None /\ roots[r].original # None
  /\ Put(r, [roots[r] EXCEPT !.live = roots[r].original, !.owner = "legacy", !.original = None])
  /\ UNCHANGED <<op, faults>>

DiscardUnrestored(r) ==
  /\ RootStep(r) /\ Interrupted(r)
  /\ Put(r, [roots[r] EXCEPT !.staging = None, !.journal = FALSE])
  /\ UNCHANGED <<op, faults>>
DiscardJournal(r) ==
  /\ RootStep(r) /\ Interrupted(r)
  /\ roots[r].live # None \/ roots[r].original = None
  /\ Put(r, [roots[r] EXCEPT !.staging = None, !.journal = FALSE])
  /\ UNCHANGED <<op, faults>>

\* _transfer: a whole copy and a journal that names it and the backup, the two
\* renames, the end of the journal.
CopyRoot(r) ==
  /\ RootStep(r) /\ ~Interrupted(r) /\ roots[r].live # None /\ roots[r].owner = "legacy"
  /\ Put(r, [roots[r] EXCEPT !.staging = roots[r].live, !.original = None, !.journal = TRUE])
  /\ op' = [op EXCEPT !.pc = "set aside", !.todo = @ \ {r}, !.at = r]
  /\ UNCHANGED faults

TransferStep(pc, next) ==
  /\ Step(pc, next)
  /\ UNCHANGED <<smarthome, generated, material, up, served>>

SetAside ==
  /\ TransferStep("set aside", "publish")
  /\ Put(op.at, [roots[op.at] EXCEPT !.original = roots[op.at].live, !.live = None])

Publish ==
  /\ TransferStep("publish", "end transfer")
  /\ Put(op.at, [roots[op.at] EXCEPT !.live = roots[op.at].staging, !.owner = "operator",
                                     !.staging = None])

\* The copy could not be published: the original goes back, the copy goes, the
\* journal stays for the next start.
PublishFails ==
  /\ op.pc = "publish" /\ Fault("rename_fails") /\ Report("failed")
  /\ Put(op.at, [roots[op.at] EXCEPT !.live = roots[op.at].original, !.original = None,
                                     !.staging = None])
  /\ UNCHANGED <<smarthome, generated, material, up, asides, served>>

EndTransfer ==
  /\ TransferStep("end transfer", "prepare roots")
  /\ Put(op.at, [roots[op.at] EXCEPT !.journal = FALSE])

Made(root) == IF root.live = None THEN [root EXCEPT !.live = Empty, !.owner = "operator"] ELSE root
MakeRoot(r) ==
  /\ RootStep(r) /\ ~Interrupted(r)
  /\ roots[r].live # None => roots[r].owner = "operator"
  /\ Put(r, Made(roots[r]))
  /\ op' = [op EXCEPT !.todo = @ \ {r}]
  /\ UNCHANGED faults

RootsReady ==
  /\ op.pc = "prepare roots" /\ op.todo = {}
  /\ Goto("make roots")
  /\ UNCHANGED <<roots, smarthome, generated, material, up, asides, faults, served>>

-----------------------------------------------------------------------------
\* product.prepare: the roots, the Host identity, the Owner material.

Bootstrap == roots["bootstrap"].live
Authority == IF roots["hub"].live = None THEN 0 ELSE roots["hub"].live.epoch

\* The situation this machine's Hub, binding and identity are in (decide_install).
Decide ==
  IF Authority \notin {0, material} THEN "foreign authority"
  ELSE IF Bootstrap.note # 0 THEN (IF Authority = 0 THEN "authority lost" ELSE "continue")
  ELSE IF Authority = 0 THEN "first install"
  ELSE IF Bootstrap.epoch = material THEN "adopt delivery" ELSE "identity unproven"
Proceeds(decision) == decision \in {"first install", "continue", "adopt delivery"}

\* _make_roots and _adopt_host_identity: an identity that is there is kept.
MakeRoots ==
  /\ Step("make roots", "owner assets")
  /\ LET root == Made(roots["bootstrap"]) IN
     Put("bootstrap", IF root.live.epoch = 0 THEN [root EXCEPT !.live.epoch = material] ELSE root)
  /\ UNCHANGED <<smarthome, generated, material, up, served>>

\* A Hub that holds nothing is given a fresh capability, one that has
\* established an Authority is given exactly that one.
PlaceOwnerAssets ==
  /\ op.pc = "owner assets"
  /\ UNCHANGED <<smarthome, generated, material, up, asides, faults, served>>
  /\ IF ~Proceeds(Decide) THEN Report("refused") /\ UNCHANGED roots
     ELSE /\ Goto("generate")
          /\ Put("hub", [Made(roots["hub"]) EXCEPT !.live.note = material])

Generate ==
  /\ Step("generate", CASE op.cmd = "start" -> "stop" [] OTHER -> "done")
  /\ generated' = TRUE
  /\ UNCHANGED <<roots, smarthome, material, up, served>>

-----------------------------------------------------------------------------
\* The rest of a start.

\* smarthome_state.transfer: a copy published by a link, which never replaces
\* a database that is there; Channel's stays.
TransferSmarthome ==
  /\ Step("smart-home", "start")
  /\ smarthome' = IF smarthome.channel # 0 /\ smarthome.hub = 0
                  THEN [smarthome EXCEPT !.hub = smarthome.channel] ELSE smarthome
  /\ UNCHANGED <<roots, generated, material, up, served>>

\* The script starts the services on what is live, whether or not it then
\* answers; Hub creates the smart-home database it does not find.
StartHost ==
  /\ op.pc = "start"
  /\ up' = TRUE
  /\ served' = [r \in Root |-> roots[r].live.epoch]
  /\ smarthome' = IF smarthome.hub = 0 THEN [smarthome EXCEPT !.hub = material + 1] ELSE smarthome
  /\ \/ Goto("commit") /\ UNCHANGED faults
     \/ Fault("start_fails") /\ Report("failed")
  /\ UNCHANGED <<roots, generated, material, asides>>

\* Hub (external): the capability it was given establishes an Authority in an
\* empty database.
HubEstablishes ==
  /\ up /\ Authority = 0 /\ roots["hub"].live.note # 0
  /\ Put("hub", [roots["hub"] EXCEPT !.live.epoch = roots["hub"].live.note])
  /\ served' = [served EXCEPT !["hub"] = roots["hub"].live.note]
  /\ UNCHANGED <<smarthome, generated, material, up, op, asides, faults>>

\* commit_owner_authority: the delivery is recorded once Hub proves it.
CommitOwnerAuthority ==
  /\ op.pc = "commit"
  /\ Report(IF Proceeds(Decide) THEN "ok" ELSE "refused")
  /\ IF Decide = "adopt delivery"
     THEN Put("bootstrap", [roots["bootstrap"] EXCEPT !.live.note = material])
     ELSE UNCHANGED roots
  /\ UNCHANGED <<smarthome, generated, material, up, asides, faults, served>>

Done ==
  /\ op.pc = "done" /\ Report("ok")
  /\ UNCHANGED <<roots, smarthome, generated, material, up, asides, faults, served>>

-----------------------------------------------------------------------------
\* A reset, after the stop: part by part, and any of them may fail.

\* The new identity and Owner are complete before anything is removed.
PrepareReplacement ==
  /\ Step("replacement", "stop")
  /\ UNCHANGED <<roots, smarthome, generated, material, up, served>>

RemoveGenerated ==
  /\ Step("remove generated", IF op.cmd = "wipe" THEN "remove state" ELSE "done")
  /\ generated' = FALSE
  /\ UNCHANGED <<roots, smarthome, material, up, served>>

\* The state root goes with the journals and backups beside its services'.
Gone == [live |-> None, owner |-> "operator", journal |-> FALSE, staging |-> None, original |-> None]
RemoveState ==
  /\ Step("remove state", "remove bootstrap")
  /\ roots' = [r \in Root |-> IF r = "bootstrap" THEN roots[r] ELSE Gone]
  /\ smarthome' = [channel |-> 0, hub |-> 0]
  /\ served' = [r \in Root |-> IF r = "bootstrap" THEN served[r] ELSE 0]
  /\ UNCHANGED <<generated, material, up>>

RemoveBootstrap ==
  /\ Step("remove bootstrap", "commit identity")
  /\ Put("bootstrap", [roots["bootstrap"] EXCEPT !.live = None])
  /\ served' = [served EXCEPT !["bootstrap"] = 0]
  /\ UNCHANGED <<smarthome, generated, material, up>>

CommitIdentity ==
  /\ Step("commit identity", "done")
  /\ material' = material + 1
  /\ UNCHANGED <<roots, smarthome, generated, up, served>>

-----------------------------------------------------------------------------
\* Faults.

OperationFails ==
  \/ Raises({"stop", "stop for transfer"}, "stop_fails")
  \/ Raises({"replacement", "owner assets", "generate", "smart-home", "start"}, "step_fails")
  \/ Raises({"remove generated", "remove state", "remove bootstrap", "commit identity"},
            "remove_fails")

OperatorDies ==
  /\ op.pc \notin {"idle", "reported"} /\ Fault("operator_dies")
  /\ op' = Idle
  /\ UNCHANGED <<roots, smarthome, generated, material, up, asides, served>>

MachineReboots ==
  /\ up \/ op.pc \notin {"idle", "reported"}
  /\ Fault("machine_reboots")
  /\ op' = Idle /\ up' = FALSE
  /\ UNCHANGED <<roots, smarthome, generated, material, asides, served>>

-----------------------------------------------------------------------------
Proceed ==
  \/ BeginRoots \/ StopHost \/ RootsReady \/ MakeRoots \/ PlaceOwnerAssets \/ Generate
  \/ \E r \in Root : RestoreOriginal(r) \/ DiscardJournal(r) \/ CopyRoot(r) \/ MakeRoot(r)
  \/ SetAside \/ Publish \/ EndTransfer
  \/ TransferSmarthome \/ StartHost \/ CommitOwnerAuthority \/ Done
  \/ PrepareReplacement \/ RemoveGenerated \/ RemoveState \/ RemoveBootstrap \/ CommitIdentity

Fails == PublishFails \/ OperationFails \/ OperatorDies \/ MachineReboots

Next ==
  \/ \E cmd \in DOMAIN FirstStep : Command(cmd)
  \/ Proceed
  \/ Fails
  \/ HubEstablishes

-----------------------------------------------------------------------------
\* What a source run promises.

\* What a root was served at stays at its place, or is the original an
\* interrupted transfer's journal names, until a wiping reset removes it.
Kept(r) ==
  served[r] # 0 =>
    \/ roots[r].live # None /\ roots[r].live.epoch = served[r]
    \/ roots[r].live = None /\ roots[r].journal
       /\ roots[r].original # None /\ roots[r].original.epoch = served[r]

\* The services run on roots of the operator that belong to one Host.
ServesOne ==
  up => /\ \A r \in Root : roots[r].live # None /\ roots[r].owner = "operator"
        /\ roots["bootstrap"].live.epoch = material
        /\ Authority \in {0, material}
        /\ smarthome.channel # 0 => smarthome.hub = smarthome.channel

\* A wipe cut short leaves a delivery without its Authority: prepare refuses
\* it until the wipe is repeated.
HalfWiped == op.answer = "refused"
=============================================================================
