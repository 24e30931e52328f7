# Eidolon Ops in TLA+

Specifications of `eidolon_ops`, the operations tool that installs, updates,
backs up, restores and repairs an Eidolon Host: TLA+ modules translated from the
Python source, TLC configurations that model-check them on small instances, and
TLAPS proofs about the release cutover, the first install, the restore, the
console and the upkeep commands. Paths below are relative
to `src/eidolon_ops/` in the repository. `PROJECT.json` maps every definition to
the source lines it stands for, and lists the runs, mutants, findings, hazards
and theorems.

## 1. The system

A *workstation* runs the CLI or the local console. For an installed Host (a Pi)
it uploads artifacts over SSH and calls the *Host agent*, a root process started
per call (`hostagent/`, one handler per action). For a source Host the same
operations run in the operator's own process. The programs called from there
are external: the sealed release activator, `prepare_target.py`, systemd,
supervisord, eidolond, the Kernel, Hub, the memory service, apt, pip, SQLite and
SSH.

Nothing is shared between a workstation and a Host but the Host's files, its
units, a few lock files and the answers of calls. A call can time out or lose
its answer while the handler goes on; the workstation can die between two calls;
two workstations can drive one Host; a board with another identity can answer at
the address. This is where the hard behaviours come from.

| Component (source) | State | Operations | Interacts with | What makes it correct |
|---|---|---|---|---|
| Release transaction (`release_transaction.py`) | locals of one `deploy`: receipt, snapshot of the links, barrier, gates | deploy, install, rollback | every Host handler; the activator | a reported outcome is what the Host is; no way back behind the barrier; it ends |
| Bundle preparation (`release_bundle.py`) | sealed bundle, remote upload, prepared release | prepare, resume, own abort | reclamation, staging, target build | a candidate is prepared whole or aborted |
| Release collector (`hostagent/reclamation.py`) | release directories, staging, candidate marker in `/run`, two locks | prepare, retain, commit, abort | links, live processes | no release a link or a process uses is removed |
| Upload staging, artifacts, models (`hostagent/staging.py`, `component_artifacts.py`) | `/var/tmp/eidolon-bundle-*`, the object store, models at their install roots | guard, finalize, publish, retire | collector, deploys | what serves has its models; a digest names whole bytes |
| Host layer (`host_layer.py`, `hostagent/host_application.py`) | private stage, Host files, ingress | refresh, converge | cutover document | files and code are one cutover |
| Cutover document (`hostagent/cutover.py`) | `cutover.json` per transaction, saved files | snapshot, restore, finalize | links, Host files | one restore, and never over a crossed barrier |
| Running releases (`hostagent/runtime_release.py`) | what each process executes from | observe, converge | systemd | a gate judges the candidate |
| First install (`hostagent/install.py`) | journal with phase and digests, install lock | install, resume | stage, deployment package, systemd | a resume neither skips nor undoes; one owner of the namespace |
| Install decision (`install_decision.py`, `host_delivery.py`, `identity_replacement.py`) | delivery record, identity anchor, retained profiles | decide, confirm, record, replace the identity | Hub's evidence, the boards | one identity is on one board |
| Owner Authority (`hostagent/authority_restore.py`, `authority_state.py`) | Hub database, lineage anchor, private stage | backup, plan, restore, take back the upload | install lock, Hub | database and anchor are one generation |
| Owner directory (`owner_domain_assets.py`) | seven private files; the signed directory | issue, adopt, reissue, deliver | Hub, devices | a revision of a generation is one document |
| State backup and restore (`hostagent/authorities.py`, `memory_realms.py`) | database files and sidecars, package, memory spaces | backup, plan, restore | reset's stop, lifecycle start, memory service | all databases or none, behind a stopped product |
| Kernel schema set-aside (`hostagent/kernel_schema.py`) | Kernel database and log, databases beside it | observe, set aside | lifecycle, deploys, the Kernel | nothing selected is lost unasked |
| Host reset (`hostagent/reset.py`) | roots, units, marker, staging | reset | install lock, systemd | nothing product-owned runs or stays |
| Credentials (`install_inputs.py`, `hostagent/secret_inputs.py`) | credential files on both sides | verify, converge, repair | the operator's own edits, deploys | the files of a class agree; what an operator changed stays |
| Source run (`source_state.py`, `adapters/supervisord.py`, `local_product.py`) | service roots, transfer journal, smart-home database, generated files | start, stop, prepare, reset, set aside | Hub, supervisord | original or copy, never neither; one Host's roots |
| Foundation and bring-up (`bring_up.py`, `hostagent/foundation_install.py`) | accounts, packages, pinned tools, journald drop-in, evidence | bring-up, provision | apt, pip, curl, journald | evidence is of what is in force |
| Selection (`component_contract.py`, `config.py`) | none between calls | narrow, select, check, plan a wipe | every deploy | the selected units can start |
| Console run store (`console/runs.py`) | runs, Host claims, events, watchers | start, report, finish, stream, prune | one thread per run, browsers | one mutating run per Host; gapless streams |
| Console requests (`console/api.py`, `catalog.py`, `host_controller.py`) | a request between its plan and its work | plan, confirm, run | run store, profile, every operation | nothing changes unconfirmed |

The rest keeps no state between calls that the properties could tell apart;
section 6 and `components` in `PROJECT.json` give the reason for each.

The hazards, each at the line where it bites, are listed under `hazards`. In
short: a sweep against builds, switches and processes still on an old release;
answers lost while the Host goes on; a barrier behind which only part of the
transaction may be undone; a kill or a reboot between the work of a phase and
its record; two renames that belong together; a retry of what was half done;
two commands that overlap without a lock; a plan that is stale when it is
carried out; a subscription taken while events are published.

## 2. Modules

The modules fall into four groups, with no state in common between the groups:
what the groups share in the code (the install lock, the Host's units) is in
each of them as far as it decides something there.

### ReleaseHost and ReleaseTransaction

`ReleaseHost` declares the Host's release state and has one operator per
handler; `ReleaseTransaction` extends it with the workstations, and each of its
actions is one handler together with what the driver does with the answer. An
action whose answer may be lost has run all the same, and sends the driver down
its failure path: a failure path thus finds the Host further along than the
driver believes.

| State | In the code |
|---|---|
| `disk`, `upload`, `secrets` | `/opt/eidolon/releases/*`, `/var/tmp/eidolon-bundle-*`, private stages |
| `marker`, `building` | the candidate marker in `/run` and the prepare lock the build holds |
| `links`, `running` | `/opt/eidolon/current/*`; the release each process executes from |
| `act`, `crossed` | an activator process with its answer; the release whose start migrated state |
| `config`, `ingress`, `receipts` | Host files by the release they were rendered for; what the ingress loaded; cutover documents |
| `op` | the locals of each workstation's `deploy` |

The driver's actions follow the code: `Begin`, `Prepare`, `ClaimUpload`,
`CloseUpload`, `StartBuild`, `Built` (`bundles.prepare`), `DryRun`, `Retain`,
`Preconditions`, `Snapshot`, `Stage`, `Refresh`, `Activate`, `Activated`,
`Gate`, `Doctor`, then `Finalize` and `Commit`, or `Rollback`, `RestoreHost`,
`Restore` and `Abort`. `Abandon` is the controller's command, and the explicit
rollback an operation of its own. The activator switches one link per step,
starts the units, waits for readiness, restores or asks for a forward fix; it
holds the release lock all the while.

### TargetInstall, StateReplacement and StateRestore

`TargetInstall` is the Host agent's install with its journal, the phases in
`contract.PHASES`, the install lock, the digests that are taken before the lock,
and what the workstation does around it (stage, call, clean up whatever
happened). Every command is a step, so a failure, a kill or a reboot falls
between any two.

`StateReplacement` is the promise of a restore: the authorities of a Host are at
one version, units come and go, and the version is replaced only while none is
served. `StateRestore` is the code: upload, plan, the two stop phases (manager,
then workers), the second plan, and per authority a copy beside the destination,
the main file and the sidecars moved aside one rename each, and the rename into
place; the `except` block with its undo list; the `finally` block that starts
the product; then one memory space after the other, with the package lent to
the memory account and taken back. `Opened` says what SQLite makes of the files
it finds. `ReplacedAsOne` states that the second implements the first: `content`
is the version found before the restore until the last database is in place, and
`serving` what each running unit opened.

### HostAuthority

One profile on the workstation (inputs, identity anchor, Owner root, delivery
record), the boards that may answer at its address (marker, anchor, ticket,
journal, identity, directory), and the commands `init-inputs`, `install`,
`converge`, `trust-host-delivery`, `authority-backup`, `authority-restore` and a
wiping `reset`. `Decision` is `install_decision.py`: it names the situation, and
the command acts on it. The Host agent it starts holds the install lock of the
board and goes on when its answer is lost. Hub is external: it establishes an
Authority from a pending ticket in two writes. `handed`, `recorded` and `proved`
are history: which identity was staged on which board, recorded there, and seen
there with an Authority established.

### RunStore, EventFeed, HostOperations and ConsoleRequests

`RunStore` has one action for everything the code does inside one
`with self._lock`, and actions of their own for what it does outside: starting
the thread, building the report, yielding the backlog.

| State | In the code |
|---|---|
| `run`, `order` | the `Run` objects with phases and events; `_order`, what the store still knows, as a set: runs are numbered as they start |
| `busy`, `watchers`, `sequence` | `_busy`, `_watchers`, `_sequence` |
| `thread`, `journal` | where `_execute` stands; `progress.Journal` of the run |
| `stream` | the generator of each browser: backlog, channel, what it has yielded |

`EventFeed` is what a browser is promised: a log per run that only grows, ends
with one closing event, and is read from its beginning by any number of readers
who see each event once and in order. `FeedKept` states that `RunStore`
implements it; `log` is the events of a run, `seen` what a stream has yielded,
and a stream counts as reading from its subscription on.

`HostOperations` writes down three things the code writes independently: the
catalog (`console/catalog.py`), the plan of each operation (`plans.py`), and the
effect of its handler (`host_controller.py` and what it calls), for every
combination of switches. `ConsoleRequests` composes it with `RunStore` (by
`INSTANCE`): a request is refused or confirmed against its plan, and its thread
loads the profile again before it works.

### HostUpkeep and its eight machines

Eight modules of what is put right by being run again, given anew by every
deploy, or decides how a Host is reached. They share no state; `HostUpkeep` puts them beside one another by
`INSTANCE`, with `x1` ... `x14` as the places for their variables, so that one
specification states the fairness and the promises of all.

| Machine | State and actions |
|---|---|
| `SourceRun` | each service root with its directory, owner, transfer journal and the original it names; start, stop, prepare, reset and set-aside step by step, with the transfer of the smart-home database |
| `KernelSchema` | database, log and databases aside; the warrant asked twice, the quiesce, the two renames, the start; beside stop, start, deploy, reinstall and restart of the same Host |
| `HostCredentials` | slots `<<class, file>>` on both sides; convergence, which only adds, and repair, which replaces a divided class; staging directories, edits by hand |
| `HostFoundation` | the bring-up script and its account, the declaration of operators, and each part of the foundation with download, unpack, links, services and drop-in; the evidence |
| `ArtifactStore` | the object store, the upload claimed for a list, models with their stages; carried, published, verified and retired by deploys |
| `OwnerDirectory` | Owner root, signer, leaf and directory of two workstations, the Host's Hub, one backup; issue, adopt, reissue, deliver, restore |
| `HostSelection` | documents as the initial state; narrowing, selection, the walk for cycles, the plan of a wipe |
| `HostLink` | the known_hosts file, interfaces, addresses and who answers at each, what the resolver has; trust-host-key step by step, the session of a release with the link it settles on, its wire gate and the calls of the upload |

## 3. Runs

`MC*.tla` declare the model values; each `.cfg` is one question.

| Run | Question | Result |
|---|---|---|
| `deploy_two_drivers` | Two workstations, candidates abandoned under a live driver, units restarting, reboots: are the releases in use ever damaged? | holds |
| `deploy_all_faults` | One workstation, every fault but reboots and early abandons: is what a deploy reports what the Host is, and does it end? | holds |
| `deploy_host_faults` | Answers arrive and restores work: does the release on record outlive failed candidates, do code and configuration end together? | holds |
| `install_two_drivers` | Two workstations install over each other; any two faults. | holds |
| `install_resumes` | Does an operator who keeps resuming get the Host installed? | holds |
| `restore_all_faults` | Is a failed replacement undone exactly, and a reported success whole, even after earlier kills and Ctrl-C? | holds |
| `restore_replaces` | Does the restore implement `StateReplacement` under the faults the handler answers, and does the product come back? | holds |
| `console_runs` | Three runs, one remembered, a browser that comes and goes, lost threads and reports: claims, settled phases, what is forgotten, the log a browser sees, and an end to both. | holds |
| `console_requests` | Every operation with every combination of switches, two requests, one edit of the profile: does only what was confirmed change a Host? | holds |
| `host_authority` | Five commands on two boards with two faults: is every record of a board earned, one identity on one board, database and anchor one generation, the upload taken back? | holds |
| `install_never_resumes` | An interrupted first install, repeated with the same profile: does it present the inputs its journal records? | `ResumeKeepsInputs` violated |
| `host_upkeep` | Each of the eight machines, cut short at any step beside the other commands of its Host and the changes around it: is nothing lost on the way, and does the command run again put the Host right? | holds |

**Bounds.** *Releases*: two components and one or two Host files are enough for
a graph that is half switched or half restored; three releases for a previous
release, a candidate and one that a later candidate sweeps; `MaxDeploys = 2` for
a second candidate over the leftovers of the first, or two at once. Releases are
not symmetric (one is installed, one forward-only), components and files are.
*Install*: two inputs and two components make every phase interruptible in the
middle, two versions of the inputs distinguish a resume with other files,
`MaxFaults = 2` allows a failure on the way out of another. *Restore*: two
authorities make a half-replaced Host, two packages with and without memory
spaces cover both endings, and the second of two restores (`MaxCalls = 2`)
starts from what a failed one left. *Console*: three runs with `Retain = 1` let
a finished run be forgotten under a running one and under a browser;
`MaxEvents = 3` announcements come on top of the closing events; one Host
suffices for claims, since runs of two Hosts only meet in the store's retention,
and the theorems of section 5 hold for any number. *Requests*: two
runs are the first that can meet on a Host, one edit is the first that can fall
between a plan and its work. *Authority*: two boards to be mistaken for one
another, three identities, Owners and states for an original, its replacement
and the replacement of that; five commands for install, backup, reset, install
and restore. *Upkeep*: two operators; two service roots of which one holds the
identity; two schemas, one of which cannot count its selections; four classes
with a file in common; three artifacts of which one is the wheel; two releases
with an object in common; two generations, eras, endpoints and contracts for the
directory; three units that may depend on one another; a cable, a Wi-Fi both are
on and a VPN, a link-local address every interface claims, two Hosts in one
known_hosts file. `MaxFaults` is 1 or 2
per machine: the second fault falls into the repetition that heals the first.

`CHECK_DEADLOCK FALSE` is set where the system really may stop: the commands of
the `restore_*`, `host_authority`, `install_never_resumes`, `console_*` and
`host_upkeep` runs are bounded in number, and when all are over nothing is left
to do.

**Fairness.** A deploy: weak fairness of the driver, the activator and the end of
the build, because every remote call, the readiness gate and the build carry a
timeout. An install: weak fairness of a call's next step and of systemd bringing
started units up; strong fairness of an attempt, which is not a property of the
code but the operator of `ResumeCompletes`, who keeps resuming. A restore: weak
fairness of the handler (every command has a timeout) and of systemd and
eidolond starting units that are down. The console (`FairSpec`): weak fairness
of each run's thread, since every operation ends, and of each generator whose
browser stays; none of new requests, phases or browsers. Upkeep: weak fairness
of a command that runs (`Runs`) and of the programs it waits for (`Answers`,
`Opens`); of the start of a Host that is down (`Starts`); strong fairness of the
command that heals (`Repeats`, `Repairs`), the operator who runs it again. It is
strong because another command of the same Host may be in the way again and
again. No fairness of any fault, edit or other command is assumed.

**Deploys are in three modules.** `ReleaseTransaction` is the transaction;
`ArtifactStore` and `OwnerDirectory` each have it as far as it decides what is
carried or delivered, with the marker, the links and the gate one step each.

## 4. What the passing runs leave out

The configurations of the passing runs name the faults they allow; those below
are left out because the property fails with them. Each can be reproduced by
adding the fault to the configuration named.

*Release cutover.*

- `host_reboots` in `deploy_all_faults`: the marker lives in `/run`, and a
  reboot in the middle of a gate lets another candidate sweep the release the
  gate would go back to (`RollbackTargetKept`). The links and processes stay
  intact all the same; that is `deploy_two_drivers`, and proved.
- `Faults = {"receipt_refused"}`, `ForwardOnly = {}` in `deploy_host_faults`:
  the receipt of a passed reversible gate is written before the flag that says
  the gate passed (`release_transaction.py:391`); when it cannot be written the
  Host files are restored and the links stay (`OneCutover`).
- Two operators of whom one has the bundle (`Sealer = {o1}`): without a local
  bundle the sealed mode is compared only after the start
  (`release_transaction.py:351`), and a forward-only release is activated as
  reversible (`BarrierKeepsConfig`).
- `Faults = {"answer_lost"}` with a forward-only release: the answer of the
  activation is lost while it runs, and a restore proves without the release
  lock that nothing was switched (`hostagent/cutover.py:189`,
  `BarrierKeepsConfig`).
- `rolls_back` in `deploy_host_faults`: the explicit rollback puts the links
  back and leaves the Host files to the release rolled back (`OneCutover`).
- Two deploys of one release share its marker, two workstations share
  `/var/tmp/eidolon-artifact-<digest>` (`release_bundle.py:401`), and a redeploy
  of the active release whose gate fails leaves its marker on record.

*Install, restore.*

- `begin_dies` in `install_resumes`: a kill between creating the evidence
  directory and the journal leaves a namespace the next attempt refuses as
  unowned (`install.py:219`).
- `Faults = {"agent_dies", "host_reboots"}` in `install_resumes`: an install on
  record as `started` never starts the release again (`install.py:128`,
  `ResumeCompletes`).
- `restaged`: a second workstation replaces the stage while an agent copies from
  it. The digests are taken before the lock, and `InstalledAsRecorded` fails.
- `interrupt` and `agent_dies` in `restore_replaces`: Ctrl-C on a source Host is
  no `Exception`, so the undo is skipped and the start is not; a killed agent
  leaves no undo list. Either way units find half of two versions. A kill while
  the package is lent also makes the next staging refuse it.
- `Faults = {"stop_fails"}`: a restore does not look whether its stop worked
  (`reset.py:253`, `QuiescedWhileReplaced`).
- Two callers in `StateRestore`: nothing locks a restore, and the workstation's
  timeout of 900 s equals what one memory space may take, so a retry can meet
  the first agent (`QuiescedWhileReplaced`, `RestoredIsWhole`).

*Console.*

- `leaves_replaying` in `console_runs`: a generator closed while it yields its
  backlog has not reached the `finally` that undoes its subscription
  (`runs.py:255`), which keeps a channel filling until the run is pruned
  (`FeedKept`; it is the assumption of the theorem `FeedImplemented`).
- `StreamsEnd` excepts the runs that lost their thread: a process out of threads
  after the claim (`runs.py:232`) and a report that cannot be built
  (`runs.py:291`) leave the run running and its Host claimed; nothing notices.
- `ChangesAreConfirmed` excepts `Unasked` and `DeclaredBack`: a deploy without
  `activate` prepares a candidate on the Host although `model.py:28` says of
  such a result that a plan was produced and nothing was changed
  (`host_controller.py:452`); `debug` starts a web server unasked; a deploy with
  `forward-only` is declared reversible.

*Upkeep.*

- `SourceRun`: `prepares_unhealed` and `wipes_unhealed`, a prepare or a wipe
  between an interrupted transfer and its recovery, lose the original
  (`SourceStateKept`). No lock keeps two source operators apart.
- `KernelSchema`: `dies_between_renames` leaves the old log beside a new
  database; `starts_meanwhile` and `deploys_meanwhile` are a start or a deploy
  between the second warrant and the rename, which no common lock prevents
  (`kernel_schema.py:312`, `lifecycle.py:301`; `SetAsideWarranted`).
- `HostCredentials`: `repairs_meanwhile` and `edits_meanwhile`, a change between
  the read and the write of a repair, are lost updates
  (`secret_inputs.py:502-523`; `RotationKept`). Even without them: an operator
  rotates a shared credential in every file of the Host; the product grows a
  place for it; a convergence, also the one inside a deploy, adds the
  workstation's old value in that place, which divides a class that worked; a
  repair then takes the rotation back. `RotationKept` therefore permits a repair
  of a divided class, and the docstring of the repair
  (`secret_inputs.py:399-411`) says more than that.
- `HostFoundation`: `journald_not_told`, a kill between the drop-in and the
  restart of journald: the rerun returns early, and the log stays volatile until
  a reboot (`foundation_install.py:297-301`; `FoundationBacked`).
  `package_manager_dies`: an interrupted dpkg is never repaired, and a half
  killed pip leaves a `uv` that is refused for ever (`UpkeepEnds`).
- `ArtifactStore`: `asks_meanwhile` and `stalls`, a deploy that asks what is
  missing while a retirement of another removes it (`ModelsKept`). What a killed
  guard, finalize or retirement leaves is refused by every later deploy
  (`Refused`), although `docs/runbook.md:80` calls the upload resumable.
- `HostLink`: `trusts_meanwhile`. Nothing keeps two `trust-host-key` apart: the
  file is read for the decision (`controller.py:868`), again for the lines of
  the name and again for the rest (`host_keys.py:186-208`), and then replaced,
  so one command takes back a key the operator named to the other
  (`TrustNamed`).
- `OwnerDirectory`: `stale_restore`, `fails_elsewhere` and `meanwhile`, material
  of an older copy, a gate of another workstation, or a command between
  observation and delivery, give one revision two documents
  (`DirectoryLineKept`). So does a longer way, which the one fault of the run
  cuts off and which TLC finds along a prescribed order of commands and faults:
  a workstation backs up a directory it issued and did not deliver; a newer Ops,
  of a grown contract, cannot read it and adopts the served one over it; what it
  issues next is taken back by a failed gate, the material is lost and restored
  from that backup, adoption walks it back again (`owner_domain_assets.py:650-662`)
  and the revision is issued a second time. A Host that serves a directory of an
  older contract makes every deploy refuse (`owner_domain_assets.py:637`), which
  the comment at 550-554 sets out to avoid for the workstation's own copy.

## 5. Proofs

Eight modules, some 18 800 obligations, no assumption but those named.

**`ReleaseTransactionProofs`**: for every set of releases, components, Host
files and workstations, every choice of faults and every `MaxDeploys`, under
`ReleaseAssumption` and `TransactionAssumption` (which only type the constants):

- `Inductive`: `Spec => []IInv`;
- `TypeCorrect`: `Spec => []TypeOK`;
- `ServedReleasesIntact`: `Spec => []LinkedAndRunningIntact`.

`LinkedAndRunningIntact` is not inductive: an activator in flight will link its
candidate, or put back its snapshot, whatever a sweep did in between; a build
turns a directory into a sealed one. `IInv` therefore adds

- `InFlightIntact`: candidate and snapshot of an activator in flight are whole,
  which holds because a sweep needs the release lock the activator holds, and
  starting it needs a prepared release that is not torn;
- `BuildUnsealed`: what the builder works on is not sealed, because the sweep
  needs the prepare lock, and a sealed release is never built again;
- `LocalsReady`: the driver uses a receipt, an activation or an answer only in
  phases that come after it got one.

The proof has a lemma per Host handler about the Host half of the invariant
(`SweepSafe`, `LayerSafe`, ..., `ActivatorSafe`, `RebootSafe`), lemmas about the
driver's record (`GotoStep`, `EndStep`, `FailStep`), and one lemma per group of
driver actions that combines them; `StepInv` is the case split over `Next`.
TLC finds no violation of `IInv` on `deploy_two_drivers` either.

Its second half proves every safety and action property of the release
cutover, from three inductive invariants on top of `IInv`. First, for any number
of workstations, under `Unforced` (no `early_abandon`, `host_reboots` or
`rolls_back`) and for the behaviours in which no two workstations drive one
release at a time (`[]Apart`); section 4 says why the code needs both:

- `RollbackTargetIsKept`: `Spec /\ []Apart => []RollbackTargetKept`;
- `BarrierIsKept`: `Spec /\ []Apart => []BarrierKeepsLinks`;
- `GateJudgesCandidate`: `Spec /\ []Apart => JudgedOnCandidate`;
- `ActivatedMeansWhole`: `Spec /\ []Apart => ActivatedIsWhole`.

`CutoverInv` is why they hold. `Marked` says that the marker is the candidate's
from the end of the prepare sweep to the commit, so that every phase of the
collector refuses everybody else (`MarkerGuards`), and two deploys are never
past that sweep at once (`OneDriver`); `OneActivator`, that the release lock is
held by the driver's own activator or by none while a deploy is under way;
`InFlight`, what an activator that has started its units left behind; `Course`,
what a deploy knows of links, processes, files and receipt by the phase it is in.
A step is then the only driver's (`DriverStep`, one lemma per group of phases),
a refused one beside it (`Bystander`), the Host's or an abandon.

Then, for one workstation (`Lone`: what a deploy found is compared with the Host
as it is, which another workstation may change later) and every fault but
`rolls_back`:

- `FailedDeployIsUndone`: `Spec => []FailedIsUndone`.

`UndoInv` says of each phase what of links and files may differ from what the
deploy found, and where it knows the old value from: the activator's snapshot,
the link snapshot of the gate, the cutover document. That the marker is gone
after a reboot does not matter here; that an abort is refused while any link
names the candidate does (`UndoAborts`).

Last, under `Steady`, which is the instance of `deploy_host_faults` for any
number of releases, components and Host files: one workstation with every
bundle, at least one component, and no fault but `unit_reexec` and `sweep_torn`:

- `RecordIsKept`: `Spec => []OnRecordKept`;
- `HalvesAreOne`: `Spec => []OneCutover`;
- `BarrierKeepsFiles`: `Spec => []BarrierKeepsConfig`.

`RecordInv` names the release of the last cutover on record (`OnRecordIs`, which
resolves the `CHOOSE` of `OnRecord`), says in which phases the Host stands on it
(`Standing`), what the document of the deploy under way holds (`Documented`) and
that no gate is called passed before it is. The sweep keeps it because in all
phases in which a sweep is accepted it is the one release the links name
(`SweepKeepsBase`). With any other fault at least one of the three fails: an
answer, a driver, an activator, the receipt or a restore that is lost leaves the
two halves apart (section 4). TLC checked the three invariants on the instances
of the deploy runs first.

**`TargetInstallProofs`**: for any number of workstations, releases, inputs and
components, any number of faults and every set of them, under `InstallAssumption`:

- `InstallInvariant`: `Spec => []IInv`;
- `JournalIsNeverAhead`: `Spec => []JournalNeverAhead`;
- `HalfIsNeverServed`: `Spec => []NeverServesHalf`;
- `FailedInstallStops`: `Spec => FailureStopsProduct`;
- `OneInstallOnly`: `Spec => []InstalledAsRecorded`, if `"restaged" \notin Faults`.

A journal may be ahead of the Host in three ways: two agents write it, an agent
records a phase it has not done, or work on record is undone. `OneHolder` (the
lock) and `OneOwner` (the clean namespace) exclude the first. `OnRecord` says
that the phase an agent carries is the one in its journal, `WorkDone` what of the
next phase is done where the agent stands, `Copied` and `EmptyAtBegin` what it
found out and will not look at again; no step undoes what `AsFar` lists. A reboot
starts enabled units at any moment: hence `EnabledIsWhole` and `RunsEnabled`
instead of `NeverServesHalf` alone. `Quiesced` is where the failure path stands
between its stop and its record. `InstalledAsRecorded` needs two more parts:
`StageKept`, that the stage is the one whose digests the agent took, which is
what a second staging breaks, and `Accounted`. The lemmas `MoveKeeps`,
`BuildKeeps` and `RecordingKeeps` cover the three kinds of step (the agent moves,
adds something to the Host, or writes its journal), and each action is an
instance of one.

**`StateRestoreProofs`**: for any number of databases, memory spaces and packages
and any number of restores and faults, under `RestoreAssumption` and two
assumptions each theorem names (`Assumed`): one caller, because no lock in the
code keeps two restores apart, and no `stop_fails`, because the code does not
look at what its stop returns. Section 4 says what happens without them.

- `RestoreInvariant`: `Spec => []IInv`;
- `ProductIsQuiesced`: `Spec => []QuiescedWhileReplaced`;
- `UndoRestoresAll`: `Spec => UndoIsExact`;
- `SuccessIsWhole`: `Spec => RestoredIsWhole`;
- `PackageComesBack`: `Spec => []PackageReturned`, if no agent is killed (the
  theorem says it for every restore; no run repeats it).

`StopOrder` is why nothing comes up again behind a stopped worker: the manager,
which starts units, is down before the second phase begins, and what is still up
is what that phase has yet to stop; with the last one, `ProductDown`. `Undoable`
is the heart of the undo: for each of the files of each database, either its
version is kept in the undo list, or the restore created it, or it still is what
`before` says. `Reached` keeps `Undoable` going (no file is moved aside twice, a
file is published only where nothing is left) and ends in `PackagesEverywhere`;
`SpacesBack` does the same for the memory spaces. `Lent` says at which step which
part of the package belongs to the memory account.

The last section has `RestoreImplements`, that `StateRestore` implements
`StateReplacement` (`Spec => ReplacedAsOne`), under `Assumed`, for at least one
caller, and without `interrupt` and `agent_dies`, the two faults no `except`
block answers. It adds to `IInv` one part, `Aligned`: what the Host counts as is
at one version, be it the files (then every running unit has read that version)
or, while files move, what the undo list leads back to. `HostIs` and
`FoundVersion` resolve the two `CHOOSE` of the refinement mapping. A step is then
of one of four kinds: it touches no file (`QuietStep`), moves files of a Host that
still counts as what it was (`FoundStep`), leads into the undo (`RaiseStep`), or
makes the Host another version behind a stopped product (`ReplaceStep`); units
that come and go are `Serve` and `Leave`.

**`RunStoreProofs`**: for any number of Hosts, runs, phases and browsers, any
retention of at least one run and every fault, under `StoreAssumption`:

- `StoreInvariant`: `Spec => []Inv`, `Inv` being `StoreTyped` (the type
  invariant), `Claims` and `Evidence`;
- `HostsAreClaimed`: `Spec => []OneActionPerHost`;
- `FinishedRunsSettled`: `Spec => []FinishedIsSettled`;
- `MemoryIsKept`: `Spec => MemoryKept`.

`OneActionPerHost` needs that a thread that may still finish is of a run that
runs (else it would free another's Host), and that a running run is known (the
part a prune could break: what it takes had ended). `MemoryKept` is about how
much it takes, `ForgottenOldest` for any set of runs: the loop of `_prune` stands in
the model as a condition on each run (`Forgotten`: more than `Retain` are left once
all that ended before it are gone), and the lemma shows that those conditions
together forget the oldest, enough of them, and not one too many. `FinishedIsSettled` speaks of finished runs only; `Evidence` says
what holds before that: every recorded phase is shown done, at most one phase
runs, none has failed.

Its second section has `FeedImplemented`, that `RunStore` implements `EventFeed`
whenever `"leaves_replaying" \notin Faults`, from the inductive invariant
`FeedInv`, which adds to `Inv`

- `LogsKept`: a run's log begins with the run and ends, with the closing event,
  when the run does;
- `Feeding`: what a stream has yielded, its backlog and its channel are the log
  of its run end to end (`Joined`); a stream fed from its backlog alone is of an
  ended run; one that is fed live and whose run has not ended is subscribed, so
  that the next event will be in its channel; and only a stream that replays or
  follows is subscribed.

The last part is what the excluded fault breaks. Steps fall into announcements
(`Announces`: start, phases, end of a run), which are `Say` of `EventFeed`, and
steps of one browser (`Alone`), which are `Attach`, `Read`, `Leave` or a
stutter; `FeedStep` is the case split. `ReaderIsShown` removes the `CASE` of the
refinement mapping: under `FeedInv` a reader is a function of the stream alone.

**`HostAuthorityProofs`**: for any number of boards, identities, Owners,
commands and faults of every kind, under `AuthorityAssumption` (what is absent is
no number and none of the records):

- `AuthorityHolds`: `Spec => []AuthorityInv`, the type invariant `Typed` included;
- `RecordIsProved`: `Spec => []RecordedWasEstablished`;
- `ReportIsTrue`: `Spec => []EvidenceIsOfAWhole`;
- `UploadIsTakenBack`: `Spec => []UploadTakenBack`;
- `IdentityStays`: `Spec => RecordedIdentityStays`.

`Records` speaks of the profile: an identity that was ever recorded and is still
in use in it has its record beside it (`RecordKept`), inputs and anchor agree when
both are there (`OneIdentity`), and a record is of what was proved. Between the
seven renames of a replacement that has to hold after each, for what the undo
would put back (`op.before`), and for identities not minted yet; `Replacing` says
by the number of renames done which of inputs and anchor is gone, which is why
retiring inputs and anchor before the record, and giving the anchor last, is the
order that works. `Decided` carries what a situation was told from (profile
without a record or with the one of this board, an Authority to go by) past the
observation to the staging and to the answer. `Answering` relates a command to
its agent: who waits does so for one of his own with the inputs staged, and
success that was told of a board stays true of it because no agent is left there
and a Hub that finds an Authority keeps it. `Working` is the board's side: what
is established is in the history, a completed journal is of the identity there,
and an agent past its first step works on the journal it wrote. `SituationIs`,
`HubLeaves` and `ProfileGets` are the lemmas on what the decision, the Hub and
the new identities do; then there is one lemma per action.

**`ConsoleRequestsProofs`**: for any number of Hosts, requests and edits, any
retention, every operation and every set of switches:

- `RequestsAreAdmitted`: `Spec => []ConsoleInv`;
- `HostsChangeAsConfirmed`: `Spec => []ChangesAreConfirmed`;
- `RequestsImplementRuns`: `Spec => Store!Spec`, so that what `RunStore` promises
  of claims and finished runs holds of the console's requests.

Half of it is about the catalog alone: `EffectsAreWarranted` says that what a
handler does on a Host of *any* kind is covered by the confirmation its plan
asks for, from one lemma per group of operations. That is why the profile may
change between the request and the work. `ConsoleInv` is the other half: the
request of a live run is the one that was confirmed (`Admitted`), nobody else's
end or start touches it, and what a handler has done is warranted by it.

**`HostUpkeepProofs`** and **`HostContentsProofs`**: the eight machines of
`HostUpkeep`, each under the assumption that types its constants
(`UpkeepAssumption`, `SourceAssumption`, `CredentialAssumption`,
`FoundationAssumption`, `LinkAssumption`, `SelectionAssumption`,
`ArtifactAssumption`, `OwnerAssumption`), for any number of faults. The sets of
faults are restricted only where the code itself does not keep the promise
(section 4):

- `SetAsideIsWarranted`: `Spec => SetAsideWarranted`, under `KernelGranted` (no
  start or deploy between quiesce and rename, no death between the renames);
- `RotationIsKept`: `Spec => RotationKept`, under `CredentialsGranted` (no edit and
  no repair beside a command that writes);
- `FoundationIsBacked`: `Spec => []FoundationBacked`, if
  `"journald_not_told" \notin Faults`;
- `SourceKeepsState`: `Spec => []SourceStateKept`, under `SourceGranted` (no prepare
  and no wipe past the journal of an interrupted transfer);
- `TrustChangesAsNamed`: `Spec => TrustNamed`, if `"trusts_meanwhile" \notin Faults`;
- `UploadGoesAsReported`: `Spec => []UploadKeepsLink`, whatever the faults;
- `SelectionIsStartable`: `Spec => []SelectionStarts`, for any documents, units and
  dependencies;
- `ServedKeepsModels`: `Spec => ModelsKept`, for any releases, models and
  selections, under `ArtifactGranted` (no deploy asks what a Host holds while a
  retirement hashes, none ends while one is under way) and `TwoDrivers`: with
  more workstations a third one may establish again, while a retirement goes on,
  what a deploy that lost its record had prepared, and the invariant below does
  not cover that;
- `DirectoryIsOneLine`: `Spec => DirectoryLineKept`, for any keepers, endpoints
  and numbers of issues, renewals and contracts, under `OwnerGranted`: none of
  `meanwhile`, `stale_restore` and `fails_elsewhere`, and, if the contract can
  grow, not both a lost material and a failed gate (one of them left out of
  `Faults`, or one fault in all, as in the run).

A run has one machine at a time, so each invariant is an implication from
`machine`; `OneMachine` reduces `Next` to the machine's own. What each adds:

- *Set-aside* (`KernelInv`). `OneInside` is the lock; `StaysWarranted`, that what
  was warranted after the lock still is while units go down, and `Quiesced`, that
  from then on neither reconciler nor Kernel is up, so that nobody can select
  anything between the second look and the rename. `OpenedOwn` (a running Kernel
  has opened a database of its own schema) and `LogBeside` are what the renames
  rest on.
- *Rotation* (`CredentialsInv`). `Pends` is what a writing command holds: for every
  slot, the value read or a correction of a class that was divided when it was
  read; `Alone` and `OneMind` say that nobody else writes meanwhile. `Proved` is
  what the check of the workstation's inputs leaves known about them.
- *Foundation* (`BoardInv`). `Reached` lists, by the step of the installation,
  which artifacts are unpacked and which executables linked; `JournaldTold`, that
  a drop-in is in force except between its write and the restart.
- *Source run* (`SourceInv`). `Transfer` says at which of the two renames which
  root may be without a directory, and what its journal then names;
  `Fresh`, `Identified` and `WipedInOrder`, which epoch the roots, the generated
  files and the anchor are of at each step of prepare, start and wipe;
  `RootsAreReady`, that no start is past its preparation with a root missing.
- *Link* (`LinkInv`). `Session` relates the address and interface a transport has
  settled on to what its gate reported; `Decided`, the lines a `trust-host-key` has
  read to the file it is about to replace, which needs `OneTrusting`.
- *Selection* (`SelectionInv`). `OnPath`: the walk's path repeats no unit, holds
  nothing settled, and each unit on it is needed by the one before it. `Settles`:
  what is settled needs only settled units and is `Grounded`, every set of it has
  a unit that waits for nothing in the set. An arc back to the path closes a
  circle, which no order of starting opens (`CircleCannotStart`), so that a
  refusal is due as well as an acceptance.
- *Artifacts* (`ArtifactInv`). `PreparedWhole`: the models of every release that
  may be activated without a question are whole, not only those of the two that
  are served, because a deploy of a prepared release asks for nothing.
  `FoundStays`: what a deploy on record was told is held stays whole until it has
  built. While one deploy retires (`OneRetires`), `PreparedMeanwhile` and
  `Meanwhile` say that nothing is prepared but what it committed and what is on
  record, and `TakenIsUnselected` that the model it is at is of neither.

- *Owner's directories* (`OwnerInv`). `OneLine`: every directory anywhere is of
  the Host's generation and of no later contract than the one in use.
  `TakenBackKept` is what a failed gate leaves: a directory devices may hold and
  the Host no longer serves is covered by every keeper's own, which can be read
  whenever the served one can, and by what a restore may bring. `OnlyKeeper`:
  until material is lost, an only keeper's directory is the newest there is, the
  backup's included. `Observed` says, by the step of a command, that its keeper
  holds the root of the Host, that what it adopts is what is served, and that
  from issue to gate its directory covers all that was shown, which makes the
  next revision a new one.

The invariant of the artifacts was not inductive at first: TLC showed a rehearsal
kept while another deploy was between the first file of a model and the last,
whose retirement then went on to a model of the rehearsed release.
`RetirementsOver` now lasts until the removal is done, as its comment says.

The proofs found that several `CASE` expressions of the model had arms that
overlap, of which TLA+ may pick any; they are conditionals in the source's order
now.

**Model-checked only.** Liveness (`DeployEnds`, `ResumeCompletes`,
`ProductComesBack`, `StreamsEnd`, `UpkeepEnds`) and anything about ENABLED are
out of the prover's reach, and so would be induction over data; no module here
declares a recursive operator. Every invariant and every action property a run
checks is a theorem; beyond the faults a theorem allows, its property is
model-checked or known to fail (section 4).

## 6. Not modelled, and abstractions worth knowing

Not modelled: the device evidence (drives bench hardware), the LAN ingress relay
(a byte relay without shared state), release preflight and matrix (read-only
proofs over Git objects and tables), settings and rendering (documents in,
documents out), the workstation toolchain (downloads that are idempotent by
digest, without a second actor), status, logs and doctor (read only), supervisord
behind its socket, HTTP and redaction of the console, argument parsing.

Abstractions:

- Rendering, digests and manifests: a file is known by the release, version,
  epoch or identity it belongs to. Sealing a bundle and taking a backup are one
  step.
- `Sealer` says which workstations hold the bundles; it does not change in a run.
- A Host with an app bundle (`host_layer.app`) is assumed.
- A sidecar stands for `-wal`, `-shm` and `-journal` together; the undo of a
  restore is one step, Ctrl-C falls before or after it.
- A memory space is restored by its service as one step, possibly after the
  caller gave up. Start itself is external: it may be late, but is issued.
- Users, groups and directories of an install are one piece of state
  (`identities`). Between install attempts the workstation may reclaim the
  release directory; that handler is in `ReleaseHost` and not composed with
  `TargetInstall`.
- `FailureStopsProduct` speaks of failures once the assets are in, before which
  no product unit exists.
- One workstation at a time in `HostAuthority`; a second one only as far as it
  writes to the same restore stage. `install --reset-existing` is a reset and an
  install.
- The wall clock is an era in `OwnerDirectory`: a certificate or a directory of
  an earlier era has run out.
- The documents of `HostSelection` differ from the plain ones in one respect at
  a time: in what is narrowed and told, in dependencies, or in claims and state.
- The route the kernel takes to an address that is not link-local is taken as
  the right one (`endpoints.py:37-39`); sessions of releases share nothing, so
  that only one operator runs them in `HostLink`.
- A request's switches are in `HostOperations`, its texts and numbers are not,
  except those that decide what happens.

## 7. What could come next

1. `OnRecordKept` and `BarrierKeepsConfig` proved for the larger sets of faults
   TLC finds them to hold under.
2. The machines of `HostUpkeep` beside a deploy of `ReleaseTransaction` on one
   Host, where convergence and the set-aside meet a cutover.
