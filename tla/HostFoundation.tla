--------------------------- MODULE HostFoundation ---------------------------
(***************************************************************************)
(* A bare board made a Host (bring_up.py, controller.py provision,          *)
(* hostagent/foundation_install.py): the script the operator runs on it as  *)
(* root, Python by the archive of its profile, and the pinned foundation    *)
(* the agent installs under a lock that does not wait.                      *)
(*                                                                         *)
(* apt, pip, curl and journald are external.                                *)
(***************************************************************************)
EXTENDS Naturals, Sequences

CONSTANTS
  Driver,       \* operators who may run provision
  Lead,         \* the one who is at the board, and keeps at it
  None,
  Artifacts,    \* number of pinned artifacts, in the contract's order
  Wheel,        \* the one pip installs: uv
  Links,        \* artifact -> number of executables linked; the first is asked its version
  Service,
  MaxFaults,    \* bound: faults of all kinds
  Faults        \* the faults of this instance

VARIABLES
  declaration,  \* the operators the tracked key file names
  script,       \* the step of the bring-up script that is next; 0 when it does not run
  applied,      \* the steps of it that are in force
  accepted,     \* the operators the board lets in
  driver,       \* where each provision stands
  install,      \* the agent's installation: step, artifact, link and who waits for it
  evidence,     \* foundation-v2.json: status and phase
  apt,          \* Python is there; the packages are; dpkg was interrupted
  cache,        \* artifact -> its download
  tree,         \* the artifacts unpacked at their versioned place
  bin,          \* <<artifact, n>> -> what is at the n-th executable's name
  dropin,       \* the persistent-storage drop-in is written
  journald,     \* the storage the running journald uses
  enabled,      \* the foundation services enabled
  faults

vars == <<declaration, script, applied, accepted, driver, install, evidence, apt, cache, tree, bin,
          dropin, journald, enabled, faults>>
board == <<declaration, script, applied, accepted>>
host == <<apt, cache, tree, bin, dropin, journald, enabled>>

Artifact == 1..Artifacts
Executable == UNION {{<<a, n>> : n \in 1..Links[a]} : a \in Artifact}
NoInstall == [pc |-> "none", at |-> 1, link |-> 1, by |-> None]
Installed == [status |-> "installed", phase |-> "completed"]

\* The script's steps in their order; the network is last.
Script == <<"hostname", "account", "keys", "sudo", "services", "network">>
Steps == {Script[n] : n \in DOMAIN Script}

\* A board nothing was done to, or one brought up before for other operators;
\* somebody may have put an executable of theirs where a pinned one goes.
Init ==
  /\ declaration \in {o \in SUBSET Driver : Lead \in o}
  /\ script = 0
  /\ \/ applied = {} /\ accepted = {}
     \/ applied = Steps /\ accepted \in SUBSET Driver
  /\ driver = [d \in Driver |-> "idle"]
  /\ install = NoInstall /\ evidence = None
  /\ apt \in [python : BOOLEAN, packages : {FALSE}, interrupted : {FALSE}]
  /\ cache = [a \in Artifact |-> "none"] /\ tree = {}
  /\ bin \in {[x \in Executable |-> IF x = y THEN "foreign" ELSE "none"] :
                y \in Executable \cup {None}}
  /\ dropin = FALSE /\ journald = "volatile" /\ enabled = {} /\ faults = 0

Fault(f) == f \in Faults /\ faults < MaxFaults /\ faults' = faults + 1

-----------------------------------------------------------------------------
\* The bring-up script, run by the operator at the board.  Every step is a
\* state, so that it can be run again from the first.

RunScript ==
  /\ script = 0 /\ (applied # Steps \/ accepted # declaration)
  /\ script' = 1
  /\ UNCHANGED <<declaration, applied, accepted, driver, install, evidence, host, faults>>

\* The account's keys are made equal to the declaration, not added to.
ScriptStep ==
  /\ script # 0
  /\ applied' = applied \cup {Script[script]}
  /\ accepted' = IF Script[script] = "keys" THEN declaration ELSE accepted
  /\ script' = IF script = Len(Script) THEN 0 ELSE script + 1
  /\ UNCHANGED <<declaration, driver, install, evidence, host, faults>>

\* A command of it fails, or the network step drops the session: rerun.
ScriptStops ==
  /\ script # 0 /\ Fault("script_stops")
  /\ script' = 0
  /\ UNCHANGED <<declaration, applied, accepted, driver, install, evidence, host>>

\* The first boot of a prepared medium applies the whole of it.
FirstBoot ==
  /\ script = 0 /\ applied = {}
  /\ applied' = Steps /\ accepted' = declaration
  /\ UNCHANGED <<declaration, script, driver, install, evidence, host, faults>>

-----------------------------------------------------------------------------
\* provision, on the workstation.

Stands(d, pc) == driver' = [driver EXCEPT ![d] = pc]
Asks(d, pc, next) ==
  /\ driver[d] = pc /\ Stands(d, next)
  /\ UNCHANGED <<board, install, evidence, faults>>

\* A session needs the account, the key, and sudo without a password.
LetsIn(d) == d \in accepted /\ {"hostname", "account", "keys", "sudo", "services"} \subseteq applied

Healthy ==
  /\ apt.packages /\ enabled = Service /\ dropin
  /\ \A a \in Artifact : bin[<<a, 1>>] = "managed"
  /\ evidence = Installed

Begin(d) ==
  /\ LetsIn(d)
  /\ Asks(d, "idle", IF apt.python THEN "doctor" ELSE "bootstrap")
  /\ UNCHANGED host

\* Outside the foundation lock: only dpkg's own keeps it from an installation.
Bootstrap(d) ==
  /\ IF apt.interrupted \/ install.pc = "packages"
     THEN Asks(d, "bootstrap", "idle") /\ UNCHANGED host
     ELSE /\ Asks(d, "bootstrap", "doctor") /\ apt' = [apt EXCEPT !.python = TRUE]
          /\ UNCHANGED <<cache, tree, bin, dropin, journald, enabled>>

Doctor(d) == Asks(d, "doctor", IF Healthy THEN "idle" ELSE "install") /\ UNCHANGED host

\* The lock does not wait; who is refused starts over.
StartInstall(d) ==
  /\ driver[d] = "install"
  /\ IF install.pc = "none"
     THEN /\ Stands(d, "waits")
          /\ install' = [NoInstall EXCEPT !.pc = "packages", !.by = d]
          /\ evidence' = [status |-> "installing", phase |-> "validated"]
     ELSE Stands(d, "idle") /\ UNCHANGED <<install, evidence>>
  /\ UNCHANGED <<board, host, faults>>

\* A bootstrap or a question fails, or a wait ends; an agent goes on without its operator.
DriverFails(d) ==
  /\ driver[d] # "idle" /\ Fault("session_drops")
  /\ Stands(d, "idle")
  /\ install' = IF install.by = d THEN [install EXCEPT !.by = None] ELSE install
  /\ UNCHANGED <<board, evidence, host>>

-----------------------------------------------------------------------------
\* foundation_install, under the lock.

Agent(pc) == install.pc = pc /\ UNCHANGED <<board, faults>>
Goes(pc) == install' = [install EXCEPT !.pc = pc] /\ UNCHANGED driver
Record(phase) == evidence' = [status |-> "installing", phase |-> phase]
Ends ==
  /\ install' = NoInstall
  /\ driver' = [d \in Driver |-> IF install.by = d THEN "idle" ELSE driver[d]]

\* Whatever it is that raises, the phase it reached is recorded.
PhaseOf == IF evidence = Installed THEN "completed" ELSE evidence.phase
Raise == Ends /\ evidence' = [status |-> "failed", phase |-> PhaseOf]

InstallPackages ==
  /\ Agent("packages")
  /\ IF apt.interrupted THEN Raise /\ UNCHANGED apt
     ELSE Goes("fetch") /\ Record("packages") /\ apt' = [apt EXCEPT !.packages = TRUE, !.python = TRUE]
  /\ UNCHANGED <<cache, tree, bin, dropin, journald, enabled>>

\* On to the next artifact, or to the journal.
NextArtifact ==
  /\ IF install.at < Artifacts
     THEN install' = [install EXCEPT !.pc = "fetch", !.at = @ + 1, !.link = 1] /\ UNCHANGED evidence
     ELSE install' = [install EXCEPT !.pc = "journal"] /\ Record("artifacts")
  /\ UNCHANGED driver

\* uv is kept when it answers with its pinned version, and refused when
\* something else has its name.
KeepsWheel == install.at = Wheel /\ bin[<<Wheel, 1>>] # "none"
WheelThere ==
  /\ Agent("fetch") /\ KeepsWheel
  /\ IF bin[<<Wheel, 1>>] = "managed" THEN NextArtifact ELSE Raise
  /\ UNCHANGED host

\* A whole file of the pinned hash is used as it is; a partial one is
\* continued, and dropped when the whole has another hash.
Downloaded(was) == CASE was = "corrupt" -> "none" [] OTHER -> "whole"
Fetch ==
  /\ Agent("fetch") /\ ~KeepsWheel
  /\ cache' = [cache EXCEPT ![install.at] = Downloaded(@)]
  /\ IF cache'[install.at] = "whole" THEN Goes("unpack") /\ UNCHANGED evidence ELSE Raise
  /\ UNCHANGED <<apt, tree, bin, dropin, journald, enabled>>

FetchBreaks ==
  /\ install.pc = "fetch" /\ ~KeepsWheel /\ cache[install.at] # "whole" /\ Fault("transfer_breaks")
  /\ \E rest \in {"partial", "corrupt"} : cache' = [cache EXCEPT ![install.at] = rest]
  /\ Raise
  /\ UNCHANGED <<board, apt, tree, bin, dropin, journald, enabled>>

\* What is unpacked appears whole at its versioned place, and once.
Unpacked == tree' = tree \cup {install.at} /\ Goes("link") /\ UNCHANGED <<faults, evidence>>
Unpack ==
  /\ install.pc = "unpack" /\ install.at # Wheel
  /\ Unpacked
  /\ UNCHANGED <<board, apt, cache, bin, dropin, journald, enabled>>

Pip ==
  /\ Agent("unpack") /\ install.at = Wheel
  /\ bin' = [bin EXCEPT ![<<Wheel, 1>>] = "managed"]
  /\ NextArtifact
  /\ UNCHANGED <<apt, cache, tree, dropin, journald, enabled>>

\* A name that is taken by anything else is never replaced.
Link ==
  /\ Agent("link")
  /\ LET x == <<install.at, install.link>> IN
     IF bin[x] = "foreign" THEN Raise /\ UNCHANGED bin
     ELSE /\ bin' = [bin EXCEPT ![x] = "managed"]
          /\ IF install.link < Links[install.at]
             THEN install' = [install EXCEPT !.link = @ + 1] /\ UNCHANGED <<driver, evidence>>
             ELSE NextArtifact
  /\ UNCHANGED <<apt, cache, tree, dropin, journald, enabled>>

\* The drop-in, and journald told of it; nothing to do when the merged
\* configuration says persistent already.
WriteDropinOnly ==
  /\ Agent("journal")
  /\ dropin' = TRUE /\ Goes("services") /\ Record("journal")
  /\ UNCHANGED <<apt, cache, tree, bin, journald, enabled>>
WriteDropin ==
  /\ Agent("journal")
  /\ dropin' = TRUE
  /\ IF dropin THEN Goes("services") /\ Record("journal")
     ELSE Goes("restart journald") /\ UNCHANGED evidence
  /\ UNCHANGED <<apt, cache, tree, bin, journald, enabled>>

RestartJournald ==
  /\ Agent("restart journald")
  /\ journald' = "persistent" /\ Goes("services") /\ Record("journal")
  /\ UNCHANGED <<apt, cache, tree, bin, dropin, enabled>>

EnableService(s) ==
  /\ Agent("services") /\ s \in Service \ enabled
  /\ enabled' = enabled \cup {s}
  /\ UNCHANGED <<driver, install, evidence, apt, cache, tree, bin, dropin, journald>>

\* Recorded as installed first, asked whether it is healthy second.
RecordInstalled ==
  /\ Agent("services") /\ enabled = Service
  /\ evidence' = Installed /\ Goes("gate")
  /\ UNCHANGED host

HealthGate ==
  /\ Agent("gate")
  /\ IF Healthy THEN Ends /\ UNCHANGED evidence ELSE Raise
  /\ UNCHANGED host

-----------------------------------------------------------------------------
\* Faults.  An instance may grant those no rerun recovers from: a death of
\* apt or pip half way, and one between the drop-in and journald.

StepRaises ==
  /\ \/ install.pc \in {"packages", "unpack", "link", "journal", "services"} /\ Fault("step_fails")
     \/ install.pc = "restart journald" /\ Fault("journald_not_told")
  /\ Raise
  /\ UNCHANGED <<board, host>>

AgentDies ==
  /\ \/ /\ install.pc \notin {"none", "restart journald"} /\ Fault("agent_dies")
        /\ UNCHANGED <<apt, bin>>
     \/ /\ install.pc = "restart journald" /\ Fault("journald_not_told")
        /\ UNCHANGED <<apt, bin>>
     \/ /\ install.pc = "packages" /\ Fault("package_manager_dies")
        /\ apt' = [apt EXCEPT !.interrupted = TRUE] /\ UNCHANGED bin
     \/ /\ install.pc = "unpack" /\ install.at = Wheel /\ Fault("package_manager_dies")
        /\ bin' = [bin EXCEPT ![<<Wheel, 1>>] = "foreign"] /\ UNCHANGED apt
  /\ Ends
  /\ UNCHANGED <<board, evidence, cache, tree, dropin, journald, enabled>>

\* journald reads the drop-in as the board boots.
BoardReboots ==
  /\ script # 0 \/ install.pc \notin {"none", "restart journald"}
  /\ Fault("machine_reboots")
  /\ script' = 0 /\ driver' = [d \in Driver |-> "idle"] /\ install' = NoInstall
  /\ journald' = IF dropin THEN "persistent" ELSE "volatile"
  /\ UNCHANGED <<declaration, applied, accepted, evidence, apt, cache, tree, bin, dropin, enabled>>

-----------------------------------------------------------------------------
Install ==
  \/ InstallPackages \/ WheelThere \/ Fetch \/ Unpack \/ Pip \/ Link
  \/ WriteDropin \/ RestartJournald \/ RecordInstalled \/ HealthGate
  \/ \E s \in Service : EnableService(s)
Provision(d) == Begin(d) \/ Bootstrap(d) \/ Doctor(d) \/ StartInstall(d)

Next ==
  \/ RunScript \/ ScriptStep \/ ScriptStops \/ FirstBoot
  \/ \E d \in Driver : Provision(d) \/ DriverFails(d)
  \/ Install \/ FetchBreaks \/ StepRaises \/ AgentDies \/ BoardReboots

-----------------------------------------------------------------------------
\* Evidence that says installed is of a board that has every part, whole, in
\* force and not only written down.
EvidenceBacked ==
  evidence = Installed =>
    /\ apt.python /\ apt.packages /\ enabled = Service
    /\ tree = Artifact \ {Wheel}
    /\ \A x \in Executable : bin[x] = "managed"
    /\ dropin /\ journald = "persistent"

\* The operators let in are the declared ones, and one of them finds it healthy.
Provisioned == accepted = declaration /\ applied = Steps /\ Healthy
\* An executable of somebody else's is left alone: the operator removes it.
Obstructed == \E x \in Executable : bin[x] = "foreign"
=============================================================================
