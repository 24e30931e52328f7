--------------------------- MODULE TargetInstall ---------------------------
(***************************************************************************)
(* The first install of a Host (hostagent/install.py): the journal that    *)
(* makes it resumable, the phases it records, the lock it holds, and what  *)
(* the workstation does around it (ReleaseTransaction.install: stage the   *)
(* private inputs, run the agent, clean the stage up whatever happened).   *)
(*                                                                         *)
(* A driver is a workstation together with the agent it starts over SSH.   *)
(* Every step of the agent is an action, so that a failure, the death of   *)
(* the agent or a reboot of the Host may come between any two of them; a   *)
(* later attempt then starts from the journal and the namespace it finds.  *)
(* The release was prepared before (module ReleaseHost); its deployment    *)
(* package, systemd and alembic are external.                              *)
(***************************************************************************)
EXTENDS Naturals, FiniteSets

CONSTANTS
  Driver,      \* workstations that may install this Host
  Persistent,  \* those that resume for as long as it takes; others try once
  Release,     \* release ids an install may name
  Input,       \* private input files
  Version,     \* what a workstation may stage: one set of bytes per version
  Component,   \* components with a current link
  None,        \* absent: a file, a link, a stage
  Faults,      \* which of FaultKind may happen
  MaxFaults    \* and how many of them in one run (the bound of the model)

FaultKind == { "step_fails",     \* a step before `started` is on record fails
               "late_fails",     \* so does one after it
               "agent_dies",     \* the agent is killed, its lock with it
               "begin_dies",     \* likewise, right after the evidence mkdir
               "host_reboots",
               "answer_lost",    \* the workstation cleans up under the agent
               "restaged" }      \* a second workstation stages meanwhile

ASSUME InstallAssumption ==
  /\ Persistent \subseteq Driver
  /\ None \notin Release \cup Version
  /\ Faults \subseteq FaultKind
  /\ MaxFaults \in Nat

VARIABLES
  journal,   \* per release: its evidence directory and install.json
  host,      \* what the phases have built in the namespace
  units,     \* the product's units
  stage,     \* the version in the secret staging directory, or None
  agent,     \* each driver's progress
  tried,     \* drivers that made an attempt
  faults     \* faults left

vars == <<journal, host, units, stage, agent, tried, faults>>

\* contract.PHASES, by position.
Validated     == 0
Identities    == 1
Prerequisites == 2
Baseline      == 3
Assets        == 4
Started       == 5
Completed     == 6

Working == {"identities", "prerequisites", "baseline", "migrated", "assets",
            "switch", "enable", "start", "ready", "ingress", "doctor", "record"}
Holding == Working \cup {"load", "mkdir", "recheck", "quiesce", "failing"}
Step    == Holding \cup {"idle", "staged", "lock", "cleanup"}

Agent == [pc : Step, release : Release, inputs : Version \cup {None},
          phase : Validated..Completed, copied : SUBSET Input, stopError : BOOLEAN]

Init ==
  /\ journal = [r \in Release |-> [file |-> "none", phase |-> Validated,
                                   status |-> "running", inputs |-> None]]
  /\ host = [identities |-> FALSE, files |-> [i \in Input |-> None],
             database |-> "absent", assets |-> None,
             links |-> [c \in Component |-> None], enabled |-> FALSE]
  /\ units = "stopped"
  /\ stage = None
  /\ agent \in [Driver -> {a \in Agent : /\ a.pc = "idle" /\ a.inputs = None
                                         /\ a.phase = Validated /\ ~a.stopError
                                         /\ a.copied = {}
                                         /\ a.release = CHOOSE r \in Release : TRUE}]
  /\ tried = {}
  /\ faults = MaxFaults

-----------------------------------------------------------------------------
At(d, pc) == agent[d].pc = pc /\ UNCHANGED <<tried, faults>>

Goto(d, pc) == agent' = [agent EXCEPT ![d].pc = pc]

Mine(d) == journal[agent[d].release]

Write(d, phase, status) ==
  journal' = [journal EXCEPT ![agent[d].release].file = "written",
                             ![agent[d].release].phase = phase,
                             ![agent[d].release].status = status]

Fault(kind) == kind \in Faults /\ faults > 0 /\ faults' = faults - 1

Clean ==
  /\ \A c \in Component : host.links[c] = None
  /\ \A i \in Input : host.files[i] = None
  /\ host.database = "absent" /\ host.assets = None /\ ~host.identities
  /\ \A r \in Release : journal[r].file = "none"

-----------------------------------------------------------------------------
(* The workstation: ReleaseTransaction.install                             *)

\* Staging removes what an earlier attempt staged and uploads the inputs.
Attempt(d, r, v) ==
  /\ agent[d].pc = "idle"
  /\ d \in Persistent \/ d \notin tried
  /\ \/ UNCHANGED faults /\ \A e \in Driver : agent[e].pc \in {"idle", "staged", "cleanup"}
     \/ Fault("restaged") /\ \E e \in Driver : agent[e].pc \notin {"idle", "staged", "cleanup"}
  /\ stage' = v
  /\ tried' = tried \cup {d}
  /\ agent' = [agent EXCEPT ![d] = [pc |-> "staged", release |-> r, inputs |-> None,
                                    phase |-> Validated, copied |-> {}, stopError |-> FALSE]]
  /\ UNCHANGED <<journal, host, units>>

\* cleanup-stage runs after the agent whatever it answered.
Cleanup(d) ==
  /\ At(d, "cleanup")
  /\ stage' = None
  /\ Goto(d, "idle")
  /\ UNCHANGED <<journal, host, units>>

\* ... and while it still runs, if the connection or the timeout gave up.
CleanupEarly(d) ==
  /\ Fault("answer_lost")
  /\ agent[d].pc \in Holding
  /\ stage' = None
  /\ UNCHANGED <<journal, host, units, agent, tried>>

-----------------------------------------------------------------------------
(* Entry: digests, lock, journal                                           *)

\* The digests are taken before the lock.
InputDigests(d) ==
  /\ At(d, "staged")
  /\ agent' = [agent EXCEPT ![d].pc = IF stage = None THEN "cleanup" ELSE "lock",
                            ![d].inputs = stage]
  /\ UNCHANGED <<journal, host, units, stage>>

\* The lock is not waited for.
Exclusive(d) ==
  /\ At(d, "lock")
  /\ Goto(d, IF \E e \in Driver : agent[e].pc \in Holding THEN "cleanup" ELSE "load")
  /\ UNCHANGED <<journal, host, units, stage>>

\* Mutant: a journal of other inputs is resumed.
ResumableAnyInputs(d) == Mine(d).file = "written"

\* Mutant: a failed install is not taken up again.
ResumableRunning(d) ==
  Mine(d).file = "written" /\ Mine(d).inputs = agent[d].inputs /\ Mine(d).status # "failed"

\* The journal is of this release by its path; it must be of these inputs too.
Resumable(d) == Mine(d).file = "written" /\ Mine(d).inputs = agent[d].inputs

EnterAt(phase) == IF phase = Validated THEN "identities" ELSE "prerequisites"

Load(d) ==
  /\ At(d, "load")
  /\ agent' = [agent EXCEPT
       ![d].pc = IF Resumable(d)
                 THEN IF Mine(d).status = "completed" THEN "recheck" ELSE EnterAt(Mine(d).phase)
                 ELSE IF Mine(d).file # "written" /\ Clean THEN "mkdir" ELSE "cleanup",
       ![d].phase = IF Resumable(d) THEN Mine(d).phase ELSE Validated]
  /\ UNCHANGED <<journal, host, units, stage>>

\* The evidence directory comes first, the document in it second.
EvidenceDirectory(d) ==
  /\ At(d, "mkdir") /\ Mine(d).file = "none"
  /\ journal' = [journal EXCEPT ![agent[d].release].file = "dir"]
  /\ UNCHANGED <<host, units, stage, agent>>

Begin(d) ==
  /\ At(d, "mkdir") /\ Mine(d).file = "dir"
  /\ journal' = [journal EXCEPT ![agent[d].release] =
       [file |-> "written", phase |-> Validated, status |-> "running",
        inputs |-> agent[d].inputs]]
  /\ Goto(d, "identities")
  /\ UNCHANGED <<host, units, stage>>

\* A completed install only asks its doctor, which changes nothing.
Recheck(d) ==
  /\ At(d, "recheck")
  /\ Goto(d, "cleanup")
  /\ UNCHANGED <<journal, host, units, stage>>

-----------------------------------------------------------------------------
(* The phases                                                              *)

EnsureIdentities(d) ==
  /\ At(d, "identities")
  /\ host' = [host EXCEPT !.identities = TRUE]
  /\ Goto(d, "record")
  /\ UNCHANGED <<journal, units, stage>>

\* What follows a phase that is on record.
After(phase) ==
  CASE phase = Validated     -> "identities"
    [] phase = Identities    -> "prerequisites"
    [] phase = Prerequisites -> "baseline"
    [] phase = Baseline      -> "assets"
    [] phase = Assets        -> "start"
    [] phase = Started       -> "ingress"

\* One input: copied beside its place and renamed into it.
InstallInput(d, i) ==
  /\ At(d, "prerequisites")
  /\ host.files[i] = None /\ stage # None
  /\ host' = [host EXCEPT !.files[i] = stage]
  /\ agent' = [agent EXCEPT ![d].copied = @ \cup {i}]
  /\ UNCHANGED <<journal, units, stage>>

\* A file found in place is compared with the digest, one just copied is not.
Proved(d, i) == i \in agent[d].copied \/ host.files[i] = agent[d].inputs

\* All are there; a resume proves them again and records nothing.
PrerequisitesDone(d) ==
  /\ At(d, "prerequisites")
  /\ \A i \in Input : Proved(d, i)
  /\ agent' = [agent EXCEPT
       ![d].copied = {},
       ![d].pc = IF agent[d].phase < Prerequisites THEN "record" ELSE After(agent[d].phase)]
  /\ UNCHANGED <<journal, host, units, stage>>

CreateBaseline(d) ==
  /\ At(d, "baseline")
  /\ host' = [host EXCEPT !.database = IF @ = "absent" THEN "partial" ELSE @]
  /\ Goto(d, "migrated")
  /\ UNCHANGED <<journal, units, stage>>

FinishBaseline(d) ==
  /\ At(d, "migrated")
  /\ host' = [host EXCEPT !.database = "ready"]
  /\ Goto(d, "record")
  /\ UNCHANGED <<journal, units, stage>>

InstallAssets(d) ==
  /\ At(d, "assets")
  /\ host' = [host EXCEPT !.assets = agent[d].release]
  /\ Goto(d, "switch")
  /\ UNCHANGED <<journal, units, stage>>

SwitchComponent(d, c) ==
  /\ At(d, "switch")
  /\ host.links[c] # agent[d].release
  /\ host' = [host EXCEPT !.links[c] = agent[d].release]
  /\ UNCHANGED <<journal, units, stage, agent>>

\* Mutant: the units are enabled before every link is there.
EnableEarly(d) ==
  /\ At(d, "switch")
  /\ host' = [host EXCEPT !.enabled = TRUE]
  /\ Goto(d, IF \A c \in Component : host.links[c] = agent[d].release THEN "record" ELSE "switch")
  /\ UNCHANGED <<journal, units, stage>>

EnableUnits(d) ==
  /\ At(d, "switch")
  /\ \A c \in Component : host.links[c] = agent[d].release
  /\ host' = [host EXCEPT !.enabled = TRUE]
  /\ Goto(d, "record")
  /\ UNCHANGED <<journal, units, stage>>

StartRelease(d) ==
  /\ At(d, "start")
  /\ units' = IF units = "stopped" THEN "starting" ELSE units
  /\ Goto(d, "ready")
  /\ UNCHANGED <<journal, host, stage>>

WaitReady(d) ==
  /\ At(d, "ready")
  /\ units = "up"
  /\ Goto(d, "ingress")
  /\ UNCHANGED <<journal, host, units, stage>>

\* A failed step: quiesced only where the product may have been started.
FailsAt(d) == Goto(d, IF agent[d].phase < Assets THEN "failing" ELSE "quiesce")

\* await_host_application waits for the ingress and never starts it.
AwaitHostLayer(d) ==
  /\ At(d, "ingress")
  /\ IF units = "stopped" THEN FailsAt(d) ELSE Goto(d, "doctor")
  /\ UNCHANGED <<journal, host, units, stage>>

\* The doctor looks once; it does not wait.
DoctorPasses(d) ==
  /\ At(d, "doctor")
  /\ IF units = "up" THEN Goto(d, "record") ELSE FailsAt(d)
  /\ UNCHANGED <<journal, host, units, stage>>

Reach(d, reached) ==
  /\ Write(d, reached, IF reached = Completed THEN "completed" ELSE "running")
  /\ agent' = [agent EXCEPT ![d].phase = reached,
       ![d].pc = CASE reached = Started -> "record" [] reached = Completed -> "cleanup"
                   [] OTHER -> After(reached)]

\* Mutant: two phases in one record, the work of the second not done.
RecordAhead(d) ==
  /\ At(d, "record")
  /\ Reach(d, IF agent[d].phase = Identities THEN Baseline ELSE agent[d].phase + 1)
  /\ UNCHANGED <<host, units, stage>>
\* The journal is replaced after the phase is done.  `started` and `completed`
\* follow each other with nothing in between.
Record(d) ==
  /\ At(d, "record")
  /\ Reach(d, agent[d].phase + 1)
  /\ UNCHANGED <<host, units, stage>>

-----------------------------------------------------------------------------
(* Failure, death, reboot                                                  *)

\* A step raises: by itself (an input gone from the stage or different from
\* the one in place), or because a command or a write failed.
StepFails(d) ==
  /\ agent[d].pc \in Working
  /\ \/ /\ agent[d].pc = "prerequisites"
        /\ \E i \in Input : ~Proved(d, i) /\ (host.files[i] = None => stage = None)
        /\ UNCHANGED faults
     \/ IF agent[d].phase < Started THEN Fault("step_fails") ELSE Fault("late_fails")
  /\ FailsAt(d)
  /\ UNCHANGED <<journal, host, units, stage, tried>>

\* Mutant: the product is left running unless it was on record as started.
QuiesceIfStarted(d) ==
  /\ agent[d].pc = "quiesce"
  /\ \/ UNCHANGED faults
        /\ units' = (IF agent[d].phase < Started THEN units ELSE "stopped") /\ Goto(d, "failing")
     \/ Fault("step_fails") /\ UNCHANGED units
        /\ agent' = [agent EXCEPT ![d].pc = "failing", ![d].stopError = TRUE]
  /\ UNCHANGED <<journal, host, stage, tried>>

\* The stop may fail as well; that is written down, not raised.
Quiesce(d) ==
  /\ agent[d].pc = "quiesce"
  /\ \/ UNCHANGED faults /\ units' = "stopped" /\ Goto(d, "failing")
     \/ Fault("step_fails") /\ UNCHANGED units
        /\ agent' = [agent EXCEPT ![d].pc = "failing", ![d].stopError = TRUE]
  /\ UNCHANGED <<journal, host, stage, tried>>

RecordFailure(d) ==
  /\ At(d, "failing")
  /\ Write(d, agent[d].phase, "failed")
  /\ Goto(d, "cleanup")
  /\ UNCHANGED <<host, units, stage>>

AgentDies(d) ==
  /\ agent[d].pc \in Holding
  /\ IF agent[d].pc = "mkdir" /\ Mine(d).file = "dir"
     THEN Fault("begin_dies") ELSE Fault("agent_dies")
  /\ Goto(d, "cleanup")
  /\ UNCHANGED <<journal, host, units, stage, tried>>

\* systemd starts what is enabled.
HostReboots ==
  /\ Fault("host_reboots")
  /\ ~\E d \in Driver : agent[d].pc = "mkdir"
  /\ agent' = [d \in Driver |-> IF agent[d].pc \in Holding
                                THEN [agent[d] EXCEPT !.pc = "cleanup"] ELSE agent[d]]
  /\ units' = IF host.enabled THEN "starting" ELSE "stopped"
  /\ UNCHANGED <<journal, host, stage, tried>>

UnitsComeUp ==
  /\ units = "starting"
  /\ units' = "up"
  /\ UNCHANGED <<journal, host, stage, agent, tried, faults>>

\* What a driver's call does next; everything here is bounded by a timeout.
Call(d) ==
  \/ Cleanup(d) \/ InputDigests(d) \/ Exclusive(d) \/ Load(d)
  \/ EvidenceDirectory(d) \/ Begin(d) \/ Recheck(d) \/ EnsureIdentities(d)
  \/ \E i \in Input : InstallInput(d, i)
  \/ PrerequisitesDone(d) \/ CreateBaseline(d) \/ FinishBaseline(d) \/ InstallAssets(d)
  \/ \E c \in Component : SwitchComponent(d, c)
  \/ EnableUnits(d) \/ StartRelease(d) \/ WaitReady(d) \/ AwaitHostLayer(d)
  \/ DoctorPasses(d) \/ Record(d) \/ StepFails(d) \/ Quiesce(d) \/ RecordFailure(d)

Next ==
  \/ \E d \in Driver, r \in Release, v \in Version : Attempt(d, r, v)
  \/ \E d \in Driver : Call(d) \/ CleanupEarly(d) \/ AgentDies(d)
  \/ HostReboots
  \/ UnitsComeUp

Spec == Init /\ [][Next]_vars

\* Every command of a call has a timeout and systemd gets the units up; an
\* operator who resumes tries each release and each set of inputs again.
FairSpec ==
  /\ Spec
  /\ WF_vars(UnitsComeUp)
  /\ \A d \in Driver : WF_vars(Call(d))
  /\ \A d \in Persistent, r \in Release, v \in Version : SF_vars(Attempt(d, r, v))

-----------------------------------------------------------------------------
(* Properties                                                              *)

Written == {r \in Release : journal[r].file = "written"}

Linked(r) == \A c \in Component : host.links[c] = r

\* The journal never names a phase whose work is not on the Host, whoever was
\* killed where, so that a resume may skip every phase on record.
JournalNeverAhead ==
  \A r \in Written : LET phase == journal[r].phase IN
    /\ phase >= Identities    => host.identities
    /\ phase >= Prerequisites => \A i \in Input : host.files[i] # None
    /\ phase >= Baseline      => host.database = "ready"
    /\ phase >= Assets        => host.assets = r /\ Linked(r) /\ host.enabled

\* The namespace has one owner, and what is in it is what the journal's digests
\* say: two workstations never install over each other, a resume with other
\* inputs, or over another's stage, never gets a second set of bytes in, and
\* nothing is in place that no journal accounts for.
InstalledAsRecorded ==
  /\ Cardinality(Written) <= 1
  /\ \A r \in Written, i \in Input : host.files[i] \in {None, journal[r].inputs}
  /\ \A c \in Component : host.links[c] \in Written \cup {None}
  /\ host.identities => Written # {}

\* No unit ever runs on a half-installed Host, a reboot in the middle of the
\* install included.
NeverServesHalf ==
  units # "stopped" =>
    /\ host.identities /\ host.database = "ready"
    /\ \A i \in Input : host.files[i] # None
    /\ \E r \in Written : host.assets = r /\ Linked(r)

\* An install that reports a failure after the product may have been started
\* leaves it stopped, or says that it could not stop it.
FailureStopsProduct ==
  [][\A d \in Driver :
       /\ agent[d].pc = "failing" /\ agent'[d].pc = "cleanup" /\ journal' # journal
       /\ agent[d].phase >= Assets /\ ~agent[d].stopError
       => units' = "stopped"]_vars

\* "Resumable": an install that got its journal written is completed by an
\* operator who keeps resuming it with the same inputs.
ResumeCompletes ==
  \A r \in Release : journal[r].file # "none" ~> journal[r].status = "completed"
=============================================================================
