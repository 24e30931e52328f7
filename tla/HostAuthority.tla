--------------------------- MODULE HostAuthority ---------------------------
(***************************************************************************)
(* Which board a Host identity is on and which Authority it has            *)
(* established: a profile on the workstation (private inputs, identity      *)
(* anchor, Owner root, delivery binding), the boards that may answer at its *)
(* address, and the commands that name the situation (install_decision.py) *)
(* and act on it: init-inputs, install, converge, trust-host-delivery,      *)
(* authority-backup, authority-restore and a wiping reset.                  *)
(*                                                                         *)
(* One workstation runs one command at a time.  An agent it started on a    *)
(* board goes on when its answer is lost, and holds the install lock there  *)
(* until it ends.  `install --reset-existing` is a reset and an install.    *)
(***************************************************************************)
EXTENDS Naturals, Sequences, FiniteSets

CONSTANTS
  Board,        \* the boards that may answer
  None,         \* nothing there
  MaxMinted,    \* bound: identities, Owners and Authority states each
  MaxCommands,  \* bound: commands the operator runs
  MaxFaults,    \* bound: faults of all kinds
  Faults        \* the faults of this instance

\* What is absent is no number and none of the records.
ASSUME AuthorityAssumption ==
  LET Lineages == [owner : Nat, state : Nat]
      Staged == [identity : Nat \cup {None}, lineage : Lineages \cup {None}, pending : BOOLEAN] IN
  /\ None \notin Nat \cup Lineages \cup [identity : Nat, board : Board]
  /\ None \notin [inputs : Staged, completed : BOOLEAN]
  /\ None \notin [kind : {"install", "backup", "restore", "reset"},
                  at : {"begin", "inputs", "start", "capture", "database", "anchor", "prove",
                        "deployment", "authority"},
                  inputs : Staged]

VARIABLES
  profile,      \* the workstation's directory: inputs, anchor, owner, binding
  host,         \* what each board holds
  restoreStage, \* the package uploaded to each board
  packages,     \* the authority packages the operator keeps
  op,           \* the command that runs, or what the last one reported
  agent,        \* the Host agent that holds the install lock of each board
  minted,       \* identities, Owners and Authority states so far
  commands, faults,   \* how many so far
  handed, recorded, proved   \* history: <<identity, board>> staged, recorded, established

vars == <<profile, host, restoreStage, packages, op, agent, minted, commands, faults,
          handed, recorded, proved>>

Lineage(owner, state) == [owner |-> owner, state |-> state]
Binding(identity, board) == [identity |-> identity, board |-> board]

EmptyProfile == [inputs |-> None, anchor |-> None, owner |-> None, binding |-> None]
EmptyHost == [marker |-> None, anchor |-> None, ticket |-> None, journal |-> None,
              identity |-> None, directory |-> None, installed |-> FALSE]
Idle == [cmd |-> "none", pc |-> "idle", board |-> None, decision |-> "none", lineage |-> None,
         answer |-> "none", moved |-> 0, before |-> EmptyProfile]

\* An operator with inputs nothing was delivered from, or with none; and with
\* the package of an Authority this Owner had on a board that is gone.
Init ==
  /\ profile \in {EmptyProfile, [inputs |-> 1, anchor |-> 1, owner |-> 1, binding |-> None]}
  /\ host = [b \in Board |-> EmptyHost]
  /\ restoreStage = [b \in Board |-> None]
  /\ packages = {Lineage(1, 1)}
  /\ op = Idle
  /\ agent = [b \in Board |-> None]
  /\ minted = [identity |-> 1, owner |-> 1, state |-> 1]
  /\ commands = 0 /\ faults = 0
  /\ handed = {} /\ recorded = {} /\ proved = {}

Fault(f) == f \in Faults /\ faults < MaxFaults /\ faults' = faults + 1
NoFault == UNCHANGED faults

-----------------------------------------------------------------------------
\* What a board holds.

\* lineage_evidence: established when marker and anchor agree.
Established(h) == IF h.marker = h.anchor THEN h.marker ELSE None

\* Every write to a board, and the history of what was established on it.
SetHost(b, h) ==
  /\ host' = [host EXCEPT ![b] = h]
  /\ proved' = proved \cup (IF Established(h) = None THEN {} ELSE {<<h.identity, b>>})

\* Hub (external): an empty database and a pending ticket establish an
\* Authority in two writes; anything else is served as it is, or not at all.
HubStarts(h) ==
  IF h.marker = None /\ h.anchor = None /\ h.ticket # None /\ h.ticket.pending
  THEN LET lineage == h.ticket.lineage IN
       {[h EXCEPT !.marker = lineage, !.anchor = lineage, !.ticket = None],
        [h EXCEPT !.marker = lineage], [h EXCEPT !.anchor = lineage]}
  ELSE {h}

-----------------------------------------------------------------------------
\* The situation an operation is in.

Decide(h, b, owner) ==
  IF h.marker # h.anchor THEN "host incident"
  ELSE IF h.marker # None /\ h.marker.owner # owner THEN "foreign authority"
  ELSE IF profile.binding # None
  THEN IF profile.binding # Binding(profile.inputs, b) THEN "wrong board"
       ELSE IF h.marker = None THEN "authority lost" ELSE "continue"
  ELSE IF h.marker = None THEN "first install"
  ELSE IF h.identity = profile.inputs /\ h.directory # None /\ h.directory.names = profile.inputs
  THEN "adopt delivery" ELSE "identity unproven"

HostEstablished(decision) == decision \in {"continue", "adopt delivery"}
RecordsDelivery(decision) == decision \in {"first install", "adopt delivery"}

\* bind_delivery: an absent binding is filled, another one is never replaced.
Record(b) ==
  /\ profile' = [profile EXCEPT !.binding = Binding(profile.inputs, b)]
  /\ recorded' = recorded \cup {<<profile.inputs, b>>}

-----------------------------------------------------------------------------
\* Commands.

Resting == op.pc \in {"idle", "reported"}
Goto(pc) == op' = [op EXCEPT !.pc = pc]
Report(answer) == op' = [op EXCEPT !.pc = "reported", !.answer = answer]
Hands(b) == handed' = handed \cup {<<profile.inputs, b>>}

FirstStep == [init |-> "inputs", replace |-> "renames", install |-> "observe",
              converge |-> "observe", trust |-> "observe", backup |-> "observe",
              restore |-> "upload", reset |-> "start agent"]

Command(cmd, b) ==
  /\ Resting /\ commands < MaxCommands
  /\ commands' = commands + 1
  /\ cmd \in {"replace", "reset"} => minted.identity < MaxMinted /\ minted.owner < MaxMinted
  /\ op' = [Idle EXCEPT !.cmd = cmd, !.board = b, !.pc = FirstStep[cmd], !.before = profile]
  /\ UNCHANGED <<profile, host, restoreStage, packages, agent, minted, faults, handed, recorded,
                 proved>>

Profile(p) ==
  /\ profile' = p
  /\ NoFault
  /\ UNCHANGED <<host, restoreStage, packages, agent, commands, handed, recorded, proved>>

\* initialize_install_inputs: one private directory with the identity kept
\* beside the input sets, or a new one.
InitInputs ==
  /\ op.pc = "inputs"
  /\ IF profile.inputs # None THEN Goto("owner") /\ Profile(profile) /\ UNCHANGED minted
     ELSE /\ Goto("anchor")
          /\ IF profile.anchor # None
             THEN Profile([profile EXCEPT !.inputs = profile.anchor]) /\ UNCHANGED minted
             ELSE /\ minted.identity < MaxMinted
                  /\ minted' = [minted EXCEPT !.identity = @ + 1]
                  /\ Profile([profile EXCEPT !.inputs = minted'.identity])

InitAnchor ==
  /\ op.pc = "anchor"
  /\ Goto("owner") /\ Profile([profile EXCEPT !.anchor = profile.inputs]) /\ UNCHANGED minted

\* ensure_owner_material: the Owner root is created when it is absent.
InitOwner ==
  /\ op.pc = "owner"
  /\ Report("ok")
  /\ IF profile.owner # None THEN Profile(profile) /\ UNCHANGED minted
     ELSE /\ minted.owner < MaxMinted
          /\ minted' = [minted EXCEPT !.owner = @ + 1]
          /\ Profile([profile EXCEPT !.owner = minted'.owner])

\* IdentityReplacement.commit: seven renames; what is absent is skipped.
Names == <<"inputs", "owner", "anchor", "binding">>

\* Mutant: the record of the delivery is retired first.
RenamedBindingFirst(n) ==
  IF n <= 4 THEN [profile EXCEPT ![<<"binding", "inputs", "owner", "anchor">>[n]] = None]
  ELSE IF Names[n - 4] = "owner" THEN [profile EXCEPT !.owner = minted.owner + 1]
  ELSE [profile EXCEPT ![Names[n - 4]] = minted.identity + 1]

Renamed(n) ==
  IF n <= 4 THEN [profile EXCEPT ![Names[n]] = None]
  ELSE IF Names[n - 4] = "owner" THEN [profile EXCEPT !.owner = minted.owner + 1]
  ELSE [profile EXCEPT ![Names[n - 4]] = minted.identity + 1]

Rename ==
  /\ op.pc = "renames"
  /\ Profile(Renamed(op.moved + 1))
  /\ IF op.moved + 1 = 7
     THEN /\ Report("ok")
          /\ minted' = [minted EXCEPT !.identity = @ + 1, !.owner = @ + 1]
     ELSE op' = [op EXCEPT !.moved = @ + 1] /\ UNCHANGED minted

\* A rename that raises undoes the ones before it.
RenameFails ==
  /\ op.pc = "renames" /\ Fault("rename_fails")
  /\ profile' = op.before
  /\ Report("failed")
  /\ UNCHANGED <<host, restoreStage, packages, agent, minted, commands, handed, recorded, proved>>

\* observe_install_context and decide_install, for install, converge, trust
\* and backup.  Observing writes nothing on the Host; an Owner root that is
\* missing is created here too.
Proceeds(decision) ==
  CASE op.cmd = "install" -> decision = "first install" \/ HostEstablished(decision)
    [] op.cmd = "backup" -> HostEstablished(decision) /\ host[op.board].installed
    [] OTHER -> HostEstablished(decision)

\* require_established_host and trust-host-delivery record the board on what
\* it proves, before anything else is done; an install waits for its end.
RecordsOnProof(decision) ==
  op.cmd \in {"converge", "trust"} /\ decision = "adopt delivery"

After == [install |-> "stage", converge |-> "stage", backup |-> "start agent", trust |-> "done"]

Observe ==
  LET h == host[op.board]
      decision == Decide(h, op.board, profile.owner)
      fresh == op.cmd = "install" /\ decision = "first install" IN
  /\ op.pc = "observe"
  /\ profile.owner # None \/ profile.inputs = None
  /\ fresh => minted.state < MaxMinted
  /\ IF profile.inputs = None \/ ~Proceeds(decision)
     THEN Report("refused") /\ UNCHANGED <<profile, recorded, minted>>
     ELSE /\ minted' = [minted EXCEPT !.state = IF fresh THEN @ + 1 ELSE @]
          /\ op' = [op EXCEPT
               !.pc = IF op.cmd = "trust" THEN "reported" ELSE After[op.cmd],
               !.answer = IF op.cmd = "trust" THEN "ok" ELSE @,
               !.decision = decision,
               !.lineage = IF fresh THEN Lineage(profile.owner, minted'.state) ELSE Established(h)]
          /\ IF RecordsOnProof(decision)
             THEN Record(op.board) ELSE UNCHANGED <<profile, recorded>>
  /\ NoFault
  /\ UNCHANGED <<host, restoreStage, packages, agent, commands, handed, proved>>

ObserveMintsOwner ==
  /\ op.pc = "observe" /\ profile.owner = None /\ profile.inputs # None
  /\ minted.owner < MaxMinted
  /\ minted' = [minted EXCEPT !.owner = @ + 1]
  /\ Profile([profile EXCEPT !.owner = minted'.owner])
  /\ UNCHANGED op

\* stage_install_files: the identity and every credential go to the board.
Stage ==
  /\ op.pc = "stage"
  /\ Hands(op.board)
  /\ IF op.cmd = "install" THEN Goto("start agent") ELSE Report("ok")
  /\ NoFault
  /\ UNCHANGED <<profile, host, restoreStage, packages, agent, minted, commands, recorded, proved>>

\* What an install stages: input_sha256 is the digest of this.
Inputs ==
  [identity |-> profile.inputs, lineage |-> op.lineage, pending |-> op.decision = "first install"]

\* The agents take the install lock without waiting for it.
Prepared(b) == op.cmd = "restore" => restoreStage[b] = op.lineage
FirstAgentStep == [install |-> "begin", backup |-> "capture", restore |-> "database",
                   reset |-> "deployment"]

StartAgent ==
  LET b == op.board IN
  /\ op.pc = "start agent"
  /\ IF agent[b] = None /\ Prepared(b)
     THEN /\ agent' = [agent EXCEPT ![b] =
               [kind |-> op.cmd, at |-> FirstAgentStep[op.cmd], inputs |-> Inputs]]
          /\ Goto("waits")
     ELSE /\ IF op.cmd = "restore" THEN op' = [op EXCEPT !.pc = "finalize", !.answer = "failed"]
             ELSE Report("refused")
          /\ UNCHANGED agent
  /\ NoFault
  /\ UNCHANGED <<profile, host, restoreStage, packages, minted, commands, handed, recorded, proved>>

Unanswered ==
  IF op.cmd = "restore" THEN op' = [op EXCEPT !.pc = "finalize", !.answer = "failed"]
  ELSE Report("failed")

\* The connection or the patience of the workstation ends before the agent.
LoseAnswer ==
  /\ op.pc = "waits" /\ Fault("answer_lost")
  /\ Unanswered
  /\ UNCHANGED <<profile, host, restoreStage, packages, agent, minted, commands, handed, recorded,
                 proved>>

\* confirm_authority_established, and the end of the other commands.
\* Mutant: the delivery is recorded whatever the Host reported.
ConfirmedUnasked == TRUE

Confirmed == op.answer = "ok"

Answered ==
  /\ op.pc = "answered"
  /\ CASE op.cmd = "restore" -> Goto("finalize") /\ UNCHANGED <<profile, recorded>>
       [] op.cmd = "reset" /\ op.answer = "ok" ->
            /\ op' = [op EXCEPT !.pc = "renames", !.before = profile]
            /\ UNCHANGED <<profile, recorded>>
       [] op.cmd = "install" /\ Confirmed /\ RecordsDelivery(op.decision) ->
            Report(op.answer) /\ Record(op.board)
       [] OTHER -> Report(op.answer) /\ UNCHANGED <<profile, recorded>>
  /\ NoFault
  /\ UNCHANGED <<host, restoreStage, packages, agent, minted, commands, handed, proved>>

\* authority_restore up to the agent: the package is checked against the
\* Owner root here, uploaded, and the Host layer rendered for it.
Upload ==
  /\ op.pc = "upload"
  /\ IF profile.inputs = None \/ ~host[op.board].installed
     THEN Report("refused") /\ UNCHANGED restoreStage
     ELSE \E package \in packages :
            /\ profile.owner \in {None, package.owner}
            /\ restoreStage' = [restoreStage EXCEPT ![op.board] = package]
            /\ op' = [op EXCEPT !.pc = "refresh", !.lineage = package]
  /\ NoFault
  /\ UNCHANGED <<profile, host, packages, agent, minted, commands, handed, recorded, proved>>

\* The Owner root is imported when absent; refresh() stages the identity and
\* replaces directory and ticket.  No board is asked for here, and no lock.
Refresh ==
  /\ op.pc = "refresh"
  /\ profile' = [profile EXCEPT !.owner = op.lineage.owner]
  /\ Hands(op.board)
  /\ SetHost(op.board, [host[op.board] EXCEPT
       !.directory = [owner |-> op.lineage.owner, names |-> profile.inputs],
       !.ticket = [lineage |-> op.lineage, pending |-> FALSE]])
  /\ Goto("start agent")
  /\ NoFault
  /\ UNCHANGED <<restoreStage, packages, agent, minted, commands, recorded>>

\* Any step of the command before its agent raises.
CommandFails ==
  /\ op.pc \in {"stage", "refresh"} /\ Fault("step_fails")
  /\ Unanswered
  /\ UNCHANGED <<profile, host, restoreStage, packages, agent, minted, commands, handed, recorded,
                 proved>>

\* Mutant: the upload is taken back only after a restore that went well.
StageOnceRestored == IF op.answer = "ok" THEN None ELSE restoreStage[op.board]

StageFinalized == None

\* _finalize_authority_restore_stage, on the way out of either path; no lock.
Finalize ==
  /\ op.pc = "finalize"
  /\ \/ /\ restoreStage' = [restoreStage EXCEPT ![op.board] = StageFinalized]
        /\ Report(op.answer) /\ NoFault
     \/ Fault("step_fails") /\ Report("cleanup unproven") /\ UNCHANGED restoreStage
  /\ UNCHANGED <<profile, host, packages, agent, minted, commands, handed, recorded, proved>>

OperatorDies ==
  /\ ~Resting /\ Fault("operator_dies")
  /\ op' = Idle
  /\ UNCHANGED <<profile, host, restoreStage, packages, agent, commands, handed, recorded, proved>>
  \* Half of a replacement leaves its new identity somewhere.
  /\ minted' = IF op.pc = "renames"
               THEN [minted EXCEPT !.identity = @ + 1, !.owner = @ + 1] ELSE minted

-----------------------------------------------------------------------------
\* Agents on a board.

Steps(b, at) == agent' = [agent EXCEPT ![b].at = at] /\ UNCHANGED op

\* The agent ends; whoever still waits for it learns how.
Ends(b, answer) ==
  /\ agent' = [agent EXCEPT ![b] = None]
  /\ op' = IF op.board = b /\ op.pc = "waits"
           THEN [op EXCEPT !.pc = "answered", !.answer = answer] ELSE op

AgentOnly ==
  NoFault /\ UNCHANGED <<profile, restoreStage, packages, minted, commands, handed, recorded>>

\* FirstInstall: the journal on record is continued with the same inputs, and
\* begun only in a namespace that holds nothing.
Begin(b) ==
  LET a == agent[b]   h == host[b] IN
  /\ a # None /\ a.at = "begin"
  /\ IF h.journal = None /\ h = EmptyHost
     THEN SetHost(b, [h EXCEPT !.journal = [inputs |-> a.inputs, completed |-> FALSE]])
          /\ Steps(b, "inputs")
     ELSE /\ UNCHANGED <<host, proved>>
          /\ IF h.journal # None /\ h.journal.inputs = a.inputs
             THEN IF h.journal.completed
                  THEN Ends(b, IF Established(h) = a.inputs.lineage THEN "ok" ELSE "failed")
                  ELSE Steps(b, "inputs")
             ELSE Ends(b, "failed")
  /\ AgentOnly

\* _install_prerequisites: what is already there must be the same.
InstallInputs(b) ==
  LET a == agent[b]   h == host[b] IN
  /\ a # None /\ a.at = "inputs"
  /\ SetHost(b, [h EXCEPT
       !.identity = a.inputs.identity,
       !.directory = [owner |-> a.inputs.lineage.owner, names |-> a.inputs.identity],
       !.ticket = [lineage |-> a.inputs.lineage, pending |-> a.inputs.pending]])
  /\ Steps(b, "start")
  /\ AgentOnly

\* Links, units enabled, started; the lineage is read back.
InstallStarts(b) ==
  LET a == agent[b] IN
  /\ a # None /\ a.at = "start"
  /\ \E h \in HubStarts([host[b] EXCEPT !.installed = TRUE]) :
       LET ready == Established(h) = a.inputs.lineage IN
       /\ IF ready THEN NoFault ELSE Fault("hub_dies")
       /\ SetHost(b, [h EXCEPT !.journal.completed = ready])
       /\ Ends(b, IF ready THEN "ok" ELSE "failed")
       /\ UNCHANGED <<profile, restoreStage, packages, minted, commands, handed, recorded>>

\* authority_restore.backup: marker and anchor must be what was asked for.
Capturable(b) == Established(host[b]) = agent[b].inputs.lineage

Capture(b) ==
  /\ agent[b] # None /\ agent[b].at = "capture"
  /\ packages' = IF Capturable(b) THEN packages \cup {agent[b].inputs.lineage} ELSE packages
  /\ Ends(b, IF Capturable(b) THEN "ok" ELSE "failed")
  /\ NoFault
  /\ UNCHANGED <<profile, host, restoreStage, minted, commands, handed, recorded, proved>>

\* authority_restore.restore: database and anchor are two renames out of a
\* stage that nothing locks.
Replaces(b, at, h, next) ==
  /\ agent[b] # None /\ agent[b].at = at
  /\ IF restoreStage[b] = None THEN Ends(b, "failed") /\ UNCHANGED <<host, proved>>
     ELSE SetHost(b, h) /\ Steps(b, next)
  /\ AgentOnly

RestoreDatabase(b) ==
  Replaces(b, "database", [host[b] EXCEPT !.marker = restoreStage[b]], "anchor")
RestoreAnchor(b) ==
  Replaces(b, "anchor", [host[b] EXCEPT !.anchor = restoreStage[b]], "prove")

\* Mutant: the files are in place, the Hub is up: restored.
RestoredUnproven(b) == TRUE

Restored(b) == Established(host[b]) = agent[b].inputs.lineage

Prove(b) ==
  /\ agent[b] # None /\ agent[b].at = "prove"
  /\ Ends(b, IF Restored(b) THEN "ok" ELSE "failed")
  /\ AgentOnly /\ UNCHANGED <<host, proved>>

\* reset_host --wipe: deployment roots first, then the authority roots.
ResetDeployment(b) ==
  /\ agent[b] # None /\ agent[b].at = "deployment"
  /\ SetHost(b, [host[b] EXCEPT !.directory = None, !.installed = FALSE])
  /\ Steps(b, "authority")
  /\ AgentOnly

ResetAuthority(b) ==
  /\ agent[b] # None /\ agent[b].at = "authority"
  /\ SetHost(b, EmptyHost)
  /\ restoreStage' = [restoreStage EXCEPT ![b] = None]
  /\ Ends(b, "ok")
  /\ NoFault
  /\ UNCHANGED <<profile, packages, minted, commands, handed, recorded>>

\* A step of an agent raises, or the agent is killed.  A removal that stops
\* halfway leaves any part of what it was removing.
AgentStops(b) ==
  /\ agent[b] # None
  /\ Fault("agent_stops")
  /\ Ends(b, "failed")
  /\ \/ UNCHANGED <<host, proved>>
     \/ /\ agent[b].at = "authority"
        /\ \E gone \in SUBSET {"marker", "anchor", "ticket", "journal"} :
             SetHost(b, [f \in DOMAIN EmptyHost |-> IF f \in gone THEN None ELSE host[b][f]])
  /\ UNCHANGED <<profile, restoreStage, packages, minted, commands, handed, recorded>>

\* Another workstation of this Owner stages or clears a package of its own for
\* the same release, which is the same directory; no lock is asked for.  Bound:
\* while this workstation waits for its restore.
OtherStages(b) ==
  /\ op.cmd = "restore" /\ op.pc = "waits" /\ op.board = b /\ Fault("other_stages")
  /\ \E package \in packages \cup {None} :
       restoreStage' = [restoreStage EXCEPT ![b] = package]
  /\ UNCHANGED <<profile, host, packages, op, agent, minted, commands, handed, recorded, proved>>

\* The Host goes down with its agent, and comes up with its units.
HostReboots(b) ==
  /\ Fault("host_reboots")
  /\ IF agent[b] # None THEN Ends(b, "failed") ELSE UNCHANGED <<agent, op>>
  /\ \E h \in IF host[b].installed THEN HubStarts(host[b]) ELSE {host[b]} : SetHost(b, h)
  /\ UNCHANGED <<profile, restoreStage, packages, minted, commands, handed, recorded>>

-----------------------------------------------------------------------------
OperatorNext ==
  \/ \E cmd \in DOMAIN FirstStep, b \in Board : Command(cmd, b)
  \/ InitInputs \/ InitAnchor \/ InitOwner
  \/ Rename \/ RenameFails
  \/ Observe \/ ObserveMintsOwner \/ Stage \/ StartAgent \/ LoseAnswer \/ Answered
  \/ Upload \/ Refresh \/ CommandFails \/ Finalize \/ OperatorDies

AgentNext(b) ==
  \/ Begin(b) \/ InstallInputs(b) \/ InstallStarts(b)
  \/ Capture(b)
  \/ RestoreDatabase(b) \/ RestoreAnchor(b) \/ Prove(b)
  \/ ResetDeployment(b) \/ ResetAuthority(b)
  \/ AgentStops(b) \/ OtherStages(b) \/ HostReboots(b)

Next == OperatorNext \/ \E b \in Board : AgentNext(b)

Spec == Init /\ [][Next]_vars
-----------------------------------------------------------------------------
\* Properties.

\* "Recorded once the Host proves it" (controller.py:1603): a profile that
\* records a board holds the identity that was on that board when it had an
\* Authority established, through lost answers, dead operators, and a
\* replacement of the identity cut anywhere.
RecordedWasEstablished ==
  profile.binding # None => <<profile.binding.identity, profile.binding.board>> \in proved

\* One profile's credentials are never handed to a second board that happens
\* to answer (controller.py:1636): once an identity was recorded on a board,
\* only the explicit complete restore stages it anywhere else, and neither an
\* interrupted replacement nor its undo loses the record while the identity
\* is still in use.
RecordedIdentityStays ==
  [][\A identity \in 1 .. MaxMinted, b \in Board :
       <<identity, b>> \in handed' \ handed /\ op.cmd # "restore" =>
         \A other \in Board \ {b} : <<identity, other>> \notin recorded]_vars

\* An install, a backup or a restore that reports success leaves marker and
\* anchor of the board at the Authority it was about, whoever else wrote to
\* the stage or was still at work there.
EvidenceIsOfAWhole ==
  op.pc = "reported" /\ op.answer = "ok" /\ op.cmd \in {"install", "backup", "restore"} =>
    /\ Established(host[op.board]) = op.lineage
    /\ op.cmd = "backup" => op.lineage \in packages

\* "Require positive proof that the sensitive upload is absent"
\* (controller.py:249): a restore that uploaded its package and came to an end,
\* well or not, leaves no database and no anchor in /var/tmp, or says that it
\* may have.
UploadTakenBack ==
  op.pc = "reported" /\ op.cmd = "restore" /\ op.lineage # None
  /\ op.answer # "cleanup unproven" =>
    restoreStage[op.board] = None

\* "same commit/input digests resume" (docs/architecture-audit.md:120): an
\* install that finds its own unfinished journal, with the profile's identity
\* and Owner unchanged, presents the inputs the journal records.
ResumeKeepsInputs ==
  \A b \in Board :
    LET a == agent[b]   j == host[b].journal IN
    /\ a # None /\ a.kind = "install" /\ a.at = "begin"
    /\ j # None /\ ~j.completed
    /\ j.inputs.identity = a.inputs.identity /\ j.inputs.lineage.owner = a.inputs.lineage.owner
    => j.inputs = a.inputs
=============================================================================
