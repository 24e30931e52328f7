------------------------ MODULE TargetInstallProofs ------------------------
(***************************************************************************)
(* JournalNeverAhead, NeverServesHalf, InstalledAsRecorded and             *)
(* FailureStopsProduct hold of TargetInstall for any number of             *)
(* workstations, releases, inputs and components and any number of faults. *)
(* Only InstalledAsRecorded needs a fault left out, as its run does: that  *)
(* a second workstation stages while the agent of the first one runs.      *)
(***************************************************************************)
EXTENDS TargetInstall, FiniteSetTheorems, TLAPS

HostType ==
  [identities : BOOLEAN, files : [Input -> Version \cup {None}],
   database : {"absent", "partial", "ready"}, assets : Release \cup {None},
   links : [Component -> Release \cup {None}], enabled : BOOLEAN]
JournalType ==
  [file : {"none", "dir", "written"}, phase : Validated .. Completed,
   status : {"running", "failed", "completed"}, inputs : Version \cup {None}]

InstallTyped ==
  /\ journal \in [Release -> JournalType]
  /\ host \in HostType
  /\ units \in {"stopped", "starting", "up"}
  /\ stage \in Version \cup {None}
  /\ agent \in [Driver -> Agent]

\* The work of every phase up to this one is on the Host (for release r).
AsFar(r, phase) ==
  /\ phase >= Identities    => host.identities
  /\ phase >= Prerequisites => \A i \in Input : host.files[i] # None
  /\ phase >= Baseline      => host.database = "ready"
  /\ phase >= Assets        => host.assets = r /\ Linked(r) /\ host.enabled

\* The lock has one holder, and the namespace one owner.
OneHolder ==
  \A d, e \in Driver : agent[d].pc \in Holding /\ agent[e].pc \in Holding => d = e
OneOwner == \A r, s \in Written : r = s

\* The last phase is recorded with the status, so no resume starts after it.
CompletedSaysSo ==
  \A r \in Release : journal[r].phase = Completed => journal[r].status = "completed"

\* An agent about to write the first record stands on an empty namespace.
EmptyAtBegin ==
  \A d \in Driver : agent[d].pc = "mkdir" =>
    /\ \A c \in Component : host.links[c] = None
    /\ \A i \in Input : host.files[i] = None
    /\ ~host.identities
    /\ Written = {} /\ agent[d].phase = Validated

Installing == Working \cup {"quiesce", "failing"}

\* The phase an agent carries is the one on record, for its release and inputs.
OnRecord ==
  \A d \in Driver : agent[d].pc \in Installing =>
    /\ Mine(d).file = "written" /\ Mine(d).inputs = agent[d].inputs
    /\ Mine(d).phase = agent[d].phase /\ agent[d].phase < Completed

\* What an agent copied is in place, and what it found out is not forgotten.
Copied ==
  \A d \in Driver :
    /\ \A i \in agent[d].copied : host.files[i] # None
    /\ agent[d].pc \in Holding \cup {"lock"} => agent[d].inputs # None

\* Where an agent is says which phase it works on and what of it is done.
WorkDone(d) ==
  LET a == agent[d] IN
  /\ a.pc = "identities" => a.phase = Validated
  /\ a.pc = "prerequisites" => a.phase >= Identities
  /\ a.pc \in {"baseline", "migrated"} => a.phase = Prerequisites
  /\ a.pc \in {"assets", "switch"} => a.phase = Baseline
  /\ a.pc = "switch" => host.assets = a.release
  /\ a.pc \in {"start", "ready"} => a.phase = Assets
  /\ a.pc \in {"ingress", "doctor"} => a.phase >= Assets
  /\ a.pc = "record" => AsFar(a.release, a.phase + 1)

Progress == \A d \in Driver : WorkDone(d)

\* Enabled units may come up at any reboot, so all must be there by then.
EnabledIsWhole ==
  host.enabled => \E r \in Written : AsFar(r, Assets)

RunsEnabled == units # "stopped" => host.enabled

\* An agent that will report a failure has seen to the product before.
Quiesced ==
  \A d \in Driver :
    agent[d].pc = "failing" /\ agent[d].phase >= Assets /\ ~agent[d].stopError =>
      units = "stopped"

IInv ==
  /\ InstallTyped
  /\ OneHolder
  /\ OneOwner
  /\ JournalNeverAhead
  /\ CompletedSaysSo
  /\ EmptyAtBegin
  /\ OnRecord
  /\ Copied
  /\ Progress
  /\ EnabledIsWhole
  /\ RunsEnabled
  /\ Quiesced

\* An agent's inputs are the ones on the stage, as long as nobody stages again.
StageKept ==
  \A d \in Driver : agent[d].pc \in Holding \cup {"lock"} => stage \in {None, agent[d].inputs}

\* What is in place is what the record names.
Accounted ==
  /\ \A r \in Written, i \in Input : host.files[i] \in {None, journal[r].inputs}
  /\ \A c \in Component : host.links[c] \in Written \cup {None}
  /\ host.identities => Written # {}

-----------------------------------------------------------------------------
(* What a step leaves alone                                                 *)

Others(d) == \A e \in Driver \ {d} : agent'[e] = agent[e]

\* The agent of d moves on, and nothing else about it changes.
Moves(d, pc) ==
  /\ agent' \in [Driver -> Agent]
  /\ Others(d)
  /\ agent'[d].pc = pc
  /\ agent'[d].release = agent[d].release /\ agent'[d].inputs = agent[d].inputs
  /\ agent'[d].phase = agent[d].phase /\ agent'[d].copied = agent[d].copied
  /\ agent'[d].stopError = agent[d].stopError

\* The record Goto leaves is an agent's, changed in its place only.
LEMMA GotoMoves ==
  ASSUME InstallTyped, NEW d \in Driver, NEW pc \in Step, Goto(d, pc)
  PROVE  Moves(d, pc)
<1>1. agent \in [Driver -> Agent] /\ agent[d] \in Agent
  BY DEF InstallTyped
<1>2. agent' = [agent EXCEPT ![d] = [agent[d] EXCEPT !.pc = pc]]
  BY DEF Goto
<1>3. [agent[d] EXCEPT !.pc = pc] \in Agent
  BY <1>1 DEF Agent
<1> QED BY <1>1, <1>2, <1>3 DEF Moves, Others, Agent

\* A step that only moves one agent, and perhaps the units or the stage, keeps
\* the invariant if what the agent finds at its new place is true there.
LEMMA MoveKeeps ==
  ASSUME IInv, NEW d \in Driver, NEW pc \in Step, Moves(d, pc),
         journal' = journal, host' = host,
         units' \in {"stopped", "starting", "up"}, stage' \in Version \cup {None},
         pc \in Holding => agent[d].pc \in Holding, pc \notin {"mkdir", "lock"},
         pc \in Installing => agent[d].pc \in Installing,
         WorkDone(d)', RunsEnabled', Quiesced'
  PROVE  IInv'
<1> USE DEF Moves, Others
<1>1. InstallTyped'
  BY DEF IInv, InstallTyped
<1>2. OneHolder'
  BY DEF IInv, OneHolder
<1>3. OneOwner' /\ JournalNeverAhead' /\ CompletedSaysSo'
  BY DEF IInv, OneOwner, JournalNeverAhead, CompletedSaysSo, Written, Linked
<1>4. EmptyAtBegin'
  BY DEF IInv, EmptyAtBegin, Written
<1>5. OnRecord'
  BY DEF IInv, OnRecord, Mine
<1>6. Copied'
  BY DEF IInv, Copied
<1>7. Progress'
  BY DEF IInv, Progress, WorkDone, AsFar, Linked
<1>8. EnabledIsWhole'
  BY DEF IInv, EnabledIsWhole, AsFar, Linked, Written
<1> QED BY <1>1, <1>2, <1>3, <1>4, <1>5, <1>6, <1>7, <1>8 DEF IInv

\* Nothing that is there is taken away again.
HostGrows ==
  /\ host.identities => host'.identities
  /\ \A i \in Input : host.files[i] # None => host'.files[i] # None
  /\ host.database = "ready" => host'.database = "ready"
  /\ \A r \in Written : AsFar(r, Assets) => AsFar(r, Assets)'

\* What a record says is there is still there when the Host has only grown.
LEMMA GrownAsFar ==
  ASSUME InstallTyped, HostGrows, NEW r \in Written, NEW phase \in Nat, AsFar(r, phase)
  PROVE  AsFar(r, phase)'
<1>1. CASE phase < Assets
  BY <1>1 DEF HostGrows, AsFar, Identities, Prerequisites, Baseline, Assets
<1>2. CASE phase >= Assets
  <2>1. AsFar(r, Assets)
    BY <1>2 DEF AsFar, Identities, Prerequisites, Baseline, Assets
  <2>2. AsFar(r, Assets)'
    BY <2>1 DEF HostGrows
  <2> QED BY <2>2, <1>2 DEF AsFar, Identities, Prerequisites, Baseline, Assets
<1> QED BY <1>1, <1>2 DEF Assets

\* The record of every phase, put the way AsFar puts it.
LEMMA NeverAhead ==
  JournalNeverAhead <=> \A r \in Written : AsFar(r, journal[r].phase)
BY DEF JournalNeverAhead, AsFar

\* A step of the agent at work that builds something on the Host keeps the
\* invariant if it takes nothing away and what it did next is true.
LEMMA BuildKeeps ==
  ASSUME IInv, NEW d \in Driver, agent[d].pc \in Working,
         NEW pc \in Working, Moves(d, pc), UNCHANGED <<journal, units, stage>>,
         host' \in HostType, HostGrows, WorkDone(d)',
         host'.enabled => host.enabled \/ AsFar(agent[d].release, Assets)'
  PROVE  IInv'
<1> USE DEF Moves, Others
<1>1. InstallTyped'
  BY DEF IInv, InstallTyped
<1>2. agent[d].pc \in Holding /\ pc \in Holding /\ agent[d].pc \in Installing
  BY DEF Holding, Installing
<1>3. OneHolder' /\ \A e \in Driver \ {d} : agent[e].pc \notin Holding
  BY <1>2 DEF IInv, OneHolder
<1>4. agent[d].release \in Written /\ Mine(d).phase = agent[d].phase
  BY <1>2 DEF IInv, OnRecord, Mine, Written, InstallTyped, Agent
<1>5. OneOwner' /\ CompletedSaysSo' /\ Written' = Written
  BY DEF IInv, OneOwner, CompletedSaysSo, Written
<1>6. JournalNeverAhead'
  <2>1. ASSUME NEW r \in Written
        PROVE  AsFar(r, journal[r].phase)'
    <3>1. journal[r].phase \in Nat /\ AsFar(r, journal[r].phase)
      BY NeverAhead DEF IInv, InstallTyped, JournalType, Written, Validated, Completed
    <3> QED BY <3>1, GrownAsFar DEF IInv
  <2> QED BY <2>1, <1>5 DEF JournalNeverAhead, AsFar
<1>7. EmptyAtBegin'
  BY <1>3 DEF IInv, EmptyAtBegin, Holding, Working
<1>8. OnRecord'
  BY <1>2 DEF IInv, OnRecord, Mine
<1>9. Copied'
  BY <1>2, <1>3 DEF IInv, Copied, HostGrows, InstallTyped, Agent
<1>10. Progress'
  BY <1>3 DEF IInv, Progress, WorkDone, Holding, Working
<1>11. EnabledIsWhole'
  BY <1>4, <1>5 DEF IInv, EnabledIsWhole, HostGrows
<1>12. RunsEnabled'
  <2>1. host.enabled => host'.enabled
    BY DEF IInv, EnabledIsWhole, HostGrows, AsFar, Assets
  <2> QED BY <2>1 DEF IInv, RunsEnabled
<1>13. Quiesced'
  BY DEF IInv, Quiesced, Working
<1> QED BY <1>1, <1>3, <1>5, <1>6, <1>7, <1>8, <1>9, <1>10, <1>11, <1>12, <1>13 DEF IInv

-----------------------------------------------------------------------------
(* The workstation and the entry                                            *)


\* A new attempt starts outside the lock.
LEMMA AttemptKeeps ==
  ASSUME IInv, NEW d \in Driver, NEW r \in Release, NEW v \in Version, Attempt(d, r, v)
  PROVE  IInv'
<1>1. InstallTyped'
  BY DEF IInv, InstallTyped, Attempt, Agent, Step, Validated, Completed
<1>2. Others(d) /\ agent'[d].pc = "staged" /\ agent'[d].copied = {}
  BY DEF IInv, InstallTyped, Attempt, Others
<1>3. UNCHANGED <<journal, host, units>>
  BY DEF Attempt
<1> USE DEF Others
<1>4. OneHolder' /\ OnRecord' /\ Copied'
  BY <1>2, <1>3 DEF IInv, OneHolder, OnRecord, Copied, Mine, Holding, Installing, Working
<1>5. OneOwner' /\ JournalNeverAhead' /\ CompletedSaysSo'
  BY <1>3 DEF IInv, OneOwner, JournalNeverAhead, CompletedSaysSo, Written, Linked
<1>6. EmptyAtBegin' /\ Quiesced' /\ RunsEnabled'
  BY <1>2, <1>3 DEF IInv, EmptyAtBegin, Quiesced, RunsEnabled, Written
<1>7. Progress'
  BY <1>2, <1>3 DEF IInv, Progress, WorkDone, AsFar, Linked
<1>8. EnabledIsWhole'
  BY <1>3 DEF IInv, EnabledIsWhole, AsFar, Linked, Written
<1> QED BY <1>1, <1>4, <1>5, <1>6, <1>7, <1>8 DEF IInv

\* Taking the stage away, under the agent or not, touches nothing on record.
LEMMA StageKeeps ==
  ASSUME IInv, UNCHANGED <<journal, host, units, agent>>, stage' \in Version \cup {None}
  PROVE  IInv'
<1>1. InstallTyped' /\ OneHolder' /\ OnRecord' /\ Copied'
  BY DEF IInv, InstallTyped, OneHolder, OnRecord, Copied, Mine
<1>2. OneOwner' /\ JournalNeverAhead' /\ CompletedSaysSo'
  BY DEF IInv, OneOwner, JournalNeverAhead, CompletedSaysSo, Written, Linked
<1>3. EmptyAtBegin' /\ Quiesced' /\ RunsEnabled'
  BY DEF IInv, EmptyAtBegin, Quiesced, RunsEnabled, Written
<1>4. Progress' /\ EnabledIsWhole'
  BY DEF IInv, Progress, EnabledIsWhole, WorkDone, AsFar, Linked, Written
<1> QED BY <1>1, <1>2, <1>3, <1>4 DEF IInv

\* The stage is gone when the call returns.
LEMMA CleanupKeeps ==
  ASSUME IInv, NEW d \in Driver, Cleanup(d)
  PROVE  IInv'
<1>1. Moves(d, "idle")
  BY GotoMoves DEF IInv, Cleanup, Step
<1>2. WorkDone(d)' /\ RunsEnabled' /\ Quiesced'
  BY <1>1 DEF IInv, Cleanup, Moves, Others, WorkDone, RunsEnabled, Quiesced
<1> QED
  BY <1>1, <1>2, MoveKeeps
  DEF IInv, InstallTyped, Cleanup, Step, Holding, Working, Installing

\* The digests are of what is staged now.
LEMMA InputDigestsKeeps ==
  ASSUME IInv, NEW d \in Driver, InputDigests(d)
  PROVE  IInv'
<1> DEFINE pc == IF stage = None THEN "cleanup" ELSE "lock"
<1>1. /\ agent[d] \in Agent
      /\ agent' = [agent EXCEPT ![d] = [agent[d] EXCEPT !.pc = pc, !.inputs = stage]]
  BY DEF IInv, InstallTyped, InputDigests
<1>2. [agent[d] EXCEPT !.pc = pc, !.inputs = stage] \in Agent
  BY <1>1 DEF IInv, InstallTyped, Agent, Step
<1>3. /\ InstallTyped' /\ Others(d)
      /\ agent'[d].pc = pc /\ agent'[d].inputs = stage /\ agent'[d].copied = agent[d].copied
  BY <1>1, <1>2 DEF IInv, InstallTyped, InputDigests, Others, Agent
<1>4. UNCHANGED <<journal, host, units>> /\ (pc = "lock" => stage # None)
      /\ pc \in {"cleanup", "lock"}
  BY DEF InputDigests
<1> HIDE DEF pc
<1> USE DEF Others
<1>5. OneHolder' /\ OnRecord' /\ Copied'
  BY <1>3, <1>4 DEF IInv, OneHolder, OnRecord, Copied, Mine, Holding, Installing, Working
<1>6. OneOwner' /\ JournalNeverAhead' /\ CompletedSaysSo'
  BY <1>4 DEF IInv, OneOwner, JournalNeverAhead, CompletedSaysSo, Written, Linked
<1>7. EmptyAtBegin' /\ Quiesced' /\ RunsEnabled'
  BY <1>3, <1>4 DEF IInv, EmptyAtBegin, Quiesced, RunsEnabled, Written
<1>8. Progress'
  BY <1>3, <1>4 DEF IInv, Progress, WorkDone, AsFar, Linked
<1>9. EnabledIsWhole'
  BY <1>4 DEF IInv, EnabledIsWhole, AsFar, Linked, Written
<1> QED BY <1>3, <1>5, <1>6, <1>7, <1>8, <1>9 DEF IInv

\* The lock is taken only from nobody.
LEMMA ExclusiveKeeps ==
  ASSUME IInv, NEW d \in Driver, Exclusive(d)
  PROVE  IInv'
<1>1. CASE \E e \in Driver : agent[e].pc \in Holding
  <2>1. Moves(d, "cleanup")
    BY <1>1, GotoMoves DEF IInv, Exclusive, Step
  <2>2. WorkDone(d)' /\ RunsEnabled' /\ Quiesced'
    BY <2>1 DEF IInv, Exclusive, Moves, Others, WorkDone, RunsEnabled, Quiesced
  <2> QED
    BY <2>1, <2>2, MoveKeeps
    DEF IInv, InstallTyped, Exclusive, Step, Holding, Working, Installing
<1>2. CASE ~\E e \in Driver : agent[e].pc \in Holding
  <2>1. Moves(d, "load") /\ agent[d].pc = "lock"
    BY <1>2, GotoMoves DEF IInv, Exclusive, At, Step, Holding
  <2>2. UNCHANGED <<journal, host, units, stage>>
    BY DEF Exclusive
  <2> USE DEF Moves, Others
  <2>3. InstallTyped' /\ OnRecord' /\ Copied'
    BY <2>1, <2>2 DEF IInv, InstallTyped, OnRecord, Copied, Mine, Installing, Working
  <2>4. OneHolder'
    BY <1>2, <2>1 DEF OneHolder
  <2>5. OneOwner' /\ JournalNeverAhead' /\ CompletedSaysSo'
    BY <2>2 DEF IInv, OneOwner, JournalNeverAhead, CompletedSaysSo, Written, Linked
  <2>6. EmptyAtBegin' /\ Quiesced' /\ RunsEnabled'
    BY <2>1, <2>2 DEF IInv, EmptyAtBegin, Quiesced, RunsEnabled, Written
  <2>7. Progress'
    BY <2>1, <2>2 DEF IInv, Progress, WorkDone, AsFar, Linked
  <2>8. EnabledIsWhole'
    BY <2>2 DEF IInv, EnabledIsWhole, AsFar, Linked, Written
  <2> QED BY <2>3, <2>4, <2>5, <2>6, <2>7, <2>8 DEF IInv
<1> QED BY <1>1, <1>2

\* An install is taken up where the record says, or begun on an empty namespace.
LEMMA LoadKeeps ==
  ASSUME IInv, NEW d \in Driver, Load(d)
  PROVE  IInv'
<1> DEFINE fresh == Mine(d).file # "written" /\ Clean
           pc == IF Resumable(d)
                 THEN IF Mine(d).status = "completed" THEN "recheck" ELSE EnterAt(Mine(d).phase)
                 ELSE IF fresh THEN "mkdir" ELSE "cleanup"
           phase == IF Resumable(d) THEN Mine(d).phase ELSE Validated
<1>1. /\ agent[d] \in Agent /\ agent[d].pc = "load" /\ Mine(d) \in JournalType
      /\ agent' = [agent EXCEPT ![d] = [agent[d] EXCEPT !.pc = pc, !.phase = phase]]
  BY DEF IInv, InstallTyped, Load, At, Agent, Mine
<1>2. pc \in {"recheck", "mkdir", "cleanup", "identities", "prerequisites"}
  BY DEF EnterAt
<1>3. phase \in Validated .. Completed
  BY <1>1 DEF JournalType, Validated, Completed
<1>4. UNCHANGED <<journal, host, units, stage>>
  BY DEF Load
<1>5. pc = "mkdir" => Clean /\ Mine(d).file # "written" /\ phase = Validated
  BY DEF EnterAt
<1>6. pc \in {"identities", "prerequisites"} =>
        /\ Mine(d).file = "written" /\ Mine(d).inputs = agent[d].inputs
        /\ Mine(d).phase = phase /\ Mine(d).status # "completed"
        /\ (pc = "identities" <=> phase = Validated)
  BY DEF EnterAt, Resumable
<1> HIDE DEF pc, phase
<1>7. [agent[d] EXCEPT !.pc = pc, !.phase = phase] \in Agent
  BY <1>1, <1>2, <1>3 DEF Agent, Step, Holding, Working
<1>8. /\ agent' \in [Driver -> Agent] /\ Others(d)
      /\ agent'[d].pc = pc /\ agent'[d].phase = phase /\ agent'[d].release = agent[d].release
      /\ agent'[d].inputs = agent[d].inputs /\ agent'[d].copied = agent[d].copied
  BY <1>1, <1>7 DEF IInv, InstallTyped, Others, Agent
<1> USE DEF Others
<1>9. InstallTyped'
  BY <1>4, <1>8 DEF IInv, InstallTyped
<1>10. OneHolder' /\ Copied'
  BY <1>1, <1>4, <1>8 DEF IInv, OneHolder, Copied, Holding
<1>11. OneOwner' /\ JournalNeverAhead' /\ CompletedSaysSo'
  BY <1>4 DEF IInv, OneOwner, JournalNeverAhead, CompletedSaysSo, Written, Linked
<1>12. EmptyAtBegin'
  BY <1>4, <1>5, <1>8 DEF IInv, EmptyAtBegin, Clean, Written
<1>13. OnRecord'
  <2>1. ASSUME pc \in Installing
        PROVE  /\ Mine(d).file = "written" /\ Mine(d).inputs = agent[d].inputs
               /\ Mine(d).phase = phase /\ phase < Completed
    <3>1. pc \in {"identities", "prerequisites"}
      BY <1>2, <2>1 DEF Installing, Working
    <3>2. phase # Completed
      BY <1>1, <1>6, <3>1 DEF IInv, CompletedSaysSo, Mine, Agent
    <3> QED BY <1>3, <1>6, <3>1, <3>2 DEF Validated, Completed
  <2> QED BY <2>1, <1>4, <1>8 DEF IInv, OnRecord, Mine
<1>14. Progress'
  <2>1. WorkDone(d)'
    BY <1>2, <1>3, <1>6, <1>8 DEF WorkDone, Validated, Identities, Completed
  <2> QED BY <2>1, <1>4, <1>8 DEF IInv, Progress, WorkDone, AsFar, Linked
<1>15. EnabledIsWhole' /\ RunsEnabled' /\ Quiesced'
  <2>1. EnabledIsWhole' /\ RunsEnabled'
    BY <1>4 DEF IInv, EnabledIsWhole, RunsEnabled, AsFar, Linked, Written
  <2> QED BY <2>1, <1>2, <1>4, <1>8 DEF IInv, Quiesced
<1> QED BY <1>9, <1>10, <1>11, <1>12, <1>13, <1>14, <1>15 DEF IInv

\* The directory is no record yet.
LEMMA EvidenceDirectoryKeeps ==
  ASSUME IInv, NEW d \in Driver, EvidenceDirectory(d)
  PROVE  IInv'
<1>1. /\ journal' \in [Release -> JournalType] /\ Written' = Written
      /\ \A r \in Written : journal'[r] = journal[r]
      /\ \A r \in Release :
           journal'[r].phase = journal[r].phase /\ journal'[r].status = journal[r].status
  BY DEF IInv, InstallTyped, EvidenceDirectory, Mine, Agent, JournalType, Written
<1>2. UNCHANGED <<host, units, stage, agent>>
  BY DEF EvidenceDirectory
<1>3. InstallTyped' /\ OneHolder' /\ Copied'
  BY <1>1, <1>2 DEF IInv, InstallTyped, OneHolder, Copied
<1>4. OneOwner' /\ EmptyAtBegin'
  BY <1>1, <1>2 DEF IInv, OneOwner, EmptyAtBegin
<1>5. CompletedSaysSo'
  BY <1>1 DEF IInv, CompletedSaysSo, Completed
<1>6. RunsEnabled' /\ Quiesced'
  BY <1>2 DEF IInv, RunsEnabled, Quiesced
<1>7. JournalNeverAhead'
  BY <1>1, <1>2 DEF IInv, JournalNeverAhead, Linked
<1>8. OnRecord'
  BY <1>1, <1>2 DEF IInv, InstallTyped, Agent, OnRecord, Mine, Written
<1>9. Progress' /\ EnabledIsWhole'
  BY <1>1, <1>2 DEF IInv, Progress, EnabledIsWhole, WorkDone, AsFar, Linked
<1> QED BY <1>3, <1>4, <1>5, <1>6, <1>7, <1>8, <1>9 DEF IInv

\* The first record is of the release and the inputs the agent carries; nobody
\* else has one.
LEMMA BeginKeeps ==
  ASSUME IInv, NEW d \in Driver, Begin(d)
  PROVE  IInv'
<1> DEFINE r == agent[d].release
           first == [file |-> "written", phase |-> Validated, status |-> "running",
                     inputs |-> agent[d].inputs]
<1>1. Moves(d, "identities") /\ agent[d].pc = "mkdir"
  BY GotoMoves DEF IInv, Begin, At, Step, Holding, Working
<1>2. /\ r \in Release /\ first \in JournalType
      /\ journal' = [journal EXCEPT ![r] = first] /\ UNCHANGED <<host, units, stage>>
  BY DEF IInv, InstallTyped, Begin, Agent, JournalType, Validated, Completed
<1>3. /\ Written = {} /\ agent[d].phase = Validated
      /\ \A e \in Driver \ {d} : agent[e].pc \notin Holding
  BY <1>1 DEF IInv, EmptyAtBegin, OneHolder, Holding
<1>4. journal' \in [Release -> JournalType] /\ journal'[r] = first /\ Written' = {r}
      /\ \A s \in Release \ {r} : journal'[s] = journal[s]
  BY <1>2, <1>3 DEF IInv, InstallTyped, Written
<1>5. agent[d] \in Agent
  BY DEF IInv, InstallTyped
<1> USE DEF Moves, Others
<1> HIDE DEF r
<1>6. InstallTyped'
  BY <1>1, <1>2, <1>4 DEF IInv, InstallTyped
<1>7. OneHolder' /\ Copied'
  BY <1>1, <1>2 DEF IInv, OneHolder, Copied, Holding
<1>8. OneOwner' /\ CompletedSaysSo'
  BY <1>4 DEF IInv, OneOwner, CompletedSaysSo, Validated, Completed
<1>9. JournalNeverAhead'
  BY <1>4 DEF JournalNeverAhead, Validated, Identities, Prerequisites, Baseline, Assets
<1>10. EmptyAtBegin'
  BY <1>1, <1>3 DEF EmptyAtBegin, Holding
<1>11. OnRecord'
  <2>1. \A e \in Driver \ {d} : agent'[e].pc \notin Installing
    BY <1>1, <1>3 DEF Installing, Holding
  <2>2. agent'[d].release = r /\ agent'[d].inputs = agent[d].inputs
    BY <1>1 DEF r
  <2>3. agent'[d].phase = Validated
    BY <1>1, <1>3
  <2> QED BY <2>1, <2>2, <2>3, <1>4 DEF OnRecord, Mine, Validated, Completed
<1>12. Progress'
  BY <1>1, <1>3 DEF Progress, WorkDone, Holding, Working
<1>13. EnabledIsWhole'
  BY <1>2, <1>3 DEF IInv, EnabledIsWhole
<1>14. RunsEnabled' /\ Quiesced'
  BY <1>1, <1>2 DEF IInv, RunsEnabled, Quiesced
<1> QED
  BY <1>6, <1>7, <1>8, <1>9, <1>10, <1>11, <1>12, <1>13, <1>14 DEF IInv

\* A completed install is only looked at.
LEMMA RecheckKeeps ==
  ASSUME IInv, NEW d \in Driver, Recheck(d)
  PROVE  IInv'
<1>1. Moves(d, "cleanup")
  BY GotoMoves DEF IInv, Recheck, Step
<1>2. WorkDone(d)' /\ RunsEnabled' /\ Quiesced'
  BY <1>1 DEF IInv, Recheck, Moves, Others, WorkDone, RunsEnabled, Quiesced
<1> QED
  BY <1>1, <1>2, MoveKeeps
  DEF IInv, InstallTyped, Recheck, Step, Holding, Working, Installing

-----------------------------------------------------------------------------
(* The phases                                                               *)

\* One holder of the lock is all who works.
LEMMA IdentitiesKeeps ==
  ASSUME IInv, NEW d \in Driver, EnsureIdentities(d)
  PROVE  IInv'
<1>1. Moves(d, "record") /\ agent[d].pc = "identities"
  BY GotoMoves DEF IInv, EnsureIdentities, At, Step, Holding, Working
<1>2. host' \in HostType /\ HostGrows /\ host'.identities /\ host'.enabled = host.enabled
  BY DEF IInv, InstallTyped, EnsureIdentities, HostType, HostGrows, AsFar, Linked
<1>3. agent'[d].phase = Validated
  BY <1>1 DEF IInv, Progress, WorkDone, Moves
<1>4. WorkDone(d)'
  BY <1>1, <1>2, <1>3
  DEF WorkDone, AsFar, Moves, Validated, Identities, Prerequisites, Baseline, Assets
<1> QED
  BY <1>1, <1>2, <1>4, BuildKeeps DEF EnsureIdentities, Working

\* An input comes from the stage, and never in place of another.
LEMMA InstallInputKeeps ==
  ASSUME IInv, NEW d \in Driver, NEW i \in Input, InstallInput(d, i)
  PROVE  IInv'
<1>1. /\ agent[d] \in Agent /\ agent[d].pc = "prerequisites"
      /\ agent' = [agent EXCEPT ![d] = [agent[d] EXCEPT !.copied = agent[d].copied \cup {i}]]
  BY DEF IInv, InstallTyped, InstallInput, At
<1>2. [agent[d] EXCEPT !.copied = agent[d].copied \cup {i}] \in Agent
  BY <1>1 DEF Agent
<1>3. /\ agent' \in [Driver -> Agent] /\ Others(d)
      /\ agent'[d].pc = agent[d].pc /\ agent'[d].release = agent[d].release
      /\ agent'[d].phase = agent[d].phase /\ agent'[d].inputs = agent[d].inputs
      /\ agent'[d].copied = agent[d].copied \cup {i}
  BY <1>1, <1>2 DEF IInv, InstallTyped, Others, Agent
<1>4. /\ host' \in HostType /\ HostGrows /\ host'.files[i] # None
      /\ host'.identities = host.identities /\ host'.database = host.database
      /\ host'.assets = host.assets /\ host'.links = host.links /\ host'.enabled = host.enabled
  <2>1. stage \in Version /\ stage # None
    BY DEF IInv, InstallTyped, InstallInput
  <2>2. /\ host' = [host EXCEPT !.files = [host.files EXCEPT ![i] = stage]]
        /\ [host.files EXCEPT ![i] = stage] \in [Input -> Version \cup {None}]
    BY <2>1 DEF IInv, InstallTyped, HostType, InstallInput
  <2>3. /\ host' \in HostType /\ host'.files = [host.files EXCEPT ![i] = stage]
        /\ host'.identities = host.identities /\ host'.database = host.database
        /\ host'.assets = host.assets /\ host'.links = host.links /\ host'.enabled = host.enabled
    BY <2>2 DEF IInv, InstallTyped, HostType
  <2>4. host'.files[i] # None /\ \A j \in Input : host.files[j] # None => host'.files[j] # None
    BY <2>1, <2>3 DEF IInv, InstallTyped, HostType
  <2> QED BY <2>3, <2>4 DEF HostGrows, AsFar, Linked
<1>5. UNCHANGED <<journal, units, stage>>
  BY DEF InstallInput
<1>6. \A e \in Driver \ {d} : agent[e].pc \notin Holding
  BY <1>1 DEF IInv, OneHolder, Holding, Working
<1>7. agent[d].release \in Written /\ Written' = Written
  BY <1>1, <1>5 DEF IInv, OnRecord, Mine, Written, Installing, Working, InstallTyped, Agent
<1> USE DEF Others
<1>8. InstallTyped' /\ OneHolder'
  BY <1>3, <1>4, <1>5 DEF IInv, InstallTyped, OneHolder
<1>9. OneOwner' /\ CompletedSaysSo'
  BY <1>5 DEF IInv, OneOwner, CompletedSaysSo, Written
<1>10. JournalNeverAhead'
  <2>1. ASSUME NEW r \in Written
        PROVE  AsFar(r, journal[r].phase)'
    <3>1. journal[r].phase \in Nat /\ AsFar(r, journal[r].phase)
      BY NeverAhead DEF IInv, InstallTyped, JournalType, Written, Validated, Completed
    <3> QED BY <1>4, <1>5, <3>1, GrownAsFar DEF IInv
  <2> QED BY <2>1, <1>5, <1>7 DEF JournalNeverAhead, AsFar
<1>11. EmptyAtBegin'
  BY <1>1, <1>3, <1>6 DEF EmptyAtBegin, Holding
<1>12. OnRecord'
  BY <1>3, <1>5 DEF IInv, OnRecord, Mine
<1>13. Copied'
  BY <1>3, <1>4 DEF IInv, InstallTyped, Agent, Copied, HostGrows
<1>14. Progress'
  BY <1>1, <1>3, <1>6 DEF IInv, Progress, WorkDone, Holding, Working
<1>15. EnabledIsWhole' /\ RunsEnabled' /\ Quiesced'
  <2>1. EnabledIsWhole'
    BY <1>4, <1>7 DEF IInv, EnabledIsWhole, HostGrows
  <2> QED BY <2>1, <1>1, <1>3, <1>4, <1>5 DEF IInv, RunsEnabled, Quiesced
<1> QED
  BY <1>8, <1>9, <1>10, <1>11, <1>12, <1>13, <1>14, <1>15 DEF IInv

\* All inputs are in place before the phase goes on record.
LEMMA PrerequisitesKeep ==
  ASSUME IInv, NEW d \in Driver, PrerequisitesDone(d)
  PROVE  IInv'
<1> DEFINE pc == IF agent[d].phase < Prerequisites THEN "record" ELSE After(agent[d].phase)
<1>1. /\ agent[d] \in Agent /\ agent[d].pc = "prerequisites"
      /\ agent' = [agent EXCEPT ![d] = [agent[d] EXCEPT !.copied = {}, !.pc = pc]]
  BY DEF IInv, InstallTyped, PrerequisitesDone, At
<1>2. agent[d].phase \in {Identities, Prerequisites, Baseline, Assets, Started}
  BY <1>1
  DEF IInv, Progress, WorkDone, OnRecord, Installing, Working, Agent,
      Validated, Identities, Prerequisites, Baseline, Assets, Started, Completed
<1>3. /\ agent[d].phase = Identities => pc = "record"
      /\ agent[d].phase = Prerequisites => pc = "baseline"
      /\ agent[d].phase = Baseline => pc = "assets"
      /\ agent[d].phase = Assets => pc = "start"
      /\ agent[d].phase = Started => pc = "ingress"
  BY DEF After, Validated, Identities, Prerequisites, Baseline, Assets, Started
<1>4. pc \in {"record", "baseline", "assets", "start", "ingress"}
  BY <1>2, <1>3
<1>5. \A i \in Input : host.files[i] # None
  BY <1>1 DEF IInv, Copied, PrerequisitesDone, Proved, Holding, Working
<1>6. UNCHANGED <<journal, host, units, stage>>
  BY DEF PrerequisitesDone
<1> HIDE DEF pc
<1>7. [agent[d] EXCEPT !.copied = {}, !.pc = pc] \in Agent
  BY <1>1, <1>4 DEF Agent, Step, Holding, Working
<1>8. /\ agent' \in [Driver -> Agent] /\ Others(d)
      /\ agent'[d].pc = pc /\ agent'[d].release = agent[d].release
      /\ agent'[d].phase = agent[d].phase /\ agent'[d].inputs = agent[d].inputs
      /\ agent'[d].copied = {}
  BY <1>1, <1>7 DEF IInv, InstallTyped, Others, Agent
<1> USE DEF Others
<1>9. InstallTyped' /\ OneHolder'
  BY <1>1, <1>6, <1>8 DEF IInv, InstallTyped, OneHolder, Holding, Working
<1>10. OneOwner' /\ JournalNeverAhead' /\ CompletedSaysSo'
  BY <1>6 DEF IInv, OneOwner, JournalNeverAhead, CompletedSaysSo, Written, Linked
<1>11. EmptyAtBegin'
  BY <1>4, <1>6, <1>8 DEF IInv, EmptyAtBegin, Written
<1>12. OnRecord' /\ Copied'
  BY <1>1, <1>6, <1>8 DEF IInv, OnRecord, Copied, Mine, Holding, Installing, Working
<1>13. Progress'
  <2>1. WorkDone(d)'
    <3>1. CASE pc = "record"
      <4>1. agent[d].phase = Identities /\ host.identities
        BY <1>1, <1>2, <1>3, <3>1
        DEF IInv, OnRecord, JournalNeverAhead, Written, Mine, Agent, Installing, Working,
            Identities, Prerequisites, Baseline, Assets, Started
      <4> QED
        BY <1>5, <1>6, <1>8, <3>1, <4>1
        DEF WorkDone, AsFar, Identities, Prerequisites, Baseline, Assets
    <3>2. CASE pc # "record"
      BY <1>2, <1>3, <1>8, <3>2
      DEF WorkDone, Identities, Prerequisites, Baseline, Assets, Started
    <3> QED BY <3>1, <3>2
  <2> QED BY <2>1, <1>6, <1>8 DEF IInv, Progress, WorkDone, AsFar, Linked
<1>14. EnabledIsWhole' /\ RunsEnabled'
  BY <1>6 DEF IInv, EnabledIsWhole, RunsEnabled, AsFar, Linked, Written
<1>15. Quiesced'
  BY <1>4, <1>6, <1>8 DEF IInv, Quiesced
<1> QED
  BY <1>9, <1>10, <1>11, <1>12, <1>13, <1>14, <1>15 DEF IInv

\* A half-made database is not ready, and a ready one stays.
LEMMA CreateBaselineKeeps ==
  ASSUME IInv, NEW d \in Driver, CreateBaseline(d)
  PROVE  IInv'
<1>1. Moves(d, "migrated") /\ agent[d].pc = "baseline"
  BY GotoMoves DEF IInv, CreateBaseline, At, Step, Holding, Working
<1>2. host' \in HostType /\ HostGrows /\ host'.enabled = host.enabled
  BY DEF IInv, InstallTyped, CreateBaseline, HostType, HostGrows, AsFar, Linked
<1>3. WorkDone(d)'
  BY <1>1 DEF IInv, Progress, WorkDone, Moves
<1> QED BY <1>1, <1>2, <1>3, BuildKeeps DEF CreateBaseline, Working

\* What is known of the Host when an agent is at work on a phase.
LEMMA WorksOnRecord ==
  ASSUME IInv, NEW d \in Driver, agent[d].pc \in Installing
  PROVE  /\ agent[d].release \in Written /\ agent[d].release \in Release
         /\ agent[d].phase \in Nat /\ agent[d].phase < Completed
         /\ AsFar(agent[d].release, agent[d].phase)
<1>1. agent[d].release \in Release /\ agent[d].phase \in Nat
  BY DEF IInv, InstallTyped, Agent, Validated, Completed
<1>2. agent[d].release \in Written /\ journal[agent[d].release].phase = agent[d].phase
      /\ agent[d].phase < Completed
  BY <1>1 DEF IInv, OnRecord, Mine, Written
<1> QED BY <1>1, <1>2, NeverAhead DEF IInv

\* The migrated database is a ready one.
LEMMA FinishBaselineKeeps ==
  ASSUME IInv, NEW d \in Driver, FinishBaseline(d)
  PROVE  IInv'
<1>1. Moves(d, "record") /\ agent[d].pc = "migrated"
  BY GotoMoves DEF IInv, FinishBaseline, At, Step, Holding, Working
<1>2. /\ host' \in HostType /\ HostGrows /\ host'.enabled = host.enabled
      /\ host'.database = "ready" /\ host'.identities = host.identities
      /\ host'.files = host.files
  BY DEF IInv, InstallTyped, FinishBaseline, HostType, HostGrows, AsFar, Linked
<1>3. agent[d].phase = Prerequisites /\ AsFar(agent[d].release, Prerequisites)
  BY <1>1, WorksOnRecord DEF IInv, Progress, WorkDone, Installing, Working
<1>4. WorkDone(d)'
  BY <1>1, <1>2, <1>3
  DEF WorkDone, AsFar, Moves, Identities, Prerequisites, Baseline, Assets
<1> QED BY <1>1, <1>2, <1>4, BuildKeeps DEF FinishBaseline, Working

\* Assets are the owner's, so those of a whole Host are put back as they were.
LEMMA InstallAssetsKeeps ==
  ASSUME IInv, NEW d \in Driver, InstallAssets(d)
  PROVE  IInv'
<1>1. Moves(d, "switch") /\ agent[d].pc = "assets"
  BY GotoMoves DEF IInv, InstallAssets, At, Step, Holding, Working
<1>2. agent[d].release \in Written /\ agent[d].release \in Release
  BY <1>1, WorksOnRecord DEF Installing, Working
<1>3. /\ host' \in HostType /\ host'.assets = agent[d].release
      /\ host'.enabled = host.enabled /\ host'.identities = host.identities
      /\ host'.files = host.files /\ host'.database = host.database /\ host'.links = host.links
  BY <1>2 DEF IInv, InstallTyped, InstallAssets, HostType
<1>4. HostGrows
  BY <1>2, <1>3 DEF IInv, OneOwner, HostGrows, AsFar, Linked
<1>5. WorkDone(d)'
  BY <1>1, <1>3 DEF IInv, Progress, WorkDone, Moves
<1> QED BY <1>1, <1>3, <1>4, <1>5, BuildKeeps DEF InstallAssets, Working

\* A link is set to the owner's release, which a whole Host has already.
LEMMA SwitchKeeps ==
  ASSUME IInv, NEW d \in Driver, NEW c \in Component, SwitchComponent(d, c)
  PROVE  IInv'
<1>1. agent[d].pc = "switch" /\ Moves(d, "switch")
  BY DEF IInv, InstallTyped, SwitchComponent, At, Moves, Others
<1>2. agent[d].release \in Written /\ agent[d].release \in Release
  BY <1>1, WorksOnRecord DEF Installing, Working
<1>3. /\ host' \in HostType /\ host'.assets = host.assets
      /\ host'.enabled = host.enabled /\ host'.identities = host.identities
      /\ host'.files = host.files /\ host'.database = host.database
      /\ \A b \in Component : host'.links[b] \in {host.links[b], agent[d].release}
  BY <1>2 DEF IInv, InstallTyped, SwitchComponent, HostType
<1>4. HostGrows
  BY <1>2, <1>3 DEF IInv, OneOwner, HostGrows, AsFar, Linked
<1>5. WorkDone(d)'
  BY <1>1, <1>3 DEF IInv, Progress, WorkDone, Moves
<1> QED
  BY <1>1, <1>3, <1>4, <1>5, BuildKeeps DEF SwitchComponent, At, Working

\* Nothing is enabled before it is whole.
LEMMA EnableKeeps ==
  ASSUME IInv, NEW d \in Driver, EnableUnits(d)
  PROVE  IInv'
<1>1. Moves(d, "record") /\ agent[d].pc = "switch"
  BY GotoMoves DEF IInv, EnableUnits, At, Step, Holding, Working
<1>2. /\ host' \in HostType /\ host'.enabled /\ host'.assets = host.assets
      /\ host'.identities = host.identities /\ host'.files = host.files
      /\ host'.database = host.database /\ host'.links = host.links
  BY DEF IInv, InstallTyped, EnableUnits, HostType
<1>3. HostGrows
  BY <1>2 DEF HostGrows, AsFar, Linked
<1>4. /\ agent[d].phase = Baseline /\ AsFar(agent[d].release, Baseline)
      /\ host.assets = agent[d].release /\ Linked(agent[d].release)
  BY <1>1, WorksOnRecord
  DEF IInv, Progress, WorkDone, Linked, EnableUnits, Installing, Working
<1>5. AsFar(agent[d].release, Assets)'
  BY <1>1, <1>2, <1>4
  DEF AsFar, Linked, Moves, Identities, Prerequisites, Baseline, Assets
<1>6. WorkDone(d)'
  BY <1>1, <1>4, <1>5 DEF WorkDone, Moves, Baseline, Assets
<1> QED BY <1>1, <1>2, <1>3, <1>5, <1>6, BuildKeeps DEF EnableUnits, Working

\* The product is started once everything is on record as being there.
LEMMA StartKeeps ==
  ASSUME IInv, NEW d \in Driver, StartRelease(d)
  PROVE  IInv'
<1>1. Moves(d, "ready") /\ agent[d].pc = "start"
  BY GotoMoves DEF IInv, StartRelease, At, Step, Holding, Working
<1>2. agent[d].phase = Assets /\ host.enabled
  BY <1>1, WorksOnRecord DEF IInv, Progress, WorkDone, AsFar, Installing, Working
<1>3. WorkDone(d)' /\ RunsEnabled'
  BY <1>1, <1>2 DEF StartRelease, WorkDone, Moves, RunsEnabled, Assets
<1>4. Quiesced'
  <2>1. \A e \in Driver \ {d} : agent'[e].pc # "failing"
    BY <1>1 DEF IInv, OneHolder, Moves, Others, Holding, Working
  <2> QED BY <1>1, <2>1 DEF Quiesced, Moves
<1> QED
  BY <1>1, <1>3, <1>4, MoveKeeps
  DEF IInv, InstallTyped, StartRelease, Step, Holding, Working, Installing

\* Waiting changes nothing.
LEMMA WaitKeeps ==
  ASSUME IInv, NEW d \in Driver, WaitReady(d)
  PROVE  IInv'
<1>1. Moves(d, "ingress") /\ agent[d].pc = "ready"
  BY GotoMoves DEF IInv, WaitReady, At, Step, Holding, Working
<1>2. WorkDone(d)'
  BY <1>1 DEF IInv, Progress, WorkDone, Moves, Assets
<1>3. RunsEnabled' /\ Quiesced'
  BY <1>1 DEF IInv, WaitReady, RunsEnabled, Quiesced, Moves, Others
<1> QED
  BY <1>1, <1>2, <1>3, MoveKeeps
  DEF IInv, InstallTyped, WaitReady, Step, Holding, Working, Installing

\* A failure is reported at once only where nothing was started yet.
LEMMA FailingKeeps ==
  ASSUME IInv, NEW d \in Driver, agent[d].pc \in Working, FailsAt(d),
         UNCHANGED <<journal, host, units, stage>>
  PROVE  IInv'
<1> DEFINE pc == IF agent[d].phase < Assets THEN "failing" ELSE "quiesce"
<1>1. Moves(d, pc)
  BY GotoMoves DEF IInv, FailsAt, Step, Holding, Working
<1>2. pc \in {"failing", "quiesce"} /\ (pc = "failing" => agent[d].phase < Assets)
  OBVIOUS
<1> HIDE DEF pc
<1>3. WorkDone(d)'
  BY <1>1, <1>2 DEF Moves, WorkDone
<1>4. agent[d].phase \in Nat
  BY WorksOnRecord DEF Installing
<1>5. RunsEnabled' /\ Quiesced'
  BY <1>1, <1>2, <1>4 DEF IInv, RunsEnabled, Quiesced, Moves, Others, Assets
<1> QED
  BY <1>1, <1>2, <1>3, <1>5, MoveKeeps
  DEF IInv, InstallTyped, Step, Holding, Working, Installing

\* The ingress is waited for, and a stopped product is a failure.
LEMMA AwaitKeeps ==
  ASSUME IInv, NEW d \in Driver, AwaitHostLayer(d)
  PROVE  IInv'
<1>1. agent[d].pc = "ingress" /\ UNCHANGED <<journal, host, units, stage>>
  BY DEF AwaitHostLayer, At
<1>2. CASE units = "stopped"
  BY <1>1, <1>2, FailingKeeps DEF AwaitHostLayer, Working
<1>3. CASE units # "stopped"
  <2>1. Moves(d, "doctor")
    BY <1>3, GotoMoves DEF IInv, AwaitHostLayer, Step, Holding, Working
  <2>2. WorkDone(d)'
    BY <1>1, <2>1 DEF IInv, Progress, WorkDone, Moves, Assets
  <2>3. RunsEnabled' /\ Quiesced'
    BY <1>1, <2>1 DEF IInv, RunsEnabled, Quiesced, Moves, Others
  <2> QED
    BY <1>1, <2>1, <2>2, <2>3, MoveKeeps
    DEF IInv, InstallTyped, Step, Holding, Working, Installing
<1> QED BY <1>2, <1>3

\* So is a doctor that finds it not up.
LEMMA DoctorKeeps ==
  ASSUME IInv, NEW d \in Driver, DoctorPasses(d)
  PROVE  IInv'
<1>1. agent[d].pc = "doctor" /\ UNCHANGED <<journal, host, units, stage>>
  BY DEF DoctorPasses, At
<1>2. CASE units # "up"
  BY <1>1, <1>2, FailingKeeps DEF DoctorPasses, Working
<1>3. CASE units = "up"
  <2>1. Moves(d, "record")
    BY <1>3, GotoMoves DEF IInv, DoctorPasses, Step, Holding, Working
  <2>2. /\ agent[d].phase \in Nat /\ agent[d].phase >= Assets
        /\ AsFar(agent[d].release, agent[d].phase)
    BY <1>1, WorksOnRecord DEF IInv, Progress, WorkDone, Installing, Working
  <2>3. AsFar(agent[d].release, Assets)
    BY <2>2 DEF AsFar, Identities, Prerequisites, Baseline, Assets
  <2>4. AsFar(agent[d].release, agent[d].phase + 1)
    BY <2>2, <2>3 DEF AsFar, Identities, Prerequisites, Baseline, Assets
  <2>5. WorkDone(d)'
    BY <1>1, <2>1, <2>4 DEF WorkDone, AsFar, Linked, Moves
  <2>6. RunsEnabled' /\ Quiesced'
    BY <1>1, <2>1 DEF IInv, RunsEnabled, Quiesced, Moves, Others
  <2> QED
    BY <1>1, <2>1, <2>5, <2>6, MoveKeeps
    DEF IInv, InstallTyped, Step, Holding, Working, Installing
<1> QED BY <1>2, <1>3

\* Any step may fail.
LEMMA StepFailsKeeps ==
  ASSUME IInv, NEW d \in Driver, StepFails(d)
  PROVE  IInv'
BY FailingKeeps DEF StepFails

\* The product is stopped before the failure is on record, or that is said.
LEMMA QuiesceKeeps ==
  ASSUME IInv, NEW d \in Driver, Quiesce(d)
  PROVE  IInv'
<1>1. agent[d].pc = "quiesce" /\ UNCHANGED <<journal, host, stage>>
  BY DEF Quiesce
<1>2. CASE units' = "stopped" /\ Goto(d, "failing")
  <2>1. Moves(d, "failing")
    BY <1>2, GotoMoves DEF IInv, Step, Holding, Working
  <2>2. WorkDone(d)' /\ RunsEnabled' /\ Quiesced'
    BY <1>2, <2>1 DEF Moves, WorkDone, RunsEnabled, Quiesced
  <2> QED
    BY <1>1, <1>2, <2>1, <2>2, MoveKeeps
    DEF IInv, InstallTyped, Step, Holding, Working, Installing
<1>3. CASE /\ UNCHANGED units
           /\ agent' = [agent EXCEPT ![d].pc = "failing", ![d].stopError = TRUE]
  <2>1. /\ agent[d] \in Agent
        /\ agent' = [agent EXCEPT ![d] = [agent[d] EXCEPT !.pc = "failing", !.stopError = TRUE]]
    BY <1>3 DEF IInv, InstallTyped
  <2>2. [agent[d] EXCEPT !.pc = "failing", !.stopError = TRUE] \in Agent
    BY <2>1 DEF Agent, Step, Holding, Working
  <2>3. /\ agent' \in [Driver -> Agent] /\ Others(d)
        /\ agent'[d].pc = "failing" /\ agent'[d].release = agent[d].release
        /\ agent'[d].phase = agent[d].phase /\ agent'[d].inputs = agent[d].inputs
        /\ agent'[d].copied = agent[d].copied /\ agent'[d].stopError = TRUE
    BY <2>1, <2>2 DEF IInv, InstallTyped, Others, Agent
  <2> USE DEF Others
  <2>4. InstallTyped' /\ OneHolder'
    BY <1>1, <1>3, <2>3 DEF IInv, InstallTyped, OneHolder, Holding, Working
  <2>5. OneOwner' /\ JournalNeverAhead' /\ CompletedSaysSo'
    BY <1>1 DEF IInv, OneOwner, JournalNeverAhead, CompletedSaysSo, Written, Linked
  <2>6. EmptyAtBegin'
    BY <1>1, <2>3 DEF IInv, EmptyAtBegin, Written
  <2>7. OnRecord' /\ Copied'
    BY <1>1, <2>3 DEF IInv, OnRecord, Copied, Mine, Holding, Installing, Working
  <2>8. Progress'
    BY <1>1, <2>3 DEF IInv, Progress, WorkDone, AsFar, Linked
  <2>9. EnabledIsWhole' /\ RunsEnabled'
    BY <1>1, <1>3 DEF IInv, EnabledIsWhole, RunsEnabled, AsFar, Linked, Written
  <2>10. Quiesced'
    BY <1>3, <2>3 DEF IInv, Quiesced
  <2> QED BY <2>4, <2>5, <2>6, <2>7, <2>8, <2>9, <2>10 DEF IInv
<1> QED BY <1>2, <1>3 DEF Quiesce

-----------------------------------------------------------------------------
(* The records                                                              *)

\* A record replaces the one of the agent's release and no other.
LEMMA WriteRecords ==
  ASSUME IInv, NEW d \in Driver, agent[d].pc \in Installing,
         NEW phase \in Validated .. Completed,
         NEW status \in {"running", "failed", "completed"}, Write(d, phase, status)
  PROVE  /\ journal' \in [Release -> JournalType] /\ Written' = Written
         /\ \A s \in Release \ {agent[d].release} : journal'[s] = journal[s]
         /\ journal'[agent[d].release].file = "written"
         /\ journal'[agent[d].release].phase = phase
         /\ journal'[agent[d].release].status = status
         /\ journal'[agent[d].release].inputs = agent[d].inputs
<1> DEFINE r == agent[d].release
           record == [journal[r] EXCEPT !.file = "written", !.phase = phase, !.status = status]
<1>1. r \in Release /\ journal[r] \in JournalType /\ journal \in [Release -> JournalType]
      /\ journal[r].file = "written" /\ journal[r].inputs = agent[d].inputs
  BY DEF IInv, InstallTyped, Agent, OnRecord, Mine
<1>2. journal' = [journal EXCEPT ![r] = record]
  BY <1>1 DEF Write, JournalType
<1>3. record \in JournalType
  BY <1>1 DEF JournalType
<1>4. /\ journal' \in [Release -> JournalType] /\ journal'[r] = record
      /\ \A s \in Release \ {r} : journal'[s] = journal[s]
  BY <1>1, <1>2, <1>3
<1>5. /\ record.file = "written" /\ record.phase = phase /\ record.status = status
      /\ record.inputs = agent[d].inputs
  BY <1>1 DEF JournalType
<1> HIDE DEF record
<1>6. Written' = Written
  BY <1>1, <1>4, <1>5 DEF Written
<1> QED BY <1>4, <1>5, <1>6

\* A record of one's own release that claims no more than there is keeps the
\* invariant, if the agent that wrote it has gone on accordingly.
LEMMA RecordingKeeps ==
  ASSUME IInv, NEW d \in Driver, agent[d].pc \in Installing,
         NEW phase \in Validated .. Completed,
         NEW status \in {"running", "failed", "completed"}, Write(d, phase, status),
         UNCHANGED <<host, units, stage>>,
         AsFar(agent[d].release, phase), phase = Completed => status = "completed",
         agent' \in [Driver -> Agent], Others(d),
         agent'[d].release = agent[d].release, agent'[d].inputs = agent[d].inputs,
         agent'[d].copied = agent[d].copied, agent'[d].phase = phase,
         agent'[d].pc \in Working => phase < Completed,
         agent'[d].pc \in Working \cup {"cleanup"}, WorkDone(d)'
  PROVE  IInv'
<1> DEFINE r == agent[d].release
<1>1. /\ journal' \in [Release -> JournalType] /\ Written' = Written
      /\ \A s \in Release \ {r} : journal'[s] = journal[s]
      /\ journal'[r].file = "written" /\ journal'[r].phase = phase
      /\ journal'[r].status = status /\ journal'[r].inputs = agent[d].inputs
  BY WriteRecords
<1>2. r \in Written /\ r \in Release
  BY WorksOnRecord
<1>3. \A e \in Driver \ {d} : agent[e].pc \notin Holding
  BY DEF IInv, OneHolder, Holding, Installing
<1> USE DEF Others
<1>4. InstallTyped'
  BY <1>1 DEF IInv, InstallTyped
<1>5. OneHolder'
  BY <1>3 DEF OneHolder
<1>6. OneOwner'
  BY <1>1 DEF IInv, OneOwner
<1>7. JournalNeverAhead'
  <2>1. \A s \in Written : s = r
    BY <1>2 DEF IInv, OneOwner
  <2>2. AsFar(r, phase)'
    BY DEF AsFar, Linked
  <2> QED BY <1>1, <2>1, <2>2 DEF JournalNeverAhead, AsFar
<1>8. CompletedSaysSo'
  BY <1>1, <1>2 DEF IInv, CompletedSaysSo, Completed
<1>9. EmptyAtBegin'
  BY <1>3 DEF EmptyAtBegin, Holding, Working
<1>10. OnRecord'
  <2>1. \A e \in Driver \ {d} : agent'[e].pc \notin Installing
    BY <1>3 DEF Installing, Holding
  <2> QED BY <1>1, <2>1 DEF OnRecord, Mine, Installing, Completed
<1>11. Copied'
  BY <1>3 DEF IInv, Copied, Holding, Installing
<1>12. Progress'
  BY <1>3 DEF Progress, WorkDone, Holding, Working
<1>13. EnabledIsWhole'
  BY <1>1 DEF IInv, EnabledIsWhole, AsFar, Linked
<1>14. RunsEnabled' /\ Quiesced'
  BY <1>3 DEF IInv, RunsEnabled, Quiesced, Holding, Working
<1> QED
  BY <1>4, <1>5, <1>6, <1>7, <1>8, <1>9, <1>10, <1>11, <1>12, <1>13, <1>14 DEF IInv

\* Where the agent goes from a record is where that phase's successor begins.
LEMMA RecordKeeps ==
  ASSUME IInv, NEW d \in Driver, Record(d)
  PROVE  IInv'
<1> DEFINE next == agent[d].phase + 1
           status == IF next = Completed THEN "completed" ELSE "running"
           pc == CASE next = Started -> "record" [] next = Completed -> "cleanup"
                   [] OTHER -> After(next)
<1>1. agent[d].pc = "record" /\ agent[d] \in Agent /\ agent[d].pc \in Installing
  BY DEF IInv, InstallTyped, Record, At, Installing, Working
<1>2. agent[d].phase \in Nat /\ agent[d].phase < Completed
  BY <1>1, WorksOnRecord
<1>3. next \in Validated .. Completed /\ next \in 1 .. 6
  BY <1>2 DEF Validated, Completed
<1>4. AsFar(agent[d].release, next)
  BY <1>1 DEF IInv, Progress, WorkDone
<1>5. Write(d, next, status) /\ UNCHANGED <<host, units, stage>>
      /\ agent' = [agent EXCEPT ![d].phase = next, ![d].pc = pc]
  BY Zenon DEF Record, Reach
<1>6. /\ next = Identities => pc = "prerequisites"
      /\ next = Prerequisites => pc = "baseline"
      /\ next = Baseline => pc = "assets"
      /\ next = Assets => pc = "start"
      /\ next = Started => pc = "record"
      /\ next = Completed => pc = "cleanup"
  BY DEF After, Validated, Identities, Prerequisites, Baseline, Assets, Started, Completed
<1>7. next \in {Identities, Prerequisites, Baseline, Assets, Started, Completed}
  BY <1>3 DEF Identities, Prerequisites, Baseline, Assets, Started, Completed
<1>8. pc \in Working \cup {"cleanup"} /\ (pc \in Working => next < Completed)
  BY <1>6, <1>7
  DEF Working, Identities, Prerequisites, Baseline, Assets, Started, Completed
<1>9. status \in {"running", "failed", "completed"} /\ (next = Completed => status = "completed")
  OBVIOUS
<1> HIDE DEF next, status, pc
<1>10. [agent[d] EXCEPT !.phase = next, !.pc = pc] \in Agent
  BY <1>1, <1>3, <1>8 DEF Agent, Step, Holding
<1>11. agent' = [agent EXCEPT ![d] = [agent[d] EXCEPT !.phase = next, !.pc = pc]]
  BY <1>5 DEF IInv, InstallTyped
<1>12. /\ agent' \in [Driver -> Agent] /\ Others(d)
       /\ agent'[d].pc = pc /\ agent'[d].release = agent[d].release
       /\ agent'[d].phase = next /\ agent'[d].inputs = agent[d].inputs
       /\ agent'[d].copied = agent[d].copied
  BY <1>1, <1>10, <1>11 DEF IInv, InstallTyped, Others, Agent
<1>13. WorkDone(d)'
  <2>1. CASE pc = "record"
    <3>1. next = Started
      BY <1>6, <1>7, <2>1
    <3>2. AsFar(agent[d].release, Started + 1)
      BY <1>4, <3>1 DEF AsFar, Identities, Prerequisites, Baseline, Assets, Started
    <3> QED BY <1>5, <1>12, <2>1, <3>1, <3>2 DEF WorkDone, AsFar, Linked, Started
  <2>2. CASE pc # "record"
    BY <1>6, <1>7, <1>12, <2>2
    DEF WorkDone, Identities, Prerequisites, Baseline, Assets, Started, Completed
  <2> QED BY <2>1, <2>2
<1> QED
  BY <1>1, <1>3, <1>4, <1>5, <1>8, <1>9, <1>12, <1>13, RecordingKeeps

\* A failure is recorded at the phase that was.
LEMMA RecordFailureKeeps ==
  ASSUME IInv, NEW d \in Driver, RecordFailure(d)
  PROVE  IInv'
<1>1. agent[d].pc = "failing" /\ agent[d].pc \in Installing
  BY DEF RecordFailure, At, Installing
<1>2. /\ agent[d].phase \in Nat /\ agent[d].phase < Completed
      /\ AsFar(agent[d].release, agent[d].phase)
  BY <1>1, WorksOnRecord
<1>3. Moves(d, "cleanup")
  BY GotoMoves DEF IInv, RecordFailure, Step
<1>4. WorkDone(d)'
  BY <1>3 DEF Moves, WorkDone
<1>5. agent[d].phase \in Validated .. Completed /\ agent[d].phase # Completed
  BY <1>2 DEF Validated, Completed
<1>6. Write(d, agent[d].phase, "failed") /\ UNCHANGED <<host, units, stage>>
  BY DEF RecordFailure
<1> QED
  BY <1>1, <1>2, <1>3, <1>4, <1>5, <1>6, RecordingKeeps DEF Moves, Working

-----------------------------------------------------------------------------
(* Death and reboot                                                         *)

\* The lock goes with the agent, the record stays.
LEMMA AgentDiesKeeps ==
  ASSUME IInv, NEW d \in Driver, AgentDies(d)
  PROVE  IInv'
<1>1. Moves(d, "cleanup")
  BY GotoMoves DEF IInv, AgentDies, Step
<1>2. WorkDone(d)' /\ RunsEnabled' /\ Quiesced'
  BY <1>1 DEF IInv, AgentDies, Moves, Others, WorkDone, RunsEnabled, Quiesced
<1> QED
  BY <1>1, <1>2, MoveKeeps
  DEF IInv, InstallTyped, AgentDies, Step, Holding, Working, Installing

\* A reboot ends every agent and starts what is enabled, which is whole.
LEMMA HostRebootsKeeps ==
  ASSUME IInv, HostReboots
  PROVE  IInv'
<1>1. ASSUME NEW e \in Driver
      PROVE  /\ agent'[e] \in Agent /\ agent'[e].pc \notin Holding
             /\ agent'[e].pc \in {agent[e].pc, "cleanup"}
             /\ agent'[e].copied = agent[e].copied /\ agent'[e].inputs = agent[e].inputs
  <2>1. agent[e] \in Agent
    BY DEF IInv, InstallTyped
  <2>2. agent'[e] = IF agent[e].pc \in Holding
                    THEN [agent[e] EXCEPT !.pc = "cleanup"] ELSE agent[e]
    BY DEF HostReboots
  <2>3. "cleanup" \notin Holding /\ "cleanup" \in Step
    BY DEF Step, Holding, Working
  <2>4. CASE agent[e].pc \in Holding
    <3>1. agent'[e] = [agent[e] EXCEPT !.pc = "cleanup"]
      BY <2>2, <2>4
    <3> QED BY <2>1, <2>3, <3>1 DEF Agent
  <2>5. CASE agent[e].pc \notin Holding
    BY <2>1, <2>2, <2>5
  <2> QED BY <2>4, <2>5
<1>2. /\ UNCHANGED <<journal, host, stage>> /\ agent' \in [Driver -> Agent]
      /\ units' = IF host.enabled THEN "starting" ELSE "stopped"
  BY <1>1 DEF HostReboots
<1>3. InstallTyped'
  BY <1>2 DEF IInv, InstallTyped
<1>4. OneHolder' /\ EmptyAtBegin' /\ OnRecord'
  BY <1>1 DEF OneHolder, EmptyAtBegin, OnRecord, Holding, Installing
<1>5. OneOwner' /\ JournalNeverAhead' /\ CompletedSaysSo'
  BY <1>2 DEF IInv, OneOwner, JournalNeverAhead, CompletedSaysSo, Written, Linked
<1>6. Copied'
  BY <1>1, <1>2 DEF IInv, Copied, Holding
<1>7. Progress'
  BY <1>1 DEF Progress, WorkDone, Holding, Working
<1>8. EnabledIsWhole' /\ RunsEnabled'
  BY <1>2 DEF IInv, EnabledIsWhole, RunsEnabled, AsFar, Linked, Written
<1>9. Quiesced'
  BY <1>1 DEF Quiesced, Holding
<1> QED BY <1>3, <1>4, <1>5, <1>6, <1>7, <1>8, <1>9 DEF IInv

\* Only what is starting comes up.
LEMMA UnitsComeUpKeeps ==
  ASSUME IInv, UnitsComeUp
  PROVE  IInv'
<1>1. UNCHANGED <<journal, host, stage, agent>> /\ units = "starting" /\ units' = "up"
  BY DEF UnitsComeUp
<1>2. InstallTyped' /\ OneHolder' /\ OnRecord' /\ Copied'
  BY <1>1 DEF IInv, InstallTyped, OneHolder, OnRecord, Copied, Mine
<1>3. OneOwner' /\ JournalNeverAhead' /\ CompletedSaysSo' /\ EmptyAtBegin'
  BY <1>1 DEF IInv, OneOwner, JournalNeverAhead, CompletedSaysSo, EmptyAtBegin, Written, Linked
<1>4. Progress' /\ EnabledIsWhole' /\ RunsEnabled'
  BY <1>1 DEF IInv, Progress, EnabledIsWhole, RunsEnabled, WorkDone, AsFar, Linked, Written
<1>5. Quiesced'
  BY <1>1 DEF IInv, Quiesced
<1> QED BY <1>2, <1>3, <1>4, <1>5 DEF IInv

-----------------------------------------------------------------------------
(* The invariant and what it says                                           *)

\* A Host nobody has touched satisfies it.
LEMMA InitEstablishes ==
  Init => IInv
<1> SUFFICES ASSUME Init PROVE IInv
  OBVIOUS
<1>1. /\ agent \in [Driver -> Agent] /\ units = "stopped" /\ stage = None
      /\ \A d \in Driver : agent[d].pc = "idle" /\ agent[d].copied = {}
  BY DEF Init
<1>2. /\ \A r \in Release : journal[r].file = "none" /\ journal[r].phase = Validated
      /\ journal \in [Release -> JournalType] /\ host \in HostType /\ ~host.enabled
  BY DEF Init, JournalType, HostType, Validated, Completed
<1>3. Written = {}
  BY <1>2 DEF Written
<1>4. InstallTyped
  BY <1>1, <1>2 DEF InstallTyped
<1>5. OneHolder /\ EmptyAtBegin /\ OnRecord /\ Copied /\ Progress /\ Quiesced
  BY <1>1
  DEF OneHolder, EmptyAtBegin, OnRecord, Copied, Progress, Quiesced, WorkDone,
      Holding, Installing, Working
<1>6. OneOwner /\ JournalNeverAhead /\ CompletedSaysSo /\ EnabledIsWhole /\ RunsEnabled
  BY <1>1, <1>2, <1>3
  DEF OneOwner, JournalNeverAhead, CompletedSaysSo, EnabledIsWhole, RunsEnabled,
      Validated, Completed
<1> QED BY <1>4, <1>5, <1>6 DEF IInv

\* Every step keeps it, a step that changes nothing included.
LEMMA StepKeeps ==
  IInv /\ [Next]_vars => IInv'
<1> SUFFICES ASSUME IInv, [Next]_vars PROVE IInv'
  OBVIOUS
<1>1. CASE UNCHANGED vars
  <2>1. UNCHANGED <<journal, host, units, agent>> /\ stage' \in Version \cup {None}
    BY <1>1 DEF vars, IInv, InstallTyped
  <2> QED BY <2>1, StageKeeps
<1>2. ASSUME NEW d \in Driver, NEW r \in Release, NEW v \in Version, Attempt(d, r, v)
      PROVE  IInv'
  BY <1>2, AttemptKeeps
<1>3. ASSUME NEW d \in Driver, CleanupEarly(d)
      PROVE  IInv'
  BY <1>3, StageKeeps DEF CleanupEarly
<1>4. ASSUME NEW d \in Driver, AgentDies(d)
      PROVE  IInv'
  BY <1>4, AgentDiesKeeps
<1>5. ASSUME NEW d \in Driver, Call(d)
      PROVE  IInv'
  <2>1. CASE \/ Cleanup(d) \/ InputDigests(d) \/ Exclusive(d) \/ Load(d)
             \/ EvidenceDirectory(d) \/ Begin(d) \/ Recheck(d) \/ EnsureIdentities(d)
    BY <2>1, CleanupKeeps, InputDigestsKeeps, ExclusiveKeeps, LoadKeeps,
       EvidenceDirectoryKeeps, BeginKeeps, RecheckKeeps, IdentitiesKeeps
  <2>2. CASE \/ \E i \in Input : InstallInput(d, i)
             \/ PrerequisitesDone(d) \/ CreateBaseline(d) \/ FinishBaseline(d)
             \/ InstallAssets(d)
    BY <2>2, InstallInputKeeps, PrerequisitesKeep, CreateBaselineKeeps,
       FinishBaselineKeeps, InstallAssetsKeeps
  <2>3. CASE \/ \E c \in Component : SwitchComponent(d, c)
             \/ EnableUnits(d) \/ StartRelease(d) \/ WaitReady(d) \/ AwaitHostLayer(d)
    BY <2>3, SwitchKeeps, EnableKeeps, StartKeeps, WaitKeeps, AwaitKeeps
  <2>4. CASE DoctorPasses(d) \/ Record(d) \/ StepFails(d) \/ Quiesce(d) \/ RecordFailure(d)
    BY <2>4, DoctorKeeps, RecordKeeps, StepFailsKeeps, QuiesceKeeps, RecordFailureKeeps
  <2> QED BY <1>5, <2>1, <2>2, <2>3, <2>4 DEF Call
<1>6. CASE HostReboots
  BY <1>6, HostRebootsKeeps
<1>7. CASE UnitsComeUp
  BY <1>7, UnitsComeUpKeeps
<1> QED BY <1>1, <1>2, <1>3, <1>4, <1>5, <1>6, <1>7 DEF Next

\* IInv holds of every reachable state of an install (hostagent/install.py).
THEOREM InstallInvariant ==
  Spec => []IInv
BY InitEstablishes, StepKeeps, PTL DEF Spec

\* The journal never names a phase whose work is not on the Host, whoever was
\* killed where and whatever was staged meanwhile (install.py:66-161).
THEOREM JournalIsNeverAhead ==
  Spec => []JournalNeverAhead
<1>1. IInv => JournalNeverAhead
  BY DEF IInv
<1> QED BY <1>1, InstallInvariant, PTL

\* No unit runs on a Host that is not wholly installed, after any reboot.
THEOREM HalfIsNeverServed ==
  Spec => []NeverServesHalf
<1>1. IInv => NeverServesHalf
  BY DEF IInv, RunsEnabled, EnabledIsWhole, NeverServesHalf, AsFar,
         Identities, Prerequisites, Baseline, Assets
<1> QED BY <1>1, InstallInvariant, PTL

\* An install that reports a failure after the product may have been started
\* has stopped it, or has said that it could not (install.py:144-161).
THEOREM FailedInstallStops ==
  Spec => FailureStopsProduct
<1> DEFINE A == \A d \in Driver :
                  /\ agent[d].pc = "failing" /\ agent'[d].pc = "cleanup" /\ journal' # journal
                  /\ agent[d].phase >= Assets /\ ~agent[d].stopError
                  => units' = "stopped"
<1>1. IInv /\ [Next]_vars => [A]_vars
  <2> SUFFICES ASSUME IInv, Next, NEW d \in Driver,
                      agent[d].pc = "failing", journal' # journal,
                      agent[d].phase >= Assets, ~agent[d].stopError
               PROVE  units' = "stopped"
    OBVIOUS
  <2>1. units = "stopped"
    BY DEF IInv, Quiesced
  <2>2. \A e \in Driver \ {d} : agent[e].pc \notin Holding
    BY DEF IInv, OneHolder, Holding
  <2>3. CASE \E e \in Driver : EvidenceDirectory(e) \/ Begin(e) \/ Record(e)
    BY <2>2, <2>3 DEF EvidenceDirectory, Begin, Record, At, Holding, Working
  <2>4. CASE \E e \in Driver : RecordFailure(e)
    BY <2>1, <2>4 DEF RecordFailure
  <2>5. ASSUME NEW e \in Driver, Call(e), journal' # journal
        PROVE  EvidenceDirectory(e) \/ Begin(e) \/ Record(e) \/ RecordFailure(e)
    BY <2>5
    DEF Call, Cleanup, InputDigests, Exclusive, Load, Recheck, EnsureIdentities,
        InstallInput, PrerequisitesDone, CreateBaseline, FinishBaseline, InstallAssets,
        SwitchComponent, EnableUnits, StartRelease, WaitReady, AwaitHostLayer,
        DoctorPasses, StepFails, Quiesce
  <2>6. \E e \in Driver : Call(e)
    BY DEF Next, Attempt, CleanupEarly, AgentDies, HostReboots, UnitsComeUp
  <2> QED BY <2>3, <2>4, <2>5, <2>6
<1>2. Spec => [][Next]_vars
  BY DEF Spec
<1>3. Spec => [][A]_vars
  BY <1>1, <1>2, InstallInvariant, PTL
<1> QED BY <1>3 DEF FailureStopsProduct

-----------------------------------------------------------------------------
(* One set of inputs                                                        *)

\* Who holds the lock, or waits at it, digested what is on the stage.
Digested == Holding \cup {"lock"}

\* No step but InputDigests and a new attempt changes what an agent digested.
LEMMA DigestsStay ==
  ASSUME IInv, NEW d \in Driver, NEW e \in Driver,
         Call(d) \/ CleanupEarly(d) \/ AgentDies(d), ~InputDigests(d)
  PROVE  /\ agent'[e].inputs = agent[e].inputs
         /\ agent'[e].pc \in Digested => agent[e].pc \in Digested
<1> USE DEF IInv, InstallTyped, Agent, Digested, Holding, Working
<1>1. CASE Cleanup(d) \/ Exclusive(d) \/ EvidenceDirectory(d) \/ Begin(d) \/ Recheck(d)
  BY <1>1 DEF Cleanup, Exclusive, EvidenceDirectory, Begin, Recheck, At, Goto
<1>2. CASE Load(d)
  BY <1>2 DEF Load, At
<1>3. CASE EnsureIdentities(d) \/ CreateBaseline(d) \/ FinishBaseline(d) \/ InstallAssets(d)
  BY <1>3 DEF EnsureIdentities, CreateBaseline, FinishBaseline, InstallAssets, At, Goto
<1>4. CASE EnableUnits(d) \/ StartRelease(d) \/ WaitReady(d)
  BY <1>4 DEF EnableUnits, StartRelease, WaitReady, At, Goto
<1>5. CASE \/ \E i \in Input : InstallInput(d, i)
           \/ \E c \in Component : SwitchComponent(d, c)
           \/ CleanupEarly(d)
  BY <1>5 DEF InstallInput, SwitchComponent, CleanupEarly, At
<1>6. CASE PrerequisitesDone(d)
  BY <1>6 DEF PrerequisitesDone, At
<1>7. CASE AwaitHostLayer(d) \/ DoctorPasses(d) \/ StepFails(d)
  BY <1>7 DEF AwaitHostLayer, DoctorPasses, StepFails, FailsAt, At, Goto
<1>8. CASE Record(d)
  BY <1>8 DEF Record, Reach, At
<1>9. CASE Quiesce(d) \/ RecordFailure(d) \/ AgentDies(d)
  BY <1>9 DEF Quiesce, RecordFailure, AgentDies, At, Goto
<1> QED BY <1>1, <1>2, <1>3, <1>4, <1>5, <1>6, <1>7, <1>8, <1>9 DEF Call

\* Unless a second workstation stages meanwhile, the stage an agent copies from
\* is the one it digested, or gone.
LEMMA StageStays ==
  ASSUME IInv, StageKept, "restaged" \notin Faults, [Next]_vars
  PROVE  StageKept'
<1> USE DEF StageKept
<1>1. CASE UNCHANGED vars
  BY <1>1 DEF vars
<1>2. ASSUME NEW d \in Driver, NEW r \in Release, NEW v \in Version, Attempt(d, r, v)
      PROVE  StageKept'
  <2>1. \A e \in Driver : agent[e].pc \in {"idle", "staged", "cleanup"}
    BY <1>2 DEF Attempt, Fault
  <2>2. \A e \in Driver : agent'[e].pc \in {"idle", "staged", "cleanup"}
    BY <1>2, <2>1 DEF Attempt, IInv, InstallTyped
  <2> QED BY <2>2 DEF Holding, Working
<1>3. ASSUME NEW d \in Driver, InputDigests(d)
      PROVE  StageKept'
  <2>1. ASSUME NEW e \in Driver \ {d}
        PROVE  agent'[e] = agent[e]
    BY <1>3 DEF InputDigests, IInv, InstallTyped
  <2>2. agent'[d].inputs = stage /\ stage' = stage
    BY <1>3 DEF InputDigests, IInv, InstallTyped, Agent
  <2> QED BY <2>1, <2>2
<1>4. ASSUME NEW d \in Driver, Call(d) \/ CleanupEarly(d) \/ AgentDies(d), ~InputDigests(d)
      PROVE  StageKept'
  <2>1. stage' \in {stage, None}
    BY <1>4
    DEF Call, Cleanup, InputDigests, Exclusive, Load, EvidenceDirectory, Begin, Recheck,
        EnsureIdentities, InstallInput, PrerequisitesDone, CreateBaseline,
        FinishBaseline, InstallAssets, SwitchComponent, EnableUnits, StartRelease,
        WaitReady, AwaitHostLayer, DoctorPasses, Record, StepFails, Quiesce,
        RecordFailure, CleanupEarly, AgentDies
  <2> QED BY <1>4, <2>1, DigestsStay DEF Digested
<1>5. CASE HostReboots
  <2>1. ASSUME NEW e \in Driver
        PROVE  agent'[e].pc \notin Holding /\ (agent'[e].pc = "lock" => agent'[e] = agent[e])
    <3>1. agent[e] \in Agent /\ "cleanup" \notin Holding
      BY DEF IInv, InstallTyped, Holding, Working
    <3>2. agent'[e] = IF agent[e].pc \in Holding
                      THEN [agent[e] EXCEPT !.pc = "cleanup"] ELSE agent[e]
      BY <1>5 DEF HostReboots
    <3>3. CASE agent[e].pc \in Holding
      <4>1. agent'[e].pc = "cleanup"
        BY <3>1, <3>2, <3>3 DEF Agent
      <4> QED BY <3>1, <4>1
    <3> QED BY <3>2, <3>3
  <2> QED BY <1>5, <2>1 DEF HostReboots
<1>6. CASE UnitsComeUp
  BY <1>6 DEF UnitsComeUp
<1> QED BY <1>1, <1>2, <1>3, <1>4, <1>5, <1>6 DEF Next

\* The account holds while nothing of it changes.
LEMMA AccountStays ==
  ASSUME Accounted, Written' = Written,
         \A r \in Written : journal'[r].inputs = journal[r].inputs,
         host'.files = host.files, host'.links = host.links,
         host'.identities = host.identities
  PROVE  Accounted'
BY DEF Accounted

\* An agent at work puts in place only what the owner's record names.
LEMMA WorkAccounted ==
  ASSUME IInv, StageKept, Accounted, NEW d \in Driver, Call(d)
  PROVE  Accounted'
<1> DEFINE r == agent[d].release
<1>1. ASSUME agent[d].pc \in Installing
      PROVE  r \in Written /\ journal[r].inputs = agent[d].inputs /\ \A s \in Written : s = r
  BY <1>1, WorksOnRecord DEF IInv, OnRecord, Mine, OneOwner
<1>2. ASSUME UNCHANGED <<journal, host>>
      PROVE  Accounted'
  BY <1>2, AccountStays DEF Written
<1>3. CASE EvidenceDirectory(d)
  <2>1. /\ Written' = Written /\ \A s \in Written : journal'[s] = journal[s]
        /\ host' = host
    BY <1>3 DEF IInv, InstallTyped, EvidenceDirectory, Mine, Agent, JournalType, Written
  <2> QED BY <2>1, AccountStays
<1>4. CASE Begin(d)
  <2>1. agent[d].pc = "mkdir" /\ host' = host
    BY <1>4 DEF Begin, At
  <2> QED BY <2>1 DEF IInv, EmptyAtBegin, Accounted
<1>5. CASE EnsureIdentities(d)
  <2>1. r \in Written
    BY <1>1, <1>5 DEF EnsureIdentities, At, Installing, Working
  <2>2. /\ journal' = journal /\ host'.files = host.files /\ host'.links = host.links
    BY <1>5 DEF EnsureIdentities, IInv, InstallTyped, HostType
  <2> QED BY <2>1, <2>2 DEF Accounted, Written
<1>6. ASSUME NEW i \in Input, InstallInput(d, i)
      PROVE  Accounted'
  <2>1. agent[d].pc = "prerequisites" /\ journal' = journal /\ stage # None
    BY <1>6 DEF InstallInput, At
  <2>2. r \in Written /\ journal[r].inputs = stage /\ \A s \in Written : s = r
    BY <1>1, <2>1 DEF StageKept, Installing, Holding, Working
  <2>3. /\ host'.links = host.links
        /\ \A j \in Input : host'.files[j] \in {host.files[j], stage}
    BY <1>6 DEF InstallInput, IInv, InstallTyped, HostType
  <2> QED BY <2>1, <2>2, <2>3 DEF Accounted, Written
<1>7. ASSUME NEW c \in Component, SwitchComponent(d, c)
      PROVE  Accounted'
  <2>1. r \in Written /\ journal' = journal
    BY <1>1, <1>7 DEF SwitchComponent, At, Installing, Working
  <2>2. /\ host'.files = host.files
        /\ \A b \in Component : host'.links[b] \in {host.links[b], r}
    BY <1>7 DEF SwitchComponent, IInv, InstallTyped, HostType
  <2> QED BY <2>1, <2>2 DEF Accounted, Written
<1>8. CASE CreateBaseline(d) \/ FinishBaseline(d) \/ InstallAssets(d) \/ EnableUnits(d)
  <2>1. /\ journal' = journal /\ host'.files = host.files /\ host'.links = host.links
        /\ host'.identities = host.identities
    BY <1>8
    DEF CreateBaseline, FinishBaseline, InstallAssets, EnableUnits, IInv, InstallTyped, HostType
  <2> QED BY <2>1, AccountStays DEF Written
<1>9. ASSUME NEW phase \in Validated .. Completed,
             NEW status \in {"running", "failed", "completed"},
             agent[d].pc \in Installing, Write(d, phase, status), host' = host
      PROVE  Accounted'
  <2>1. /\ Written' = Written /\ journal'[r].inputs = agent[d].inputs
        /\ \A s \in Release \ {r} : journal'[s] = journal[s]
    BY <1>9, WriteRecords
  <2> QED BY <1>1, <1>9, <2>1, AccountStays
<1>10. CASE Record(d)
  <2>1. agent[d].pc = "record" /\ agent[d].pc \in Installing /\ host' = host
    BY <1>10 DEF Record, At, Installing, Working
  <2>2. agent[d].phase + 1 \in Validated .. Completed
    BY <2>1, WorksOnRecord DEF Validated, Completed
  <2>3. \E status \in {"running", "failed", "completed"} : Write(d, agent[d].phase + 1, status)
    BY <1>10 DEF Record, Reach
  <2> QED BY <1>9, <2>1, <2>2, <2>3
<1>11. CASE RecordFailure(d)
  <2>1. agent[d].pc \in Installing /\ host' = host /\ Write(d, agent[d].phase, "failed")
    BY <1>11 DEF RecordFailure, At, Installing
  <2>2. agent[d].phase \in Validated .. Completed
    BY DEF IInv, InstallTyped, Agent
  <2> QED BY <1>9, <2>1, <2>2
<1>12. \/ UNCHANGED <<journal, host>>
       \/ EvidenceDirectory(d) \/ Begin(d) \/ EnsureIdentities(d)
       \/ \E i \in Input : InstallInput(d, i)
       \/ \E c \in Component : SwitchComponent(d, c)
       \/ CreateBaseline(d) \/ FinishBaseline(d) \/ InstallAssets(d) \/ EnableUnits(d)
       \/ Record(d) \/ RecordFailure(d)
  BY DEF Call, Cleanup, InputDigests, Exclusive, Load, Recheck, PrerequisitesDone,
         StartRelease, WaitReady, AwaitHostLayer, DoctorPasses, StepFails, Quiesce
<1> QED
  BY <1>2, <1>3, <1>4, <1>5, <1>6, <1>7, <1>8, <1>10, <1>11, <1>12

\* A step that is not an agent's changes nothing of the account.
LEMMA StepAccounted ==
  ASSUME IInv, StageKept, Accounted, [Next]_vars
  PROVE  Accounted'
<1>1. CASE \E d \in Driver : Call(d)
  BY <1>1, WorkAccounted
<1>2. CASE UNCHANGED <<journal, host>>
  BY <1>2, AccountStays DEF Written
<1> QED
  BY <1>1, <1>2 DEF Next, vars, Attempt, CleanupEarly, AgentDies, HostReboots, UnitsComeUp

\* The namespace has one owner, and what is in it is what the owner's record
\* says, as long as no second workstation stages while an agent runs: that one
\* replaces the private inputs under it (release_transaction.py:804-846).
THEOREM OneInstallOnly ==
  ASSUME "restaged" \notin Faults
  PROVE  Spec => []InstalledAsRecorded
<1>1. Init => StageKept /\ Accounted
  BY DEF Init, StageKept, Accounted, Written, Holding, Working
<1>2. IInv /\ StageKept /\ Accounted /\ [Next]_vars => StageKept' /\ Accounted'
  BY StageStays, StepAccounted
<1>3. IInv /\ Accounted => InstalledAsRecorded
  <2> SUFFICES ASSUME IInv, Accounted PROVE InstalledAsRecorded
    OBVIOUS
  <2>1. CASE Written = {}
    BY <2>1, FS_EmptySet DEF Accounted, InstalledAsRecorded
  <2>2. CASE Written # {}
    <3>1. PICK r : r \in Written
      BY <2>2
    <3>2. Written = {r}
      BY <3>1 DEF IInv, OneOwner
    <3>3. Cardinality(Written) = 1
      BY <3>2, FS_Singleton
    <3> QED BY <3>3 DEF Accounted, InstalledAsRecorded
  <2> QED BY <2>1, <2>2
<1> QED BY <1>1, <1>2, <1>3, InstallInvariant, PTL DEF Spec
=============================================================================
