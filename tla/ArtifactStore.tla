--------------------------- MODULE ArtifactStore ---------------------------
(***************************************************************************)
(* What a Host holds beside its releases: the objects a release is built    *)
(* from (hostagent/staging.py, the release artifact store) and the models   *)
(* its services load (component_artifacts.py), carried by the deploys of    *)
(* release_bundle.py and retired after a commit.                            *)
(*                                                                         *)
(* A deploy is here as far as it decides what is carried, served and        *)
(* retired: the marker, the build, the links, the gate and the commit are   *)
(* those of ReleaseTransaction, each one step.  The capabilities are        *)
(* sealed with the release (release_bundle.py:_seal).                       *)
(***************************************************************************)
EXTENDS Naturals, FiniteSetsExt

CONSTANTS
  Driver,       \* workstations
  Lead,         \* the one that deploys Goal until the Host serves it
  None,
  Release, Goal,
  Objects,      \* release -> numbers of the objects it is built from
  Model,        \* numbers of the models the components declare
  Selects,      \* release -> the models its capabilities select
  MaxDeploys,   \* bound: deploys other than the Lead's of Goal
  MaxFaults,    \* bound: faults of all kinds
  Faults        \* the faults of this instance

VARIABLES
  store,        \* object -> "absent", "torn" or "whole" under its digest
  carried,      \* release -> the directory its objects are uploaded into
  model,        \* model -> "absent", "torn" or "whole" at its install root
  stage,        \* model -> the upload directory named by its digest
  prepared,     \* releases sealed on the Host
  active,       \* the release every link names
  lingering,    \* the release before it, while a process still runs from it
  marker,       \* the candidate on record
  deploy,       \* the deploy of each driver
  deploys, faults,
  sound         \* history: releases of deploys that were on record from claim to links

vars == <<store, carried, model, stage, prepared, active, lingering, marker, deploy, deploys, faults,
          sound>>
host == <<store, carried, model, stage>>

Idle == [pc |-> "idle", release |-> None, rehearses |-> FALSE, list |-> {}, done |-> {}, from |-> None,
         lost |-> FALSE]

Object == UNION {Objects[r] : r \in Release}

\* A Host that serves a release with its models; its cache may have decayed.
Init ==
  /\ active \in Release \ {Goal} /\ prepared = {active} /\ lingering = None /\ marker = None
  /\ store \in [Object -> {"absent", "torn", "whole"}]
  /\ \A o \in Object : store[o] = "absent" <=> o \notin Objects[active]
  /\ \A o \in Object \ Objects[Goal] : store[o] # "torn"
  /\ carried = [r \in Release |-> None]
  /\ model = [m \in Model |-> IF m \in Selects[active] THEN "whole" ELSE "absent"]
  /\ stage = [m \in Model |-> "none"]
  /\ deploy = [d \in Driver |-> Idle] /\ deploys = 0 /\ faults = 0
  /\ sound = {active}

Fault(f) == f \in Faults /\ faults < MaxFaults /\ faults' = faults + 1

At(d, pc) == deploy[d].pc = pc
Goto(d, pc) == deploy' = [deploy EXCEPT ![d].pc = pc]
Fails(d) == Goto(d, "abort") /\ UNCHANGED <<host, prepared, active, lingering, marker, deploys, sound>>

\* Another deploy of the release that leaves the record goes on all the same.
OffRecord(d, next) ==
  /\ marker' = None
  /\ deploy' = [e \in Driver |->
       IF e = d THEN next
       ELSE [deploy[e] EXCEPT !.lost = @ \/ deploy[e].release = deploy[d].release]]

\* A sweep leaves what a link names and what a process runs from.
Swept(kept) == prepared' = prepared \cap (kept \cup {active, lingering})

-----------------------------------------------------------------------------
\* The deploy claims its candidate.  One already prepared is not carried again,
\* nor is one another workstation sealed.
Begin(d, r, rehearses) ==
  /\ At(d, "idle") /\ marker \in {None, r}
  /\ IF d = Lead /\ r = Goal /\ ~rehearses THEN active # Goal /\ UNCHANGED deploys
     ELSE deploys < MaxDeploys /\ deploys' = deploys + 1
  /\ marker' = r /\ Swept({r})
  /\ deploy' = [deploy EXCEPT ![d] = [Idle EXCEPT
       !.pc = IF r \in prepared THEN "activate" ELSE "ask", !.release = r, !.rehearses = rehearses]]
  /\ UNCHANGED <<host, active, lingering, faults, sound>>

Lacking(r) == {o \in Objects[r] : store[o] # "whole"}

Ask(d) ==
  LET list == Lacking(deploy[d].release) IN
  /\ At(d, "ask")
  /\ deploy' = [deploy EXCEPT ![d].list = list, ![d].pc = IF list = {} THEN "models" ELSE "guard"]
  /\ UNCHANGED <<host, prepared, active, lingering, marker, deploys, faults, sound>>

\* The directory is claimed for one list of objects; without a marker it is
\* claimed for none.
Drifted(r) == carried[r] # None /\ Lacking(r) \notin {{}, carried[r].list}

Guard(d) ==
  LET r == deploy[d].release IN
  /\ At(d, "guard")
  /\ \/ /\ carried[r] = None
        /\ carried' = [carried EXCEPT ![r] = [list |-> deploy[d].list, there |-> {}]]
        /\ Goto(d, "upload")
        /\ UNCHANGED <<store, model, stage, prepared, active, lingering, marker, deploys, sound>>
     \/ /\ carried[r] # None /\ carried[r].list = deploy[d].list
        /\ Goto(d, "upload")
        /\ UNCHANGED <<host, prepared, active, lingering, marker, deploys, sound>>
     \/ carried[r] # None /\ carried[r].list # deploy[d].list /\ Fails(d)
  /\ UNCHANGED faults

\* rsync puts every file in place at its end, and makes the directory another
\* deploy's finalization has removed.
UploadObjects(d) ==
  LET r == deploy[d].release IN
  /\ At(d, "upload")
  /\ carried' = [carried EXCEPT ![r] =
       [list |-> IF @ = None THEN {} ELSE @.list, there |-> deploy[d].list]]
  /\ Goto(d, "finalize")
  /\ UNCHANGED <<store, model, stage, prepared, active, lingering, marker, deploys, faults, sound>>

Finalize(d) ==
  LET r == deploy[d].release IN
  /\ At(d, "finalize")
  /\ IF carried[r] = [list |-> deploy[d].list, there |-> deploy[d].list]
     THEN /\ deploy' = [deploy EXCEPT ![d].pc = "install", ![d].done = {}]
          /\ UNCHANGED <<host, prepared, active, lingering, marker, deploys, sound>>
     ELSE Fails(d)
  /\ UNCHANGED faults

\* An object is copied beside its place, proved there, and renamed into it: what
\* another finalizer has taken meanwhile is not there to be copied.
InstallObject(d) ==
  LET r == deploy[d].release
      o == Min(deploy[d].list \ deploy[d].done) IN
  /\ At(d, "install") /\ deploy[d].done # deploy[d].list
  /\ IF carried[r] # None /\ o \in carried[r].there
     THEN /\ store' = [store EXCEPT ![o] = "whole"]
          /\ carried' = [carried EXCEPT ![r].there = @ \ {o}]
          /\ deploy' = [deploy EXCEPT ![d].done = @ \cup {o}]
          /\ UNCHANGED <<model, stage, prepared, active, lingering, marker, deploys, sound>>
     ELSE Fails(d)
  /\ UNCHANGED faults

EndFinalize(d) ==
  /\ At(d, "install") /\ deploy[d].done = deploy[d].list
  /\ carried' = [carried EXCEPT ![deploy[d].release] = None]
  /\ deploy' = [deploy EXCEPT ![d].pc = "models", ![d].done = {}]
  /\ UNCHANGED <<store, model, stage, prepared, active, lingering, marker, deploys, faults, sound>>

-----------------------------------------------------------------------------
\* The models the release selects, in their fixed order.  Nothing locks the
\* hashing of a retirement against another deploy that asks for the same model:
\* the two at once are the fault "asks_meanwhile".

Wanted(d) == Selects[deploy[d].release] \ deploy[d].done
Next1(d) == Min(Wanted(d))

AskModel(d) ==
  /\ At(d, "models") /\ Wanted(d) # {}
  /\ "asks_meanwhile" \in Faults \/ \A e \in Driver : ~At(e, "match")
  /\ IF model[Next1(d)] = "whole"
     THEN deploy' = [deploy EXCEPT ![d].done = @ \cup {Next1(d)}]
     ELSE Goto(d, "clear")
  /\ UNCHANGED <<host, prepared, active, lingering, marker, deploys, faults, sound>>

\* The pinned files are on the workstation; every workstation carries them into
\* the same directory.
ClearStage(d) ==
  /\ At(d, "clear")
  /\ stage' = [stage EXCEPT ![Next1(d)] = "none"] /\ Goto(d, "send")
  /\ UNCHANGED <<store, carried, model, prepared, active, lingering, marker, deploys, faults, sound>>

SendModel(d) ==
  /\ At(d, "send")
  /\ stage' = [stage EXCEPT ![Next1(d)] = IF @ = "whole" THEN "whole" ELSE "torn"]
  /\ Goto(d, "sending")
  /\ UNCHANGED <<store, carried, model, prepared, active, lingering, marker, deploys, faults, sound>>

\* Files another workstation removes meanwhile do not arrive.
ModelSent(d) ==
  /\ At(d, "sending")
  /\ stage' = [stage EXCEPT ![Next1(d)] = IF @ = "none" THEN "torn" ELSE "whole"]
  /\ Goto(d, "place")
  /\ UNCHANGED <<store, carried, model, prepared, active, lingering, marker, deploys, faults, sound>>

PlaceModel(d) ==
  /\ At(d, "place")
  /\ \/ /\ stage[Next1(d)] = "whole" /\ model[Next1(d)] = "whole"
        /\ deploy' = [deploy EXCEPT ![d].pc = "models", ![d].done = @ \cup {Next1(d)}]
        /\ UNCHANGED <<host, prepared, active, lingering, marker, deploys, sound>>
     \/ /\ stage[Next1(d)] = "whole" /\ model[Next1(d)] = "absent"
        /\ Goto(d, "copy")
        /\ UNCHANGED <<host, prepared, active, lingering, marker, deploys, sound>>
     \/ (stage[Next1(d)] # "whole" \/ model[Next1(d)] = "torn") /\ Fails(d)
  /\ UNCHANGED faults

\* The copy is proved once more before its rename, which no directory with
\* files in it lets pass.
CopyUnproved(d) ==
  /\ At(d, "copy")
  /\ IF model[Next1(d)] = "absent" /\ stage[Next1(d)] # "none"
     THEN /\ model' = [model EXCEPT ![Next1(d)] = stage[Next1(d)]]
          /\ stage' = [stage EXCEPT ![Next1(d)] = "none"]
          /\ deploy' = [deploy EXCEPT ![d].pc = "models", ![d].done = @ \cup {Next1(d)}]
          /\ UNCHANGED <<store, carried, prepared, active, lingering, marker, deploys, sound>>
     ELSE Fails(d)
  /\ UNCHANGED faults
CopyModel(d) ==
  /\ At(d, "copy")
  /\ IF model[Next1(d)] = "absent" /\ stage[Next1(d)] = "whole"
     THEN /\ model' = [model EXCEPT ![Next1(d)] = "whole"]
          /\ stage' = [stage EXCEPT ![Next1(d)] = "none"]
          /\ deploy' = [deploy EXCEPT ![d].pc = "models", ![d].done = @ \cup {Next1(d)}]
          /\ UNCHANGED <<store, carried, prepared, active, lingering, marker, deploys, sound>>
     ELSE Fails(d)
  /\ UNCHANGED faults

Build(d) ==
  /\ At(d, "models") /\ Wanted(d) = {}
  /\ IF Lacking(deploy[d].release) = {}
     THEN /\ prepared' = prepared \cup {deploy[d].release} /\ Goto(d, "activate")
          /\ sound' = IF deploy[d].lost THEN sound \ {deploy[d].release}
                      ELSE sound \cup {deploy[d].release}
          /\ UNCHANGED <<host, active, lingering, marker, deploys>>
     ELSE Fails(d)
  /\ UNCHANGED faults

-----------------------------------------------------------------------------
\* The transaction.

\* A retirement is the call after a commit: unless its workstation stalls, no
\* other deploy comes to its own end before it.
RetirementsOver ==
  "stalls" \in Faults \/ \A e \in Driver : deploy[e].pc \notin {"retire", "match", "remove"}

\* A rehearsal keeps the candidate, and gives the marker back.
Retain(d) ==
  /\ At(d, "activate") /\ deploy[d].rehearses /\ RetirementsOver
  /\ IF marker \in {None, deploy[d].release}
     THEN /\ Swept({deploy[d].release}) /\ OffRecord(d, Idle)
          /\ UNCHANGED <<host, active, lingering, deploys, sound>>
     ELSE Fails(d)
  /\ UNCHANGED faults

Activate(d) ==
  LET r == deploy[d].release IN
  /\ At(d, "activate") /\ ~deploy[d].rehearses
  /\ IF r \in prepared
     THEN /\ active' = r
          /\ lingering' \in IF active = r THEN {lingering} ELSE {None, active}
          /\ deploy' = [deploy EXCEPT ![d].pc = "gate", ![d].from = active]
          /\ sound' = IF deploy[d].lost THEN sound \ {r} ELSE sound
          /\ UNCHANGED <<host, prepared, marker, deploys>>
     ELSE Fails(d)
  /\ UNCHANGED faults

LastProcessEnds ==
  /\ lingering # None /\ lingering' = None
  /\ UNCHANGED <<host, prepared, active, marker, deploy, deploys, faults, sound>>

GateFails(d) ==
  /\ At(d, "gate") /\ deploy[d].from \in prepared /\ Fault("gate_fails")
  /\ active' = deploy[d].from /\ lingering' = None /\ Goto(d, "abort")
  /\ UNCHANGED <<host, prepared, marker, deploys, sound>>

\* The commit sweeps, and tells the driver which release a process still runs.
Commit(d) ==
  LET r == deploy[d].release IN
  /\ At(d, "gate") /\ RetirementsOver
  /\ IF active = r /\ r \in prepared /\ marker \in {None, r}
     THEN /\ Swept({r})
          /\ OffRecord(d, IF lingering = None
               THEN [deploy[d] EXCEPT !.pc = "retire", !.done = {}] ELSE Idle)
          /\ UNCHANGED <<host, active, lingering, deploys, sound>>
     ELSE Fails(d)
  /\ UNCHANGED faults

\* A candidate that a link names is never aborted, and its marker stays.
Abort(d) ==
  LET r == deploy[d].release IN
  /\ At(d, "abort")
  /\ IF marker \in {None, r} /\ active # r
     THEN Swept({}) /\ OffRecord(d, Idle)
     ELSE deploy' = [deploy EXCEPT ![d] = Idle] /\ UNCHANGED <<prepared, marker>>
  /\ UNCHANGED <<host, active, lingering, deploys, faults, sound>>

-----------------------------------------------------------------------------
\* After the commit: the models this release does not select.

Unselected(d) == (Model \ Selects[deploy[d].release]) \ deploy[d].done

\* The agent asks again: the release still active, no candidate on record, the
\* model's units down.
MayRetire(d, m) ==
  /\ active = deploy[d].release /\ marker = None
  /\ m \notin Selects[active] /\ (lingering # None => m \notin Selects[lingering])

Retire(d) ==
  /\ At(d, "retire") /\ Unselected(d) # {}
  /\ deploy' = [deploy EXCEPT ![d] =
       IF MayRetire(d, Min(Unselected(d))) THEN [@ EXCEPT !.pc = "match"] ELSE Idle]
  /\ UNCHANGED <<host, prepared, active, lingering, marker, deploys, faults, sound>>

\* Every file is hashed before the first is removed; what is not whole is kept.
MatchModel(d) ==
  LET m == Min(Unselected(d)) IN
  /\ At(d, "match")
  /\ IF model[m] = "whole"
     THEN model' = [model EXCEPT ![m] = "torn"] /\ Goto(d, "remove")
     ELSE /\ deploy' = [deploy EXCEPT ![d].pc = "retire", ![d].done = @ \cup {m}]
          /\ UNCHANGED model
  /\ UNCHANGED <<store, carried, stage, prepared, active, lingering, marker, deploys, faults, sound>>

RemoveModel(d) ==
  /\ At(d, "remove")
  /\ model' = [model EXCEPT ![Min(Unselected(d))] = "absent"]
  /\ deploy' = [deploy EXCEPT ![d].pc = "retire", ![d].done = @ \cup {Min(Unselected(d))}]
  /\ UNCHANGED <<store, carried, stage, prepared, active, lingering, marker, deploys, faults, sound>>

EndRetire(d) ==
  /\ At(d, "retire") /\ Unselected(d) = {}
  /\ deploy' = [deploy EXCEPT ![d] = Idle]
  /\ UNCHANGED <<host, prepared, active, lingering, marker, deploys, faults, sound>>

-----------------------------------------------------------------------------
\* A connection breaks, or the agent is killed in the middle of a call: what it
\* has put on the Host stays.  A failed retirement fails nothing.
CallFails(d) ==
  /\ \/ deploy[d].pc \in {"upload", "sending"} /\ Fault("transfer_breaks")
     \/ deploy[d].pc \in {"install", "copy"} /\ Fault("agent_stops")
  /\ Fails(d)

\* The agent dies between the directory and the marker in it.
GuardStops(d) ==
  /\ At(d, "guard") /\ carried[deploy[d].release] = None /\ Fault("agent_stops")
  /\ carried' = [carried EXCEPT ![deploy[d].release] = [list |-> {}, there |-> {}]]
  /\ Goto(d, "abort")
  /\ UNCHANGED <<store, model, stage, prepared, active, lingering, marker, deploys, sound>>

RetirementFails(d) ==
  /\ deploy[d].pc \in {"retire", "match", "remove"} /\ Fault("agent_stops")
  /\ deploy' = [deploy EXCEPT ![d] = Idle]
  /\ UNCHANGED <<host, prepared, active, lingering, marker, deploys, sound>>

Proceed(d) ==
  \/ Ask(d) \/ Guard(d) \/ UploadObjects(d) \/ Finalize(d) \/ InstallObject(d) \/ EndFinalize(d)
  \/ AskModel(d) \/ ClearStage(d) \/ SendModel(d) \/ ModelSent(d) \/ PlaceModel(d) \/ CopyModel(d)
  \/ Build(d) \/ Retain(d) \/ Activate(d) \/ Commit(d) \/ Abort(d)
  \/ Retire(d) \/ MatchModel(d) \/ RemoveModel(d) \/ EndRetire(d)

Next ==
  \/ \E d \in Driver :
       \/ \E r \in Release, rehearses \in BOOLEAN : Begin(d, r, rehearses)
       \/ Proceed(d) \/ CallFails(d) \/ GuardStops(d) \/ RetirementFails(d) \/ GateFails(d)
  \/ LastProcessEnds

-----------------------------------------------------------------------------
\* Every model a release selects is whole at its place while the links name the
\* release or a process still runs from it.
ServedHasModels ==
  \A r \in sound \cap {active, lingering} : \A m \in Selects[r] : model[m] = "whole"

\* Only a retirement leaves part of a model at its place, and nothing but a
\* whole object takes the name of its digest.
PublishedWhole ==
  /\ \A m \in Model : model'[m] = "torn" /\ model[m] # "torn" =>
       \E d \in Driver : At(d, "match") /\ deploy'[d].pc = "remove"
  /\ \A o \in Object : store'[o] = "torn" => store[o] = "torn"

Served == active = Goal

\* Nothing on the Host puts these right again: a directory claimed for a list
\* that no longer is what is missing, part of a model at its place.  And a
\* candidate that is served and on record is taken off only by its own deploy.
Refused ==
  \/ Drifted(Goal)
  \/ \E m \in Selects[Goal] : model[m] = "torn"
  \/ marker = active /\ \A d \in Driver : At(d, "idle")
=============================================================================
