---------------------------- MODULE StateRestore ----------------------------
(***************************************************************************)
(* Restoring a state backup (hostagent/authorities.py restore, with        *)
(* command_stop_units, lifecycle start and memory_realms.put_back): the    *)
(* product is stopped, every authority database is replaced file by file,  *)
(* the product is started, and the memory service is asked to become each  *)
(* copied space again.                                                     *)
(*                                                                         *)
(* A database is its main file and its sidecars (-wal, -shm, -journal, one *)
(* file here); a file is known by the version it belongs to.  A caller is  *)
(* a workstation with the agent it started: the code takes no lock around  *)
(* a restore.  systemd, eidolond and the memory service are external.      *)
(***************************************************************************)
EXTENDS Naturals, FiniteSets

CONSTANTS
  Caller,      \* workstations that may restore this Host
  Authority,   \* databases in the inventory, each with the unit serving it
  Space,       \* memory spaces of the Host
  Package,     \* backups that may be restored
  Carries,     \* the memory spaces each package holds
  Live,        \* the version the Host starts with
  Fresh,       \* an empty database, made by a unit that found none
  Mixed,       \* a main file of one version read with the log of another
  None,        \* no file, or a unit that is down
  Manager,     \* eidolond, which starts the units that are down
  Faults,      \* which of FaultKind may happen
  MaxFaults,   \* how many of them in one run,
  MaxCalls     \* and how many restores (the bounds of the model)

FaultKind == { "refused",        \* the plan or the source preflight refuses
               "spoilt",         \* a file of the package changes on disk
               "write_fails",    \* a copy or a rename fails
               "stop_raises",    \* the stop fails and says so
               "stop_fails",     \* it fails with an exit code only
               "start_fails",    \* the product does not come up in time
               "space_refuses",  \* the memory service refuses or times out
               "interrupt",      \* Ctrl-C on a source Host
               "agent_dies" }    \* the agent is killed

Version == Package \cup {Live}
Unit == Authority \cup {Manager}
Kind == {"main", "sidecar"}
Root == "root"   \* the package's own directories, next to its spaces

ASSUME RestoreAssumption ==
  /\ Authority # {} /\ Manager \notin Authority /\ Package # {}
  /\ {Fresh, Mixed, None} \cap Version = {} /\ Live \notin Package
  /\ Root \notin Space
  /\ Carries \in [Package -> SUBSET Space]
  /\ Faults \subseteq FaultKind /\ MaxFaults \in Nat /\ MaxCalls \in Nat

VARIABLES
  file,     \* the database files of each authority, by version
  up,       \* units that run
  seen,     \* what the unit of each authority opened
  space,    \* the version of each memory space
  stage,    \* the package on the Host: version, spoilt items, what is lent
  call,     \* each caller's progress
  before,   \* the files as each caller's restore found them (history)
  left,     \* restores left
  faults    \* faults left

vars == <<file, up, seen, space, stage, call, before, left, faults>>

Replacing == {"replace", "main", "sidecar", "publish", "undo"}
Stopping  == {"stop", "replan"}

Resting(p, failed) ==
  [pc |-> "idle", package |-> p, phase |-> 1, pending |-> {}, todo |-> {}, at |-> None,
   saved |-> {}, created |-> {}, spaces |-> {}, failed |-> failed]

Init ==
  /\ file = [a \in Authority |-> [k \in Kind |-> Live]]
  /\ up = Unit
  /\ seen = [a \in Authority |-> Live]
  /\ space = [s \in Space |-> Live]
  /\ stage = [version |-> None, spoilt |-> {}, lent |-> {}]
  /\ call = [c \in Caller |-> Resting(CHOOSE p \in Package : TRUE, FALSE)]
  /\ before = [c \in Caller |-> file]
  /\ left = MaxCalls
  /\ faults = MaxFaults

-----------------------------------------------------------------------------
At(c, pc) == call[c].pc = pc /\ UNCHANGED <<left, faults>>

Goto(c, pc) == call' = [call EXCEPT ![c].pc = pc]

Fault(c, pc, kind) ==
  /\ call[c].pc = pc
  /\ kind \in Faults /\ faults > 0 /\ faults' = faults - 1
  /\ UNCHANGED left

\* Into the except block, which puts back what was moved.
Raise(c) == call' = [call EXCEPT ![c].pc = "undo", ![c].failed = TRUE]

\* A call that ends before the product was stopped.
Refuse(c) == call' = [call EXCEPT ![c] = Resting(call[c].package, TRUE)]

-----------------------------------------------------------------------------
(* Units                                                                   *)

\* What SQLite makes of the files it opens.
Opened(a) ==
  IF file[a]["main"] = None THEN Fresh
  ELSE IF file[a]["sidecar"] \in {None, file[a]["main"]} THEN file[a]["main"] ELSE Mixed

\* A unit that is started opens its database, or makes one, and writes its log.
UnitStarts(a) ==
  /\ a \notin up /\ Manager \in up
  /\ up' = up \cup {a}
  /\ seen' = [seen EXCEPT ![a] = Opened(a)]
  /\ file' = [file EXCEPT ![a] = IF Opened(a) = Mixed THEN @ ELSE [k \in Kind |-> Opened(a)]]
  /\ UNCHANGED <<space, stage, call, before, left, faults>>

\* A unit going down closes its database; a clean close removes the log.
Down(u, clean) ==
  /\ up' = up \ {u}
  /\ seen' = IF u = Manager THEN seen ELSE [seen EXCEPT ![u] = None]
  /\ file' = IF clean /\ u # Manager /\ seen[u] # Mixed
             THEN [file EXCEPT ![u]["sidecar"] = None] ELSE file

-----------------------------------------------------------------------------
(* Plan                                                                    *)

\* prepare-restore-stage refuses a directory the operator does not own; the
\* upload then puts the whole package there.
Upload(c, p) ==
  /\ call[c].pc = "idle" /\ left > 0 /\ left' = left - 1
  /\ IF Root \in stage.lent
     THEN Refuse(c) /\ UNCHANGED stage
     ELSE /\ stage' = [version |-> p, spoilt |-> {}, lent |-> {}]
          /\ call' = [call EXCEPT ![c] = [Resting(p, FALSE) EXCEPT !.pc = "plan"]]
  /\ UNCHANGED <<file, up, seen, space, before, faults>>

Spoil(i) ==
  /\ "spoilt" \in Faults /\ faults > 0 /\ faults' = faults - 1
  /\ stage.version # None
  /\ stage' = [stage EXCEPT !.spoilt = @ \cup {i}]
  /\ UNCHANGED <<file, up, seen, space, call, before, left>>

\* The digest the manifest names for a copy or a space is the one on disk.
Good(c, i) == stage.version = call[c].package /\ i \notin stage.spoilt

\* restore_plan proves every copy and space of the package first.
PackageWhole(c) == \A i \in Authority \cup Carries[call[c].package] : Good(c, i)

\* Nothing is stopped for a package that is not whole.
Plan(c) ==
  /\ \/ At(c, "plan") /\ PackageWhole(c)
        /\ call' = [call EXCEPT ![c].pc = "stop"]
     \/ At(c, "plan") /\ ~PackageWhole(c) /\ Refuse(c)
     \/ Fault(c, "plan", "refused") /\ Refuse(c)
  /\ UNCHANGED <<file, up, seen, space, stage, before>>

-----------------------------------------------------------------------------
(* Stop                                                                    *)

\* Mutant: the workers first, under a manager that starts them again.
StopPhasesReversed == <<Authority, {Manager}>>

\* The manager has to be gone before the workers it would put back.
StopPhases == <<{Manager}, Authority>>

\* One systemctl stop for the units of a phase.
StopPhase(c) ==
  /\ At(c, "stop") /\ call[c].pending = {}
  /\ call' = [call EXCEPT ![c].pending = StopPhases[call[c].phase]]
  /\ UNCHANGED <<file, up, seen, space, stage, before>>

\* Its exit code is not looked at, and what goes down need not close cleanly.
StopUnit(c, u) ==
  /\ u \in call[c].pending
  /\ \/ At(c, "stop") /\ \E clean \in BOOLEAN : Down(u, clean)
     \/ Fault(c, "stop", "stop_fails") /\ UNCHANGED <<file, up, seen>>
  /\ LET pending == call[c].pending \ {u} IN
     call' = [call EXCEPT ![c].pending = pending,
                ![c].phase = IF pending = {} /\ @ = 1 THEN 2 ELSE @,
                ![c].pc = IF pending = {} /\ call[c].phase = 2 THEN "replan" ELSE @]
  /\ UNCHANGED <<space, stage, before>>

\* A stop that raises is undone like a failed replacement: nothing was moved.
StopRaises(c) ==
  /\ Fault(c, "stop", "stop_raises")
  /\ Raise(c)
  /\ UNCHANGED <<file, up, seen, space, stage, before>>

\* The package is proved again behind the stop.
Replan(c) ==
  /\ At(c, "replan")
  /\ IF PackageWhole(c)
     THEN call' = [call EXCEPT ![c].pc = "replace", ![c].todo = Authority]
     ELSE Raise(c)
  /\ before' = [before EXCEPT ![c] = file]
  /\ UNCHANGED <<file, up, seen, space, stage>>

-----------------------------------------------------------------------------
(* Replace, one authority after the other                                  *)

\* The copy is made beside its destination and its digest checked again.
CopyBeside(c, a) ==
  /\ a \in call[c].todo
  /\ \/ At(c, "replace") /\ Good(c, a)
        /\ call' = [call EXCEPT ![c].pc = "main", ![c].at = a]
     \/ At(c, "replace") /\ ~Good(c, a) /\ Raise(c)
     \/ Fault(c, "replace", "write_fails") /\ Raise(c)
  /\ UNCHANGED <<file, up, seen, space, stage, before>>

\* Mutant: the files beside the database stay where they are.
MoveMainOnly(c, k) ==
  LET a == call[c].at IN
  /\ \/ /\ At(c, k)
        /\ file' = [file EXCEPT ![a]["main"] = None]
        /\ call' = [call EXCEPT
             ![c].pc = IF k = "main" THEN "sidecar" ELSE "publish",
             ![c].saved = IF file[a]["main"] = None THEN @
                          ELSE @ \cup {[authority |-> a, kind |-> "main",
                                        version |-> file[a]["main"]]}]
     \/ Fault(c, k, "write_fails") /\ Raise(c) /\ UNCHANGED file
  /\ UNCHANGED <<up, seen, space, stage, before>>

\* What is there is moved aside under a name kept for the undo.
MoveAside(c, k) ==
  LET a == call[c].at IN
  /\ \/ /\ At(c, k)
        /\ file' = [file EXCEPT ![a][k] = None]
        /\ call' = [call EXCEPT
             ![c].pc = IF k = "main" THEN "sidecar" ELSE "publish",
             ![c].saved = IF file[a][k] = None THEN @
                          ELSE @ \cup {[authority |-> a, kind |-> k,
                                        version |-> file[a][k]]}]
     \/ Fault(c, k, "write_fails") /\ Raise(c) /\ UNCHANGED file
  /\ UNCHANGED <<up, seen, space, stage, before>>

Publish(c) ==
  LET a == call[c].at IN
  /\ \/ /\ At(c, "publish")
        /\ file' = [file EXCEPT ![a]["main"] = call[c].package]
        /\ call' = [call EXCEPT ![c].pc = "replace", ![c].at = None,
                                ![c].created = @ \cup {a}, ![c].todo = @ \ {a}]
     \/ Fault(c, "publish", "write_fails") /\ Raise(c) /\ UNCHANGED file
  /\ UNCHANGED <<up, seen, space, stage, before>>

Replaced(c) ==
  /\ At(c, "replace") /\ call[c].todo = {}
  /\ Goto(c, "start")
  /\ UNCHANGED <<file, up, seen, space, stage, before>>

\* The files after unlinking what was created and moving back what was saved.
PutBack(c) ==
  [a \in Authority |-> [k \in Kind |->
     LET old == {s \in call[c].saved : s.authority = a /\ s.kind = k} IN
     IF old # {} THEN (CHOOSE s \in old : TRUE).version
     ELSE IF k = "main" /\ a \in call[c].created THEN None ELSE file[a][k]]]

\* Mutant: only databases whose copy was published are put back.
UndoCreated(c) ==
  /\ At(c, "undo")
  /\ file' = [a \in Authority |-> IF a \in call[c].created THEN PutBack(c)[a] ELSE file[a]]
  /\ Goto(c, "start")
  /\ UNCHANGED <<up, seen, space, stage, before>>

Undo(c) ==
  /\ At(c, "undo")
  /\ file' = PutBack(c)
  /\ Goto(c, "start")
  /\ UNCHANGED <<up, seen, space, stage, before>>

\* KeyboardInterrupt is no Exception: the undo is skipped, the start is not.
Interrupt(c) ==
  /\ call[c].pc \in (Stopping \cup Replacing) \ {"undo"}
  /\ Fault(c, call[c].pc, "interrupt")
  /\ call' = [call EXCEPT ![c].pc = "start", ![c].failed = TRUE]
  /\ UNCHANGED <<file, up, seen, space, stage, before>>

AgentDies(c) ==
  /\ call[c].pc # "idle"
  /\ Fault(c, call[c].pc, "agent_dies")
  /\ Refuse(c)
  /\ UNCHANGED <<file, up, seen, space, stage, before>>

-----------------------------------------------------------------------------
(* Start, and the memory spaces behind it                                  *)

\* Mutant: nothing is started again behind a failure.
StartUnlessFailed(c) ==
  /\ At(c, "start")
  /\ IF call[c].failed THEN Refuse(c) /\ UNCHANGED up
     ELSE up' = up \cup {Manager} /\ Goto(c, "wait")
  /\ UNCHANGED <<file, seen, space, stage, before>>

\* The finally block starts the product whatever happened before it.
Start(c) ==
  /\ At(c, "start")
  /\ up' = up \cup {Manager}
  /\ Goto(c, "wait")
  /\ UNCHANGED <<file, seen, space, stage, before>>

\* Readiness is waited for with a timeout; only then are the spaces asked for.
WaitReady(c) ==
  /\ \/ At(c, "wait") /\ up = Unit /\ ~call[c].failed /\ Goto(c, "lend")
     \/ At(c, "wait") /\ up = Unit /\ call[c].failed /\ Refuse(c)
     \/ Fault(c, "wait", "start_fails") /\ Refuse(c)
  /\ UNCHANGED <<file, up, seen, space, stage, before>>

Answer(c) == call' = [call EXCEPT ![c] = Resting(call[c].package, call[c].failed)]

\* The service has to traverse the package to reach its own copies.
LendRoot(c) ==
  /\ At(c, "lend")
  /\ LET spaces == Carries[call[c].package] IN
     IF spaces = {} THEN Answer(c) /\ UNCHANGED stage
     ELSE /\ stage' = [stage EXCEPT !.lent = @ \cup {Root}]
          /\ call' = [call EXCEPT ![c].pc = "space", ![c].spaces = spaces]
  /\ UNCHANGED <<file, up, seen, space, before>>

\* A copy is verified and lent right before it is asked for.
LendSpace(c, s) ==
  /\ At(c, "space") /\ s \in call[c].spaces
  /\ IF ~Good(c, s)
     THEN /\ call' = [call EXCEPT ![c].pc = "return", ![c].failed = TRUE]
          /\ UNCHANGED stage
     ELSE /\ stage' = [stage EXCEPT !.lent = @ \cup {s}]
          /\ call' = [call EXCEPT ![c].pc = "asked", ![c].at = s]
  /\ UNCHANGED <<file, up, seen, space, before>>

\* Mutant: a refused space is left out and the restore goes on.
RestoreSpaceSkipping(c) ==
  LET s == call[c].at IN
  /\ \/ At(c, "asked") /\ space' = [space EXCEPT ![s] = call[c].package]
     \/ Fault(c, "asked", "space_refuses") /\ UNCHANGED space
  /\ call' = [call EXCEPT ![c].pc = "space", ![c].at = None, ![c].spaces = @ \ {s}]
  /\ stage' = [stage EXCEPT !.lent = @ \ {s}]
  /\ UNCHANGED <<file, up, seen, before>>

\* The memory service becomes the copy, or not, or after its caller gave up.
RestoreSpace(c) ==
  LET s == call[c].at IN
  /\ \/ /\ At(c, "asked")
        /\ space' = [space EXCEPT ![s] = call[c].package]
        /\ call' = [call EXCEPT ![c].pc = "space", ![c].at = None, ![c].spaces = @ \ {s}]
     \/ /\ Fault(c, "asked", "space_refuses")
        /\ space' \in {space, [space EXCEPT ![s] = call[c].package]}
        /\ call' = [call EXCEPT ![c].pc = "return", ![c].at = None, ![c].failed = TRUE]
  /\ stage' = [stage EXCEPT !.lent = @ \ {s}]
  /\ UNCHANGED <<file, up, seen, before>>

SpacesDone(c) ==
  /\ At(c, "space") /\ call[c].spaces = {}
  /\ Goto(c, "return")
  /\ UNCHANGED <<file, up, seen, space, stage, before>>

\* The package is the operator's again whatever the service said.
ReturnRoot(c) ==
  /\ At(c, "return")
  /\ stage' = [stage EXCEPT !.lent = @ \ {Root}]
  /\ Answer(c)
  /\ UNCHANGED <<file, up, seen, space, before>>

-----------------------------------------------------------------------------
\* What a call does next; every command in it has a timeout.
Continue(c) ==
  \/ Plan(c) \/ StopPhase(c) \/ (\E u \in Unit : StopUnit(c, u)) \/ StopRaises(c)
  \/ Replan(c) \/ (\E a \in Authority : CopyBeside(c, a))
  \/ (\E k \in Kind : MoveAside(c, k)) \/ Publish(c) \/ Replaced(c) \/ Undo(c)
  \/ Interrupt(c) \/ Start(c) \/ WaitReady(c) \/ LendRoot(c)
  \/ (\E s \in Space : LendSpace(c, s)) \/ RestoreSpace(c) \/ SpacesDone(c) \/ ReturnRoot(c)

Next ==
  \/ \E c \in Caller, p \in Package : Upload(c, p)
  \/ \E c \in Caller : Continue(c) \/ AgentDies(c)
  \/ \E a \in Authority : UnitStarts(a)
  \/ \E i \in Authority \cup Space : Spoil(i)

Spec == Init /\ [][Next]_vars

FairSpec ==
  /\ Spec
  /\ \A c \in Caller : WF_vars(Continue(c))
  /\ \A a \in Authority : WF_vars(UnitStarts(a))

-----------------------------------------------------------------------------
(* Properties                                                              *)

\* The version of the Host as a whole: while one database after the other is
\* replaced it is still the one the restore found.
HostVersion ==
  LET anywhere == CHOOSE a \in Authority : TRUE
      midway   == {c \in Caller : /\ call[c].pc \in Replacing
                                  /\ call[c].saved # {} /\ call[c].created # Authority}
  IN IF midway = {} THEN file[anywhere]["main"]
     ELSE before[CHOOSE c \in midway : TRUE][anywhere]["main"]

Replacement == INSTANCE StateReplacement
                 WITH content <- HostVersion,
                      serving <- [a \in Authority |-> IF a \in up THEN seen[a] ELSE None]

\* "Replace every authority": file by file and failing anywhere, the restore
\* implements one replacement of the whole Host behind the product's back; no
\* unit ever reads a database of another version than the others.
ReplacedAsOne == Replacement!Spec

\* "The product stops while its authorities are replaced": no unit of it runs,
\* nor the manager that would start one, as long as files are moved.
QuiescedWhileReplaced ==
  \A c \in Caller : call[c].pc \in Replacing \ {"undo"} => up = {}

\* A write failure puts back the databases and the files beside them: what a
\* failed restore starts the product on is what it found.
UndoIsExact ==
  [][\A c \in Caller :
       call[c].pc = "undo" /\ call'[c].pc = "start" /\ call[c].saved # {}
         => file' = before[c]]_vars

\* A restore that reports success made every database, each without a log of
\* another version beside it, and every space it carried, the package's.
RestoredIsWhole ==
  [][\A c \in Caller : LET p == call[c].package IN
       call[c].pc # "idle" /\ call'[c].pc = "idle" /\ ~call'[c].failed =>
         /\ \A a \in Authority : file[a]["main"] = p /\ file[a]["sidecar"] \in {None, p}
         /\ \A s \in Carries[p] : space[s] = p]_vars

\* "The operator keeps the copy; the service only ever borrows it": nothing of
\* the package stays lent once no restore runs.
PackageReturned ==
  (\A c \in Caller : call[c].pc = "idle") => stage.lent = {}

\* Whatever fails between the stop and the start, the product comes back.
ProductComesBack == up # Unit ~> up = Unit
=============================================================================
