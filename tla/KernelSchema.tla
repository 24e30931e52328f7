---------------------------- MODULE KernelSchema ----------------------------
(***************************************************************************)
(* Setting aside a Kernel database the installed Kernel refuses to open     *)
(* (hostagent/kernel_schema.py on a product Host, local_product.py and      *)
(* adapters/supervisord.py on a source run), beside the commands that       *)
(* start, stop, deploy and reinstall the same Host.                         *)
(*                                                                         *)
(* The Kernel itself is external: it creates the database it does not find, *)
(* opens one of its own schema, and never migrates one.                     *)
(***************************************************************************)
EXTENDS Naturals

CONSTANTS
  Agent,          \* operators' kernel-schema-reset commands
  None,
  Uncounted,      \* answers that the loss is not counted
  Schema,         \* schema versions the Kernels of the releases speak
  CountedFrom,    \* the first schema whose selections a Kernel can count
  MaxSelections,  \* bound: Owner Companion selections
  MaxTurns,       \* bound: other commands, and deaths of the Kernel
  MaxFaults,      \* bound: faults of all kinds
  Faults          \* the faults of this instance

VARIABLES
  supervisor,   \* "systemd": a product Host; "supervisord": a source run
  speaks,       \* the schema of the installed Kernel
  reconciler,   \* eidolond runs, and starts the Kernel
  kernel,       \* the Kernel runs, with the database open
  db, log,      \* the database and its write-ahead log, at the Kernel's place
  aside,        \* databases renamed beside it
  lock,         \* holder of the install lock
  agent,        \* the commands
  turns, faults

vars == <<supervisor, speaks, reconciler, kernel, db, log, aside, lock, agent, turns, faults>>

Idle == [pc |-> "idle", ack |-> 0]

Init ==
  /\ supervisor \in {"systemd", "supervisord"}
  /\ speaks \in Schema
  /\ reconciler \in BOOLEAN /\ kernel = FALSE
  /\ db \in {None} \cup [schema : Schema, selections : {MaxSelections - 1}]
  /\ log \in {None} \cup (IF db = None THEN {} ELSE {db.schema})
  /\ aside = {} /\ lock = None /\ agent = [a \in Agent |-> Idle]
  /\ turns = 0 /\ faults = 0

Fault(f) == f \in Faults /\ faults < MaxFaults /\ faults' = faults + 1
Goto(a, pc) == agent' = [agent EXCEPT ![a].pc = pc]

-----------------------------------------------------------------------------
\* What the installed Kernel says of this database, and the operator's answer.

Refuses == db # None /\ db.schema # speaks
Count == IF db.schema < CountedFrom THEN Uncounted ELSE db.selections

Warranted(ack) ==
  Refuses /\ (ack = Count \/ (Count = 0 /\ ack # Uncounted))

Answers == {Uncounted} \cup 0..MaxSelections

\* The plan is read and approved; a refusal changes nothing.  A source run has
\* one operator, who stops the Host without asking again.
Begin(a, ack) ==
  /\ agent[a].pc = "idle"
  /\ supervisor = "supervisord" => \A b \in Agent : agent[b].pc = "idle"
  /\ Warranted(ack)
  /\ agent' = [agent EXCEPT ![a] =
       [pc |-> IF supervisor = "systemd" THEN "lock" ELSE "quiesce", ack |-> ack]]
  /\ UNCHANGED <<supervisor, speaks, reconciler, kernel, db, log, aside, lock, turns, faults>>

TakeLock(a) ==
  /\ agent[a].pc = "lock" /\ lock = None
  /\ lock' = a /\ Goto(a, "ask again")
  /\ UNCHANGED <<supervisor, speaks, reconciler, kernel, db, log, aside, turns, faults>>

Leave(a) ==
  /\ agent' = [agent EXCEPT ![a] = Idle]
  /\ lock' = IF lock = a THEN None ELSE lock

\* Nothing is moved on the strength of a report taken before the lock.
StillWarranted(a) == Warranted(agent[a].ack)
AskNotAgain(a) ==
  /\ agent[a].pc = "ask again"
  /\ Goto(a, "quiesce")
  /\ UNCHANGED <<supervisor, speaks, reconciler, kernel, db, log, aside, lock, turns, faults>>
AskAgain(a) ==
  /\ agent[a].pc = "ask again"
  /\ IF StillWarranted(a) THEN Goto(a, "quiesce") /\ UNCHANGED lock ELSE Leave(a)
  /\ UNCHANGED <<supervisor, speaks, reconciler, kernel, db, log, aside, turns, faults>>

\* The log goes with a Kernel that closes its database and stays with one killed.
KernelStops == kernel' = FALSE /\ log' \in IF kernel THEN {log, None} ELSE {log}

Quiesce(a) ==
  /\ agent[a].pc = "quiesce"
  /\ reconciler' = FALSE /\ KernelStops
  /\ Goto(a, "rename")
  /\ UNCHANGED <<supervisor, speaks, db, aside, lock, turns, faults>>

CopyDatabase(a) ==
  /\ agent[a].pc = "rename"
  /\ aside' = aside \cup ({db} \ {None})
  /\ Goto(a, "rename log")
  /\ UNCHANGED <<supervisor, speaks, reconciler, kernel, db, log, lock, turns, faults>>
RenameDatabase(a) ==
  /\ agent[a].pc = "rename"
  /\ aside' = aside \cup ({db} \ {None})
  /\ db' = None
  /\ Goto(a, "rename log")
  /\ UNCHANGED <<supervisor, speaks, reconciler, kernel, log, lock, turns, faults>>

\* A source run is started by its operator, a product Host by the command.
RenameLog(a) ==
  /\ agent[a].pc = "rename log"
  /\ log' = None
  /\ IF supervisor = "systemd" THEN Goto(a, "start") /\ UNCHANGED lock ELSE Leave(a)
  /\ UNCHANGED <<supervisor, speaks, reconciler, kernel, db, aside, turns, faults>>

StartReconcilers(a) ==
  /\ agent[a].pc = "start"
  /\ reconciler' = TRUE /\ Leave(a)
  /\ UNCHANGED <<supervisor, speaks, kernel, db, log, aside, turns, faults>>

\* A question, a stop or a start fails, or the command is killed; a death
\* between the two renames is granted apart.
AgentFails(a) ==
  /\ \/ agent[a].pc = "ask again" /\ Fault("ask_fails")
     \/ agent[a].pc = "quiesce" /\ Fault("quiesce_fails")
     \/ agent[a].pc = "start" /\ Fault("start_fails")
     \/ agent[a].pc \notin {"idle", "rename log"} /\ Fault("agent_dies")
     \/ agent[a].pc = "rename log" /\ Fault("dies_between_renames")
  /\ Leave(a)
  /\ UNCHANGED <<supervisor, speaks, reconciler, kernel, db, log, aside, turns>>

-----------------------------------------------------------------------------
\* The other commands on this Host.  A source run has one operator.

Turn == turns < MaxTurns /\ turns' = turns + 1
Quiet == supervisor = "supervisord" => \A a \in Agent : agent[a].pc = "idle"
Between(pcs) == \E a \in Agent : agent[a].pc \in pcs

StopHost ==
  /\ Turn /\ Quiet /\ reconciler
  /\ reconciler' = FALSE /\ KernelStops
  /\ UNCHANGED <<supervisor, speaks, db, aside, lock, agent, faults>>

\* Start takes the activation lock, not the install lock.
StartHost ==
  /\ Quiet /\ ~reconciler
  /\ Between({"rename", "rename log"}) => "starts_meanwhile" \in Faults
  /\ reconciler' = TRUE
  /\ UNCHANGED <<supervisor, speaks, kernel, db, log, aside, lock, agent, turns, faults>>

\* A deploy, or another checkout, puts the Kernel of another release there.
Deploy(schema) ==
  /\ Turn /\ Quiet /\ schema # speaks
  /\ Between({"quiesce", "rename", "rename log", "start"}) => "deploys_meanwhile" \in Faults
  /\ speaks' = schema
  /\ reconciler' = TRUE /\ KernelStops
  /\ UNCHANGED <<supervisor, db, aside, lock, agent, faults>>

\* Under the install lock: a reset, or an install, leaves no database.
Reinstall ==
  /\ Turn /\ Quiet /\ lock = None
  /\ db' = None /\ log' = None /\ kernel' = FALSE /\ reconciler' = TRUE
  /\ UNCHANGED <<supervisor, speaks, aside, lock, agent, faults>>

\* One service restarted through eidolond, which manages it.
RestartKernel ==
  /\ Turn /\ reconciler /\ KernelStops
  /\ UNCHANGED <<supervisor, speaks, reconciler, db, aside, lock, agent, faults>>

-----------------------------------------------------------------------------
\* The Kernel (external).

KernelOpens ==
  /\ reconciler /\ ~kernel /\ ~Refuses
  /\ kernel' = TRUE
  /\ db' = IF db = None THEN [schema |-> speaks, selections |-> 0] ELSE db
  /\ log' = IF log = None THEN speaks ELSE log
  /\ UNCHANGED <<supervisor, speaks, reconciler, aside, lock, agent, turns, faults>>

OwnerSelects ==
  /\ kernel /\ db.selections < MaxSelections
  /\ db' = [db EXCEPT !.selections = @ + 1]
  /\ UNCHANGED <<supervisor, speaks, reconciler, kernel, log, aside, lock, agent, turns, faults>>

-----------------------------------------------------------------------------
Proceed(a) ==
  \/ TakeLock(a) \/ AskAgain(a) \/ Quiesce(a) \/ RenameDatabase(a) \/ RenameLog(a)
  \/ StartReconcilers(a)

\* The operator who read the plan and answers what it says.
Answered == \E a \in Agent : db # None /\ Begin(a, Count)

Next ==
  \/ \E a \in Agent : \/ \E ack \in Answers : Begin(a, ack)
                      \/ Proceed(a)
                      \/ AgentFails(a)
  \/ StopHost \/ StartHost \/ Reinstall \/ RestartKernel
  \/ \E schema \in Schema : Deploy(schema)
  \/ KernelOpens \/ OwnerSelects

-----------------------------------------------------------------------------
\* A database leaves the Kernel's place only into a reset, or beside it, with
\* no Kernel running on it, when the installed Kernel refuses it and some
\* operator accepted exactly what it holds.
SetAside ==
  db' \notin {db} /\ db # None /\ \E a \in Agent : agent[a].pc = "rename" /\ agent'[a].pc # "rename"
WarrantedWhenSetAside ==
  SetAside => /\ db \in aside' /\ ~kernel
              /\ \E a \in Agent : agent[a].pc = "rename" /\ StillWarranted(a)

\* A Kernel never starts beside a log another database left.
OwnLog == kernel' /\ ~kernel => log \in {None, speaks}
=============================================================================
