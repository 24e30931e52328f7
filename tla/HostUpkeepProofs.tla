-------------------------- MODULE HostUpkeepProofs --------------------------
(***************************************************************************)
(* What is proved of the upkeep commands: for any Host, any operators, and  *)
(* any bound, that no order of theirs, no crash between two of their steps  *)
(* and no other command's interleaving breaks what each promises.           *)
(*                                                                         *)
(* One section per machine, which names what HostUpkeep keeps in x1..x14    *)
(* for it; in each, the type correctness of its state, the parts of its     *)
(* inductive invariant, one lemma per action, and the theorem.  The faults  *)
(* a theorem grants away (the ...Granted operators) are the ones under      *)
(* which the code itself does not keep the promise.                         *)
(***************************************************************************)
EXTENDS HostUpkeep, FiniteSetTheorems, TLAPS

-----------------------------------------------------------------------------
(* KernelSchema: x1 supervisor, x2 speaks, x3 reconciler, x4 kernel, x5 db,  *)
(* x6 log, x7 aside, x8 lock, x9 agent, x10 turns.                            *)

KernelCommand ==
  [pc : {"idle", "lock", "ask again", "quiesce", "rename", "rename log", "start"}, ack : Kernel!Answers \cup {0}]
KernelDatabase == [schema : Schema, selections : 0..MaxSelections]
KernelTyped ==
  /\ x1 \in {"systemd", "supervisord"}
  /\ x2 \in Schema
  /\ x3 \in BOOLEAN /\ x4 \in BOOLEAN
  /\ x5 \in KernelDatabase \cup {None}
  /\ x9 \in [Operator -> KernelCommand]

Pc(a) == x9[a].pc
Ack(a) == x9[a].ack

\* One command at a time is past its lock: the install lock's holder on a
\* product Host, the only command of a source run's operator.
Inside == {"ask again", "quiesce", "rename", "rename log", "start"}
OneInside ==
  /\ x1 = "systemd" => \A a \in Operator : Pc(a) \in Inside => x8 = a
  /\ x1 = "supervisord" => \A a, b \in Operator : Pc(a) # "idle" /\ Pc(b) # "idle" => a = b

\* What a command is about to move is what its operator accepted to lose.
StaysWarranted == \A a \in Operator : Pc(a) \in {"quiesce", "rename"} => Kernel!Warranted(Ack(a))

\* No Kernel runs, or comes up, while files are renamed.
Quiesced == \A a \in Operator : Pc(a) \in {"rename", "rename log"} => ~x3 /\ ~x4

\* A Kernel runs on a database of its schema; a log is of the database beside it.
OpenedOwn == x4 => x5 # None /\ x5.schema = x2
LogBeside ==
  /\ \A a \in Operator : Pc(a) = "rename log" => x5 = None
  /\ x6 # None => \/ x5 # None /\ x5.schema = x6
                  \/ \E a \in Operator : Pc(a) = "rename log"

KernelInv ==
  KernelTyped /\ OneInside /\ StaysWarranted /\ Quiesced /\ OpenedOwn /\ LogBeside

KernelGranted ==
  /\ "starts_meanwhile" \notin Faults /\ "deploys_meanwhile" \notin Faults
  /\ "dies_between_renames" \notin Faults

LEMMA KernelInit == ASSUME UpkeepAssumption, Kernel!Init PROVE KernelInv
<1>1. /\ \A a \in Operator : Pc(a) = "idle"
      /\ x9 \in [Operator -> KernelCommand]
  BY DEF Kernel!Init, Kernel!Idle, KernelCommand, Pc
<1>2. /\ x4 = FALSE /\ x1 \in {"systemd", "supervisord"} /\ x2 \in Schema /\ x3 \in BOOLEAN
      /\ x5 \in [schema : Schema, selections : {MaxSelections - 1}] \cup {None}
      /\ x6 # None => x5 # None /\ x5.schema = x6
  BY DEF Kernel!Init
<1>3. x5 \in KernelDatabase \cup {None}
  BY <1>2 DEF KernelDatabase, UpkeepAssumption
<1> QED BY <1>1, <1>2, <1>3 DEF KernelInv, KernelTyped, OneInside, StaysWarranted, Quiesced, OpenedOwn, LogBeside, Inside

\* The command a moves on; the others stand where they stood.
Moves(a, pc, ack) ==
  /\ \A b \in Operator : Pc(b)' = IF b = a THEN pc ELSE Pc(b)
  /\ \A b \in Operator : Ack(b)' = IF b = a THEN ack ELSE Ack(b)

KernelPromise == Kernel!WarrantedWhenSetAside /\ Kernel!OwnLog

\* A command that does not touch what the Kernel opens, and does not get to
\* where it will without being warranted.
LEMMA KernelMove ==
  ASSUME KernelInv, NEW a \in Operator, NEW pc, NEW ack, Moves(a, pc, ack),
         UNCHANGED <<x2, x3, x4, x5, x6>>, Pc(a) # "rename log",
         pc \notin {"rename", "rename log"}, pc = "quiesce" => Kernel!Warranted(ack)
  PROVE  StaysWarranted' /\ Quiesced' /\ OpenedOwn' /\ LogBeside' /\ KernelPromise
<1>1. StaysWarranted'
  BY DEF KernelInv, Moves, StaysWarranted, Kernel!Warranted, Kernel!Refuses, Kernel!Count
<1>2. Quiesced' /\ OpenedOwn' /\ LogBeside'
  BY DEF KernelInv, Moves, Quiesced, OpenedOwn, LogBeside
<1> QED BY <1>1, <1>2
  DEF KernelPromise, Kernel!WarrantedWhenSetAside, Kernel!OwnLog, Kernel!SetAside

\* The command a goes on to another step, with the answer it was given.
LEMMA KernelGoto ==
  ASSUME KernelInv, NEW a \in Operator, NEW pc \in {"ask again", "quiesce", "rename", "rename log", "start"},
         Kernel!Goto(a, pc)
  PROVE  x9' \in [Operator -> KernelCommand] /\ Moves(a, pc, Ack(a))
BY DEF KernelInv, Kernel!Goto, KernelTyped, KernelCommand, Moves, Pc, Ack

LEMMA KernelBegin ==
  ASSUME KernelInv, NEW a \in Operator, NEW ack \in Kernel!Answers, Kernel!Begin(a, ack)
  PROVE  KernelInv' /\ KernelPromise
<1> DEFINE pc == IF x1 = "systemd" THEN "lock" ELSE "quiesce"
<1>1. /\ UNCHANGED <<x1, x2, x3, x4, x5, x6, x8>> /\ Pc(a) = "idle" /\ Kernel!Warranted(ack)
      /\ x1 = "supervisord" => \A b \in Operator : Pc(b) = "idle"
  BY DEF Kernel!Begin, Pc
<1>2. KernelTyped' /\ Moves(a, pc, ack)
  BY DEF KernelInv, Kernel!Begin, KernelTyped, KernelCommand, Moves, Pc, Ack
<1>3. pc \in {"lock", "quiesce"} /\ (x1 = "systemd" => pc = "lock")
  OBVIOUS
<1> HIDE DEF pc
<1>4. OneInside' BY <1>1, <1>2, <1>3 DEF KernelInv, KernelTyped, Moves, OneInside, Inside
<1> QED BY <1>1, <1>2, <1>3, <1>4, KernelMove DEF KernelInv

LEMMA KernelTakeLock ==
  ASSUME KernelInv, UpkeepAssumption, NEW a \in Operator, Kernel!TakeLock(a)
  PROVE  KernelInv' /\ KernelPromise
<1>1. UNCHANGED <<x1, x2, x3, x4, x5, x6>> /\ Pc(a) = "lock" /\ x8 = None /\ x8' = a
  BY DEF Kernel!TakeLock, Pc
<1>2. KernelTyped' /\ Moves(a, "ask again", Ack(a))
  BY <1>1, KernelGoto DEF KernelInv, Kernel!TakeLock, KernelTyped
<1>3. OneInside' BY <1>1, <1>2 DEF KernelInv, KernelTyped, Moves, OneInside, Inside
<1> QED BY <1>1, <1>2, <1>3, KernelMove DEF KernelInv

\* Who leaves takes nobody else's lock with it.
LEMMA KernelLeave ==
  ASSUME KernelInv, UpkeepAssumption, NEW a \in Operator, Kernel!Leave(a),
         UNCHANGED <<x1, x2, x5>>,
         x3' \in BOOLEAN, x4' \in BOOLEAN
  PROVE  KernelTyped' /\ OneInside' /\ Moves(a, "idle", 0)
<1>1. KernelTyped' /\ Moves(a, "idle", 0)
  BY DEF KernelInv, Kernel!Leave, Kernel!Idle, KernelTyped, KernelCommand, Moves, Pc, Ack
<1>2. x8' = IF x8 = a THEN None ELSE x8
  BY DEF Kernel!Leave
<1> QED BY <1>1, <1>2 DEF KernelInv, KernelTyped, Moves, OneInside, Inside

LEMMA KernelAskAgain ==
  ASSUME KernelInv, UpkeepAssumption, NEW a \in Operator, Kernel!AskAgain(a)
  PROVE  KernelInv' /\ KernelPromise
<1>1. /\ UNCHANGED <<x1, x2, x3, x4, x5, x6>> /\ Pc(a) = "ask again"
      /\ x3 \in BOOLEAN /\ x4 \in BOOLEAN
  BY DEF Kernel!AskAgain, Pc, KernelInv, KernelTyped
<1>2. CASE Kernel!Warranted(Ack(a))
  <2>1. x8' = x8 BY <1>2 DEF Kernel!AskAgain, Kernel!StillWarranted, Ack
  <2>2. KernelTyped' /\ Moves(a, "quiesce", Ack(a))
    BY <1>1, <1>2, KernelGoto DEF KernelInv, Kernel!AskAgain, Kernel!StillWarranted, KernelTyped, Ack
  <2>3. OneInside' BY <1>1, <2>1, <2>2 DEF KernelInv, KernelTyped, Moves, OneInside, Inside
  <2> QED BY <1>1, <1>2, <2>2, <2>3, KernelMove DEF KernelInv
<1>3. CASE ~Kernel!Warranted(Ack(a))
  <2>1. Kernel!Leave(a) BY <1>3 DEF Kernel!AskAgain, Kernel!StillWarranted, Ack
  <2> QED BY <1>1, <2>1, KernelLeave, KernelMove DEF KernelInv
<1> QED BY <1>2, <1>3

LEMMA KernelQuiesce ==
  ASSUME KernelInv, NEW a \in Operator, Kernel!Quiesce(a)
  PROVE  KernelInv' /\ KernelPromise
<1>1. /\ UNCHANGED <<x1, x2, x5, x7, x8>> /\ Pc(a) = "quiesce" /\ x3' = FALSE /\ x4' = FALSE
      /\ x6' \in {x6, None}
  BY DEF Kernel!Quiesce, Kernel!KernelStops, Pc
<1>2. KernelTyped' /\ Moves(a, "rename", Ack(a))
  BY <1>1, KernelGoto DEF KernelInv, Kernel!Quiesce, KernelTyped
<1>3. OneInside' BY <1>1, <1>2 DEF KernelInv, KernelTyped, Moves, OneInside, Inside
<1>4. StaysWarranted'
  BY <1>1, <1>2 DEF KernelInv, Moves, StaysWarranted, Kernel!Warranted, Kernel!Refuses, Kernel!Count
<1>5. Quiesced' /\ OpenedOwn' /\ LogBeside'
  BY <1>1, <1>2 DEF KernelInv, Moves, Quiesced, OpenedOwn, LogBeside
<1>6. KernelPromise
  BY <1>1 DEF KernelPromise, Kernel!WarrantedWhenSetAside, Kernel!OwnLog, Kernel!SetAside
<1> QED BY <1>2, <1>3, <1>4, <1>5, <1>6 DEF KernelInv

\* Who renames is the only one inside, and moves what its operator accepted.
LEMMA KernelRenames ==
  ASSUME KernelInv, NEW a \in Operator, Kernel!RenameDatabase(a)
  PROVE  KernelInv' /\ KernelPromise
<1>1. /\ UNCHANGED <<x1, x2, x3, x4, x6, x8>> /\ Pc(a) = "rename" /\ x5' = None
      /\ x7' = x7 \cup ({x5} \ {None})
  BY DEF Kernel!RenameDatabase, Pc
<1>2. KernelTyped' /\ Moves(a, "rename log", Ack(a))
  BY <1>1, KernelGoto DEF KernelInv, Kernel!RenameDatabase, KernelTyped
<1>3. OneInside' BY <1>1, <1>2 DEF KernelInv, KernelTyped, Moves, OneInside, Inside
<1>4. \A b \in Operator \ {a} : Pc(b) \notin Inside
  BY <1>1 DEF KernelInv, KernelTyped, OneInside, Inside
<1>5. StaysWarranted' /\ Quiesced' /\ OpenedOwn' /\ LogBeside'
  BY <1>1, <1>2, <1>4 DEF KernelInv, Moves, StaysWarranted, Quiesced, OpenedOwn, LogBeside, Inside
<1>6. x9[a].pc = "rename" /\ ~x4 /\ ~x4' /\ Kernel!StillWarranted(a) /\ (x5 # None => x5 \in x7')
  BY <1>1 DEF KernelInv, Quiesced, StaysWarranted, Kernel!StillWarranted, Pc, Ack
<1>7. KernelPromise
  BY <1>6 DEF KernelPromise, Kernel!WarrantedWhenSetAside, Kernel!OwnLog, Kernel!SetAside
<1> QED BY <1>2, <1>3, <1>5, <1>7 DEF KernelInv

LEMMA KernelRenamesLog ==
  ASSUME KernelInv, UpkeepAssumption, NEW a \in Operator, Kernel!RenameLog(a)
  PROVE  KernelInv' /\ KernelPromise
<1>1. /\ UNCHANGED <<x1, x2, x3, x4, x5, x7>> /\ Pc(a) = "rename log" /\ x6' = None
      /\ x3 \in BOOLEAN /\ x4 \in BOOLEAN
  BY DEF Kernel!RenameLog, Pc, KernelInv, KernelTyped
<1>2. PICK pc, ack : pc \in {"start", "idle"} /\ Moves(a, pc, ack) /\ KernelTyped' /\ OneInside'
  <2>1. CASE x1 = "systemd"
    <3>1. KernelTyped' /\ Moves(a, "start", Ack(a)) /\ x8' = x8
      BY <1>1, <2>1, KernelGoto DEF KernelInv, Kernel!RenameLog, KernelTyped
    <3> QED BY <1>1, <3>1 DEF KernelInv, KernelTyped, Moves, OneInside, Inside
  <2>2. CASE x1 # "systemd"
    <3>1. Kernel!Leave(a) BY <2>2 DEF Kernel!RenameLog
    <3> QED BY <1>1, <3>1, KernelLeave
  <2> QED BY <2>1, <2>2
<1>3. StaysWarranted'
  BY <1>1, <1>2 DEF KernelInv, Moves, StaysWarranted, Kernel!Warranted, Kernel!Refuses, Kernel!Count
<1>4. Quiesced' /\ OpenedOwn' /\ LogBeside'
  BY <1>1, <1>2 DEF KernelInv, Moves, Quiesced, OpenedOwn, LogBeside
<1>5. KernelPromise
  BY <1>1 DEF KernelPromise, Kernel!WarrantedWhenSetAside, Kernel!OwnLog, Kernel!SetAside
<1> QED BY <1>2, <1>3, <1>4, <1>5 DEF KernelInv

LEMMA KernelStarts ==
  ASSUME KernelInv, UpkeepAssumption, NEW a \in Operator, Kernel!StartReconcilers(a)
  PROVE  KernelInv' /\ KernelPromise
<1>1. /\ UNCHANGED <<x1, x2, x4, x5, x6, x7>> /\ Pc(a) = "start" /\ Kernel!Leave(a)
      /\ x3' \in BOOLEAN /\ x4' \in BOOLEAN
  BY DEF Kernel!StartReconcilers, Pc, KernelInv, KernelTyped
<1>2. KernelTyped' /\ OneInside' /\ Moves(a, "idle", 0) BY <1>1, KernelLeave
<1>3. \A b \in Operator \ {a} : Pc(b) \notin Inside
  BY <1>1 DEF KernelInv, KernelTyped, OneInside, Inside
<1>4. StaysWarranted' /\ Quiesced' /\ OpenedOwn' /\ LogBeside'
  BY <1>1, <1>2, <1>3 DEF KernelInv, Moves, StaysWarranted, Quiesced, OpenedOwn, LogBeside, Inside
<1>5. KernelPromise
  BY <1>1 DEF KernelPromise, Kernel!WarrantedWhenSetAside, Kernel!OwnLog, Kernel!SetAside
<1> QED BY <1>2, <1>4, <1>5 DEF KernelInv

LEMMA KernelFails ==
  ASSUME KernelInv, UpkeepAssumption, KernelGranted, NEW a \in Operator, Kernel!AgentFails(a)
  PROVE  KernelInv' /\ KernelPromise
<1>1. /\ UNCHANGED <<x1, x2, x3, x4, x5, x6>> /\ Kernel!Leave(a) /\ Pc(a) # "rename log"
      /\ x3 \in BOOLEAN /\ x4 \in BOOLEAN
  BY DEF Kernel!AgentFails, KernelGranted, Kernel!Fault, Pc, KernelInv, KernelTyped
<1> QED BY <1>1, KernelLeave, KernelMove DEF KernelInv

\* The other commands find no command between its quiesce and its renames, or
\* are kept out by the lock, or there is one operator.
LEMMA KernelOthers ==
  ASSUME KernelInv, UpkeepAssumption, KernelGranted,
         \/ Kernel!StopHost \/ Kernel!StartHost \/ Kernel!Reinstall \/ Kernel!RestartKernel
         \/ \E schema \in Schema : Kernel!Deploy(schema)
         \/ Kernel!KernelOpens \/ Kernel!OwnerSelects
  PROVE  KernelInv' /\ KernelPromise
<1>1. /\ UNCHANGED <<x1, x7, x8, x9>>
      /\ x3' \in BOOLEAN /\ x4' \in BOOLEAN /\ x4 \in BOOLEAN
      /\ \A a \in Operator : Pc(a)' = Pc(a) /\ Ack(a)' = Ack(a)
  BY DEF KernelInv, KernelTyped, Kernel!StopHost, Kernel!StartHost, Kernel!Reinstall,
    Kernel!RestartKernel, Kernel!Deploy, Kernel!KernelOpens, Kernel!OwnerSelects,
    Kernel!KernelStops, Pc, Ack
<1>2. ASSUME x2' \in Schema, x5' \in KernelDatabase \cup {None}
      PROVE  KernelTyped' /\ OneInside'
  BY <1>1, <1>2 DEF KernelInv, KernelTyped, OneInside
<1>3. Kernel!WarrantedWhenSetAside
  BY <1>1 DEF Kernel!WarrantedWhenSetAside, Kernel!SetAside
<1>9. x2 \in Schema /\ x5 \in KernelDatabase \cup {None} BY DEF KernelInv, KernelTyped
<1> USE DEF KernelInv
<1>4. CASE Kernel!StopHost \/ Kernel!RestartKernel
  <2>1. UNCHANGED <<x2, x5>> /\ ~x4' /\ (x3' => x3) /\ x6' \in {x6, None}
    BY <1>4 DEF Kernel!StopHost, Kernel!RestartKernel, Kernel!KernelStops
  <2>2. StaysWarranted'
    BY <1>1, <2>1 DEF StaysWarranted, Kernel!Warranted, Kernel!Refuses, Kernel!Count
  <2> QED BY <1>1, <1>2, <1>3, <1>9, <2>1, <2>2 DEF Quiesced, OpenedOwn, LogBeside, Kernel!OwnLog, KernelPromise
<1>5. CASE Kernel!StartHost
  <2>1. UNCHANGED <<x2, x4, x5, x6>> /\ \A a \in Operator : Pc(a) \notin {"rename", "rename log"}
    BY <1>5 DEF Kernel!StartHost, Kernel!Between, KernelGranted, Pc
  <2>2. StaysWarranted'
    BY <1>1, <2>1 DEF StaysWarranted, Kernel!Warranted, Kernel!Refuses, Kernel!Count
  <2> QED BY <1>1, <1>2, <1>3, <1>9, <2>1, <2>2 DEF Quiesced, OpenedOwn, LogBeside, Kernel!OwnLog, KernelPromise
<1>6. CASE Kernel!Reinstall
  <2>1. ~x4' /\ x5' = None /\ x6' = None /\ x2' = x2 /\ \A a \in Operator : Pc(a) \notin Inside
    BY <1>6 DEF Kernel!Reinstall, Kernel!Quiet, KernelTyped, OneInside, Inside, Pc
  <2> QED BY <1>1, <1>2, <1>3, <1>9, <2>1
    DEF Inside, StaysWarranted, Quiesced, OpenedOwn, LogBeside, Kernel!OwnLog, KernelPromise
<1>7. CASE \E schema \in Schema : Kernel!Deploy(schema)
  <2>1. /\ ~x4' /\ x2' \in Schema /\ x5' = x5 /\ x6' \in {x6, None}
        /\ \A a \in Operator : Pc(a) \notin {"quiesce", "rename", "rename log"}
    BY <1>7 DEF Kernel!Deploy, Kernel!Between, Kernel!KernelStops, KernelGranted, Pc
  <2> QED BY <1>1, <1>2, <1>3, <1>9, <2>1
    DEF StaysWarranted, Quiesced, OpenedOwn, LogBeside, Kernel!OwnLog, KernelPromise
<1>8. CASE Kernel!KernelOpens
  <2>1. /\ x2' = x2 /\ x3 /\ x3' = x3 /\ x6' = IF x6 = None THEN x2 ELSE x6
        /\ x5' \in KernelDatabase /\ x5' # None /\ x5'.schema = x2
        /\ x5 # None => x5' = x5
    BY <1>8, <1>9 DEF Kernel!KernelOpens, Kernel!Refuses, KernelDatabase, UpkeepAssumption
  <2> QED BY <1>1, <1>2, <1>3, <1>9, <2>1
    DEF StaysWarranted, Kernel!Warranted, Kernel!Refuses, Kernel!Count, Quiesced, OpenedOwn, LogBeside, Kernel!OwnLog, KernelPromise
<1>10. CASE Kernel!OwnerSelects
  <2>1. /\ UNCHANGED <<x2, x3, x4, x6>> /\ x4
        /\ x5' \in KernelDatabase /\ x5' # None /\ x5'.schema = x5.schema
    <3>1. x4 /\ x5 # None /\ x5 \in KernelDatabase BY <1>9, <1>10 DEF Kernel!OwnerSelects, OpenedOwn
    <3>2. [x5 EXCEPT !.selections = x5.selections + 1] = [schema |-> x5.schema, selections |-> x5.selections + 1]
      BY <3>1 DEF KernelDatabase
    <3> QED BY <1>10, <3>1, <3>2 DEF Kernel!OwnerSelects, KernelDatabase, UpkeepAssumption
  <2> QED BY <1>1, <1>2, <1>3, <1>9, <2>1
    DEF StaysWarranted, Kernel!Warranted, Kernel!Refuses, Quiesced, OpenedOwn, LogBeside, Kernel!OwnLog, KernelPromise
<1> QED BY <1>4, <1>5, <1>6, <1>7, <1>8, <1>10

LEMMA KernelStep ==
  ASSUME KernelInv, UpkeepAssumption, KernelGranted, Kernel!Next
  PROVE  KernelInv' /\ KernelPromise
BY KernelBegin, KernelTakeLock, KernelAskAgain, KernelQuiesce, KernelRenames, KernelRenamesLog,
   KernelStarts, KernelFails, KernelOthers DEF Kernel!Next, Kernel!Proceed

\* Machines do not mix: a step of a behaviour of one is a step of that one.
LEMMA OneMachine ==
  ASSUME Next
  PROVE  /\ machine' = machine
         /\ machine = "source" => Source!Next
         /\ machine = "kernel" => Kernel!Next
         /\ machine = "credentials" => Credentials!Next
         /\ machine = "board" => Foundation!Next
         /\ machine = "artifacts" => Artifact!Next
         /\ machine = "owner" => Owner!Next
         /\ machine = "selection" => Selection!Next
         /\ machine = "link" => Link!Next
BY DEF Next, OnSource, OnKernel, OnCredentials, OnBoard, OnArtifacts, OnOwner, OnSelection, OnLink

\* SetAsideWarranted: what a kernel-schema-reset moves is what its operator
\* accepted to lose, unless another command of this Host comes between its
\* quiesce and its renames, or it dies between these.
THEOREM SetAsideIsWarranted ==
  ASSUME KernelGranted
  PROVE  Spec => SetAsideWarranted
<1> DEFINE I == machine = "kernel" => KernelInv
<1>1. Init => I
  BY UpkeepAssumption, KernelInit DEF Init
<1>2. I /\ [Next]_vars => I' /\ [machine = "kernel" => KernelPromise]_vars
  <2>1. CASE Next
    BY <2>1, OneMachine, UpkeepAssumption, KernelStep
  <2>2. CASE UNCHANGED vars
    BY <2>2 DEF vars, KernelInv, KernelTyped, OneInside, StaysWarranted, Quiesced, OpenedOwn, LogBeside,
      Pc, Ack, Kernel!Warranted, Kernel!Refuses, Kernel!Count
  <2> QED BY <2>1, <2>2
<1>3. Spec => [][machine = "kernel" => KernelPromise]_vars
  BY <1>1, <1>2, PTL DEF Spec
<1> QED BY <1>3, PTL DEF SetAsideWarranted, KernelPromise

-----------------------------------------------------------------------------
(* HostLink: x1 profile, x2 up, x3 board, x4 at, x5 offered, x6 known,      *)
(* x7 cmd, x8 turns.                                                        *)

Line == [names : SUBSET Name, key : Key, pattern : BOOLEAN]
Way == [address : HostAddress, interface : Interface \cup {None},
        link : {"wired", "unknown", "wireless"}]
LinkCommand ==
  [pc : {"idle", "scan", "look", "match", "write", "resolve", "ask", "prefer", "gate", "upload"},
   replace : Key \cup {None}, apply : BOOLEAN, key : Key \cup {None}, matched : SUBSET Line,
   endpoint : Way \cup {None}, published : SUBSET HostAddress, report : Way \cup {None},
   over : [interface : Interface, endpoint : Way] \cup {None}, left : Nat]
LinkTyped ==
  /\ x1 \in [required : BOOLEAN, literal : BOOLEAN]
  /\ x2 \subseteq Interface
  /\ x3 \in Key
  /\ x4 \in [HostAddress -> Key \cup {None}]
  /\ x5 \subseteq HostAddress
  /\ x6 \subseteq Line
  /\ x7 \in [Operator -> LinkCommand]

\* If no two trust-host-key run at a time, nothing else writes the file: what
\* was decided on its lines still holds when they are replaced.
Apart == "trusts_meanwhile" \notin Faults
Trusting == {"scan", "look", "match", "write"}
OneTrusting ==
  Apart => \A o, p \in Operator : x7[o].pc \in Trusting /\ x7[p].pc \in Trusting => o = p
Decided(o) ==
  /\ x7[o].pc \in {"look", "match", "write"} => x7[o].key \in Key
  /\ Apart /\ x7[o].pc \in {"match", "write"} =>
       /\ Link!Writes(o, Link!Matching(x6))
       /\ x7[o].pc = "write" => x7[o].matched = Link!Matching(x6)

\* A way that counts as wired leaves by a wired interface, bound or not.
ByWire(e) == e # None /\ e.link = "wired" => Kind[Link!LeavesBy(e)] = "wired"

\* What the gate let pass and reported is what the calls go over.
Session(o) ==
  /\ ByWire(x7[o].endpoint)
  /\ x7[o].pc # "upload" => x7[o].over = None
  /\ x7[o].pc = "upload" =>
       /\ x7[o].report = x7[o].endpoint
       /\ x1.required => Link!OverWire(x7[o].endpoint)
  /\ x7[o].over # None =>
       /\ x7[o].report # None => x7[o].over.endpoint = x7[o].report
       /\ x1.required => Kind[x7[o].over.interface] = "wired"

LinkInv ==
  /\ LinkTyped /\ OneTrusting
  /\ \A o \in Operator : Decided(o) /\ Session(o)

LEMMA LinkInit == ASSUME Link!Init PROVE LinkInv
<1>1. LinkTyped
  BY LinkAssumption DEF Link!Init, Link!Ready, LinkTyped, LinkCommand, Line
<1>2. \A o \in Operator : x7[o].pc = "idle" /\ x7[o].endpoint = None /\ x7[o].over = None
  BY DEF Link!Init, Link!Ready
<1> QED BY <1>1, <1>2 DEF LinkInv, OneTrusting, Decided, Session, Trusting, ByWire

\* An address and the best interface that claims it; a wired one leads there.
LEMMA EndpointIsWay ==
  ASSUME LinkTyped, NEW a \in HostAddress
  PROVE  Link!Endpoint(a) \in Way /\ ByWire(Link!Endpoint(a))
<1> DEFINE claims == Link!Claims(a)
           best(i) == i \in claims /\ \A j \in claims : Link!Rank(Kind[i]) <= Link!Rank(Kind[j])
<1>1. \A i \in Interface : Kind[i] \in {"wired", "unknown", "wireless"} /\ Link!Rank(Kind[i]) \in {0, 1, 2}
                           /\ (Link!Rank(Kind[i]) = 0 <=> Kind[i] = "wired")
  BY LinkAssumption DEF Link!Rank
<1>2. claims \subseteq Interface /\ \A i \in claims : a \in Reaches[i]
  BY DEF LinkTyped, Link!Claims
<1>3. CASE claims = {}
  BY <1>3 DEF Link!Endpoint, Way, ByWire
<1>4. CASE claims # {}
  <2>1. \E i \in claims : best(i)
    BY <1>1, <1>2, <1>4
  <2> DEFINE owner == CHOOSE i \in claims : \A j \in claims : Link!Rank(Kind[i]) <= Link!Rank(Kind[j])
  <2>2. best(owner) BY <2>1
  <2> HIDE DEF owner
  <2>3. Link!Endpoint(a) = [address |-> a, interface |-> owner, link |-> Kind[owner]]
    BY <1>4 DEF Link!Endpoint, owner
  <2>4. owner \in Interface /\ owner # None /\ a \in Reaches[owner]
    BY <1>2, <2>2, UpkeepAssumption DEF UpkeepAssumption
  <2>5. ASSUME Kind[owner] = "wired", a \notin LinkLocal PROVE Kind[Lies[a]] = "wired"
    <3>1. Lies[a] \in Interface /\ Link!Rank(Kind[Lies[a]]) <= Link!Rank(Kind[owner])
      BY <2>4, <2>5, LinkAssumption DEF LinkAssumption
    <3> QED BY <1>1, <2>4, <2>5, <3>1
  <2> QED BY <1>1, <2>3, <2>4, <2>5 DEF Way, ByWire, Link!LeavesBy, Link!BindInterface
<1> QED BY <1>3, <1>4

\* The surroundings change nothing a command holds.
LEMMA LinkAround ==
  ASSUME LinkInv, UNCHANGED <<x1, x6, x7>>, LinkTyped'
  PROVE  LinkInv' /\ Link!TrustNamed
<1>1. \A o \in Operator : Decided(o)' /\ Session(o)'
  BY DEF LinkInv, Decided, Session, Link!Writes, Link!Replaces, Link!Named, Link!Matching, Link!Plain,
    Link!OverWire
<1> QED BY <1>1 DEF LinkInv, OneTrusting, Link!TrustNamed, Link!Trusted

\* The command o moves on, and the file is as it was.
LEMMA LinkMove ==
  ASSUME LinkInv, NEW o \in Operator, UNCHANGED <<x1, x2, x3, x4, x5, x6>>,
         NEW c \in LinkCommand, x7' = [x7 EXCEPT ![o] = c],
         Apart /\ c.pc \in Trusting =>
           x7[o].pc \in Trusting \/ \A p \in Operator : x7[p].pc \notin Trusting,
         Decided(o)', Session(o)'
  PROVE  LinkInv' /\ Link!TrustNamed
<1>1. /\ LinkTyped'
      /\ x7'[o] = c
      /\ \A p \in Operator \ {o} : x7'[p] = x7[p]
  BY DEF LinkInv, LinkTyped
<1>2. OneTrusting' BY <1>1 DEF LinkInv, OneTrusting
<1>3. ASSUME NEW p \in Operator \ {o} PROVE Decided(p)' /\ Session(p)'
  <2>1. x7'[p] = x7[p] /\ x6' = x6 /\ x1' = x1 BY <1>1
  <2>2. Decided(p) /\ Session(p) BY DEF LinkInv
  <2>3. Decided(p)'
    BY <2>1, <2>2 DEF Decided, Link!Writes, Link!Replaces, Link!Named, Link!Matching, Link!Plain
  <2> QED BY <2>1, <2>2, <2>3 DEF Session, Link!OverWire, ByWire
<1> QED BY <1>2, <1>3, <1>1 DEF LinkInv, Link!TrustNamed, Link!Trusted

LEMMA LinkBegin ==
  ASSUME LinkInv, NEW o \in Operator,
         NEW replace \in Key \cup {None}, NEW apply \in BOOLEAN, Link!Begin(o, replace, apply),
         UNCHANGED <<x1, x2, x3, x4, x5, x6>>
  PROVE  LinkInv' /\ Link!TrustNamed
<1> DEFINE c == [Link!Ready EXCEPT !.pc = "scan", !.replace = replace, !.apply = apply]
<1>1. c \in LinkCommand /\ c.pc = "scan" /\ c.endpoint = None /\ c.over = None
  BY DEF Link!Ready, LinkCommand, Line
<1>2. x7' = [x7 EXCEPT ![o] = c] /\ (Apart => \A p \in Operator : x7[p].pc \notin Trusting)
  BY DEF Link!Begin, Link!Changing, Trusting, Apart
<1> HIDE DEF c
<1>3. x7'[o] = c BY <1>2 DEF LinkInv, LinkTyped
<1>4. Decided(o)' /\ Session(o)'
  BY <1>1, <1>3 DEF Decided, Session, ByWire
<1> QED BY <1>1, <1>2, <1>4, LinkMove

\* A command that ends stands nowhere.
LEMMA LinkEnds ==
  ASSUME LinkInv, NEW o \in Operator, Link!Ends(o), UNCHANGED <<x1, x2, x3, x4, x5, x6>>
  PROVE  LinkInv' /\ Link!TrustNamed
<1>1. /\ Link!Ready \in LinkCommand /\ Link!Ready.pc = "idle"
      /\ Link!Ready.endpoint = None /\ Link!Ready.over = None
  BY DEF Link!Ready, LinkCommand, Line
<1>2. x7' = [x7 EXCEPT ![o] = Link!Ready] BY DEF Link!Ends
<1>3. x7'[o] = Link!Ready BY <1>2 DEF LinkInv, LinkTyped
<1>4. Decided(o)' /\ Session(o)'
  BY <1>1, <1>3 DEF Decided, Session, ByWire
<1> QED BY <1>1, <1>2, <1>4, LinkMove DEF Trusting

LEMMA LinkScan ==
  ASSUME LinkInv, NEW o \in Operator, Link!Scan(o)
  PROVE  LinkInv' /\ Link!TrustNamed
<1>1. PICK k \in Link!Presented :
        IF k = None THEN Link!Ends(o) ELSE x7' = [x7 EXCEPT ![o].pc = "look", ![o].key = k]
  BY DEF Link!Scan
<1>2. UNCHANGED <<x1, x2, x3, x4, x5, x6>> /\ x7[o].pc = "scan" /\ x7[o] \in LinkCommand
  BY DEF Link!Scan, Link!around, LinkInv, LinkTyped
<1>3. k \in Key \cup {None}
  BY DEF Link!Presented, LinkInv, LinkTyped
<1>4. CASE k # None
  <2> DEFINE c == [x7[o] EXCEPT !.pc = "look", !.key = k]
  <2>1. c \in LinkCommand /\ c.pc = "look" /\ c.key \in Key /\ c.endpoint = x7[o].endpoint /\ c.over = x7[o].over
    BY <1>2, <1>3, <1>4 DEF LinkCommand
  <2>2. x7' = [x7 EXCEPT ![o] = c] BY <1>1, <1>4
  <2> HIDE DEF c
  <2>3. x7'[o] = c BY <2>2 DEF LinkInv, LinkTyped
  <2>4. Decided(o)' /\ Session(o)'
    BY <1>2, <2>1, <2>3 DEF Decided, Session, ByWire, LinkInv
  <2> QED BY <1>2, <2>1, <2>2, <2>4, LinkMove DEF Trusting
<1> QED BY <1>1, <1>2, <1>4, LinkEnds

\* A step that changes only where the command o stands.
LEMMA LinkTo ==
  ASSUME LinkInv, NEW o \in Operator, NEW pc \in {"match", "gate"}, Link!To(o, pc),
         UNCHANGED <<x1, x2, x3, x4, x5, x6>>,
         pc = "match" => /\ x7[o].pc = "look" /\ Link!Writes(o, Link!Matching(x6)) /\ x7[o].key \in Key,
         pc = "gate" => x7[o].pc = "ask"
  PROVE  LinkInv' /\ Link!TrustNamed
<1> DEFINE c == [x7[o] EXCEPT !.pc = pc]
<1>1. x7[o] \in LinkCommand BY DEF LinkInv, LinkTyped
<1>2. /\ c \in LinkCommand /\ c.pc = pc /\ c.endpoint = x7[o].endpoint /\ c.over = x7[o].over
      /\ c.key = x7[o].key /\ c.replace = x7[o].replace /\ c.apply = x7[o].apply
  BY <1>1 DEF LinkCommand
<1>3. x7' = [x7 EXCEPT ![o] = c] BY DEF Link!To
<1> HIDE DEF c
<1>4. x7'[o] = c BY <1>3 DEF LinkInv, LinkTyped
<1>5. Decided(o)'
  BY <1>2, <1>4 DEF Decided, Link!Writes, Link!Replaces, Link!Named, Link!Matching, Link!Plain
<1>6. Session(o)'
  BY <1>2, <1>4 DEF Session, ByWire, LinkInv
<1> QED BY <1>2, <1>3, <1>5, <1>6, LinkMove DEF Trusting

LEMMA LinkLook ==
  ASSUME LinkInv, NEW o \in Operator, Link!Look(o)
  PROVE  LinkInv' /\ Link!TrustNamed
<1>1. UNCHANGED <<x1, x2, x3, x4, x5, x6>> /\ x7[o].pc = "look"
  BY DEF Link!Look, Link!around
<1>2. CASE Link!Writes(o, Link!Matching(x6))
  BY <1>1, <1>2, LinkTo DEF Link!Look, LinkInv, Decided
<1>3. CASE ~Link!Writes(o, Link!Matching(x6))
  BY <1>1, <1>3, LinkEnds DEF Link!Look
<1> QED BY <1>2, <1>3

LEMMA LinkMatch ==
  ASSUME LinkInv, NEW o \in Operator, Link!Match(o)
  PROVE  LinkInv' /\ Link!TrustNamed
<1>1. /\ UNCHANGED <<x1, x2, x3, x4, x5, x6>> /\ x7[o].pc = "match" /\ x7[o] \in LinkCommand
      /\ Link!Matching(x6) \subseteq Line
  BY DEF Link!Match, Link!around, Link!Matching, LinkInv, LinkTyped
<1>2. CASE Link!Plain(Link!Matching(x6))
  <2> DEFINE c == [x7[o] EXCEPT !.pc = "write", !.matched = Link!Matching(x6)]
  <2>1. /\ c \in LinkCommand /\ c.pc = "write" /\ c.endpoint = x7[o].endpoint /\ c.over = x7[o].over
        /\ c.key = x7[o].key /\ c.replace = x7[o].replace /\ c.apply = x7[o].apply
        /\ c.matched = Link!Matching(x6)
    BY <1>1 DEF LinkCommand
  <2>2. x7' = [x7 EXCEPT ![o] = c] BY <1>2 DEF Link!Match
  <2> HIDE DEF c
  <2>3. x7'[o] = c BY <2>2 DEF LinkInv, LinkTyped
  <2>4. Decided(o)'
    BY <1>1, <2>1, <2>3
    DEF LinkInv, Decided, Link!Writes, Link!Replaces, Link!Named, Link!Matching, Link!Plain
  <2>5. Session(o)'
    BY <1>1, <2>1, <2>3 DEF Session, ByWire, LinkInv
  <2> QED BY <1>1, <2>1, <2>2, <2>4, <2>5, LinkMove DEF Trusting
<1>3. CASE ~Link!Plain(Link!Matching(x6))
  BY <1>1, <1>3, LinkEnds DEF Link!Match
<1> QED BY <1>2, <1>3

\* What the file says of other names is what it said; of this one, the key the
\* command was given, or the one it had.
LEMMA LinkWrite ==
  ASSUME LinkInv, NEW o \in Operator, Link!Write(o)
  PROVE  LinkInv' /\ (Apart => Link!TrustNamed)
<1> DEFINE line == [names |-> {This}, key |-> x7[o].key, pattern |-> FALSE]
           without(l) == [l EXCEPT !.names = l.names \ {This}]
           matched == x7[o].matched
           rest == {without(l) : l \in {m \in x6 \cap matched : m.names # {This}}}
<1>1. /\ UNCHANGED <<x1, x2, x3, x4, x5>> /\ x7[o].pc = "write" /\ Link!Ends(o)
      /\ Apart => matched = Link!Matching(x6) /\ Link!Writes(o, Link!Matching(x6))
      /\ x7[o].key \in Key
      /\ x6 \subseteq Line
  BY DEF Link!Write, Link!around, LinkInv, LinkTyped, Decided
<1>2. x6' = ((x6 \ matched) \cup rest) \cup {line}
  BY <1>1 DEF Link!Write, Link!Kept
<1>3. \A l \in x6 : without(l) \in Line /\ without(l).names = l.names \ {This} /\ without(l).key = l.key
  BY <1>1 DEF Line
<1>4. line \in Line /\ line.names = {This} /\ line.key = x7[o].key
  BY <1>1, LinkAssumption DEF Line, LinkAssumption
<1>5. Apart => \A l \in x6 : l \in matched <=> This \in l.names
  BY <1>1 DEF Link!Matching
<1> HIDE DEF line, without
<1>6. LinkTyped'
  <2>1. x6' \subseteq Line BY <1>1, <1>2, <1>3, <1>4
  <2>2. x7' = [x7 EXCEPT ![o] = Link!Ready] /\ Link!Ready \in LinkCommand
    BY <1>1 DEF Link!Ends, Link!Ready, LinkCommand, Line
  <2> QED BY <1>1, <2>1, <2>2 DEF LinkInv, LinkTyped
<1>7. ASSUME Apart, NEW n \in Name, n # This
      PROVE  Link!Trusted(n)' = Link!Trusted(n)
  <2>1. ASSUME NEW k \in Link!Trusted(n) PROVE k \in Link!Trusted(n)'
    <3>1. PICK l \in x6 : n \in l.names /\ k = l.key BY <2>1 DEF Link!Trusted
    <3>2. CASE This \notin l.names
      BY <1>2, <1>5, <1>7, <3>1, <3>2 DEF Link!Trusted
    <3>3. CASE This \in l.names
      <4>1. without(l) \in x6' BY <1>2, <1>5, <1>7, <3>1, <3>3
      <4>2. n \in without(l).names /\ without(l).key = k BY <1>3, <1>7, <3>1
      <4> QED BY <4>1, <4>2 DEF Link!Trusted
    <3> QED BY <3>2, <3>3
  <2>2. ASSUME NEW k \in Link!Trusted(n)' PROVE k \in Link!Trusted(n)
    <3>1. PICK l \in x6' : n \in l.names /\ k = l.key BY <2>2 DEF Link!Trusted
    <3>2. CASE l = line BY <1>4, <1>7, <3>1, <3>2
    <3>3. CASE l \in x6 BY <3>1, <3>3 DEF Link!Trusted
    <3>4. CASE \E m \in x6 : l = without(m)
      BY <1>3, <3>1, <3>4 DEF Link!Trusted
    <3> QED BY <1>2, <3>1, <3>2, <3>3, <3>4
  <2> QED BY <2>1, <2>2
<1>8. ASSUME Apart PROVE Link!Trusted(This)' = {x7[o].key}
  <2>1. ASSUME NEW k \in Link!Trusted(This)' PROVE k = x7[o].key
    <3>1. PICK l \in x6' : This \in l.names /\ k = l.key BY <2>1 DEF Link!Trusted
    <3>2. ~\E m \in x6 : l = without(m) BY <1>3, <3>1
    <3>3. l \notin x6 \ matched BY <1>5, <1>8, <3>1
    <3> QED BY <1>2, <1>4, <3>1, <3>2, <3>3
  <2>2. x7[o].key \in Link!Trusted(This)'
    BY <1>2, <1>4 DEF Link!Trusted
  <2> QED BY <2>1, <2>2
<1>9. Apart =>
      \/ x7[o].key \in Link!Trusted(This) \/ Link!Trusted(This) = {}
      \/ x7[o].replace = x7[o].key
  <2>1. Link!Trusted(This) = {l.key : l \in Link!Matching(x6)}
    BY DEF Link!Trusted, Link!Matching
  <2> QED BY <1>1, <2>1 DEF Link!Writes, Link!Replaces, Link!Named
<1>10. Apart => Link!TrustNamed
  BY <1>1, <1>7, <1>8, <1>9 DEF Link!TrustNamed
<1>11. /\ x7'[o].pc = "idle" /\ x7'[o].endpoint = None /\ x7'[o].over = None
       /\ \A p \in Operator \ {o} : x7'[p] = x7[p] /\ (Apart => x7[p].pc \notin Trusting)
  BY <1>1 DEF Link!Ends, Link!Ready, LinkInv, LinkTyped, OneTrusting, Trusting
<1>12. OneTrusting' BY <1>11 DEF OneTrusting, Trusting
<1>13. ASSUME NEW p \in Operator PROVE Decided(p)' /\ Session(p)'
  <2>1. CASE p = o BY <1>11, <2>1 DEF Decided, Session, ByWire
  <2>2. CASE p # o
    <3>1. /\ x7'[p] = x7[p] /\ (Apart => x7[p].pc \notin Trusting) /\ x1' = x1
          /\ Decided(p) /\ Session(p)
      BY <1>1, <1>11, <2>2 DEF LinkInv
    <3> QED BY <3>1 DEF Decided, Session, ByWire, Link!OverWire, Trusting
  <2> QED BY <2>1, <2>2
<1> QED BY <1>6, <1>10, <1>12, <1>13 DEF LinkInv

-----------------------------------------------------------------------------
LEMMA LinkStartRelease ==
  ASSUME LinkInv, NEW o \in Operator, Link!StartRelease(o)
  PROVE  LinkInv' /\ Link!TrustNamed
<1> DEFINE c == [Link!Ready EXCEPT !.pc = "resolve", !.left = 2]
<1>1. c \in LinkCommand /\ c.pc = "resolve" /\ c.endpoint = None /\ c.over = None
  BY DEF Link!Ready, LinkCommand, Line
<1>2. x7' = [x7 EXCEPT ![o] = c] /\ UNCHANGED <<x1, x2, x3, x4, x5, x6>>
  BY DEF Link!StartRelease, Link!around
<1> HIDE DEF c
<1>3. x7'[o] = c BY <1>2 DEF LinkInv, LinkTyped
<1>4. Decided(o)' /\ Session(o)'
  BY <1>1, <1>3 DEF Decided, Session, ByWire
<1> QED BY <1>1, <1>2, <1>4, LinkMove DEF Trusting

\* What a session settles on is a way to an address, or none.
LEMMA ReachableIsWay ==
  ASSUME LinkTyped, NEW addresses \in SUBSET HostAddress, NEW ways \in SUBSET Link!Ranked(addresses),
         NEW e \in Link!FirstReachable(ways)
  PROVE  e \in Way \cup {None} /\ ByWire(e) /\ (e = None \/ e \in ways)
<1>1. e = None \/ e \in ways BY DEF Link!FirstReachable
<1>2. CASE e \in ways
  <2>1. PICK a \in addresses : e = Link!Endpoint(a) BY <1>2 DEF Link!Ranked
  <2> QED BY <1>2, <2>1, EndpointIsWay
<1> QED BY <1>1, <1>2 DEF ByWire

\* The session takes a way, before its gate.
LEMMA LinkTakes ==
  ASSUME LinkInv, NEW o \in Operator, NEW c \in LinkCommand, x7' = [x7 EXCEPT ![o] = c],
         UNCHANGED <<x1, x2, x3, x4, x5, x6>>,
         x7[o].pc # "upload", c.pc \in {"ask", "prefer", "gate"}, c.over = x7[o].over, ByWire(c.endpoint)
  PROVE  LinkInv' /\ Link!TrustNamed
<1>1. x7'[o] = c BY DEF LinkInv, LinkTyped
<1>2. Decided(o)' /\ Session(o)'
  BY <1>1 DEF Decided, Session, ByWire, LinkInv
<1> QED BY <1>2, LinkMove DEF Trusting

LEMMA LinkResolve ==
  ASSUME LinkInv, NEW o \in Operator, Link!Resolve(o)
  PROVE  LinkInv' /\ Link!TrustNamed
<1>1. PICK e \in Link!FirstReachable(Link!Ranked(x5)) :
        x7' = [x7 EXCEPT ![o].pc = "ask", ![o].endpoint = e]
  BY DEF Link!Resolve
<1>2. /\ UNCHANGED <<x1, x2, x3, x4, x5, x6>> /\ x7[o].pc = "resolve" /\ x7[o] \in LinkCommand
      /\ LinkTyped /\ x5 \subseteq HostAddress
  BY DEF Link!Resolve, Link!around, LinkInv, LinkTyped
<1>3. e \in Way \cup {None} /\ ByWire(e) BY <1>2, ReachableIsWay
<1> DEFINE c == [x7[o] EXCEPT !.pc = "ask", !.endpoint = e]
<1>4. c \in LinkCommand /\ c.pc = "ask" /\ c.endpoint = e /\ c.over = x7[o].over
  BY <1>2, <1>3 DEF LinkCommand
<1>5. x7' = [x7 EXCEPT ![o] = c] BY <1>1
<1> HIDE DEF c
<1> QED BY <1>2, <1>3, <1>4, <1>5, LinkTakes

LEMMA LinkAskHost ==
  ASSUME LinkInv, NEW o \in Operator, Link!AskHost(o)
  PROVE  LinkInv' /\ Link!TrustNamed
<1>1. /\ UNCHANGED <<x1, x2, x3, x4, x5, x6>> /\ x7[o].pc = "ask" /\ x7[o] \in LinkCommand
      /\ ByWire(x7[o].endpoint)
  BY DEF Link!AskHost, Link!around, LinkInv, LinkTyped, Session
<1> DEFINE there == {a \in HostAddress : x4[a] = Link!Hears(x7[o].endpoint)}
<1>2. CASE Link!To(o, "gate") BY <1>1, <1>2, LinkTo
<1>3. CASE x7' = [x7 EXCEPT ![o].pc = "prefer", ![o].published = there]
  <2> DEFINE c == [x7[o] EXCEPT !.pc = "prefer", !.published = there]
  <2>1. there \subseteq HostAddress OBVIOUS
  <2> HIDE DEF there
  <2>2. c \in LinkCommand /\ c.pc = "prefer" /\ c.endpoint = x7[o].endpoint /\ c.over = x7[o].over
    BY <1>1, <2>1 DEF LinkCommand
  <2>3. x7' = [x7 EXCEPT ![o] = c] BY <1>3
  <2> HIDE DEF c
  <2> QED BY <1>1, <2>2, <2>3, LinkTakes
<1> QED BY <1>2, <1>3 DEF Link!AskHost

LEMMA LinkPreferWired ==
  ASSUME LinkInv, NEW o \in Operator, Link!PreferWired(o)
  PROVE  LinkInv' /\ Link!TrustNamed
<1> DEFINE ways == {f \in Link!Ranked(x7[o].published) : Link!OverWire(f)}
<1>1. PICK e \in Link!FirstReachable(ways) :
        x7' = [x7 EXCEPT ![o].pc = "gate", ![o].published = {},
                         ![o].endpoint = IF e = None THEN @ ELSE e]
  BY DEF Link!PreferWired
<1>2. /\ UNCHANGED <<x1, x2, x3, x4, x5, x6>> /\ x7[o].pc = "prefer" /\ x7[o] \in LinkCommand
      /\ LinkTyped /\ ByWire(x7[o].endpoint)
  BY DEF Link!PreferWired, Link!around, LinkInv, LinkTyped, Session
<1>3. x7[o].published \in SUBSET HostAddress BY <1>2 DEF LinkCommand
<1>4. e \in Way \cup {None} /\ ByWire(e) BY <1>2, <1>3, ReachableIsWay
<1> DEFINE taken == IF e = None THEN x7[o].endpoint ELSE e
           c == [x7[o] EXCEPT !.pc = "gate", !.published = {}, !.endpoint = taken]
<1>5. taken \in Way \cup {None} /\ ByWire(taken)
  BY <1>2, <1>4 DEF LinkCommand
<1>6. x7' = [x7 EXCEPT ![o] = c] BY <1>1
<1> HIDE DEF taken
<1>7. c \in LinkCommand /\ c.pc = "gate" /\ c.endpoint = taken /\ c.over = x7[o].over
  BY <1>2, <1>5 DEF LinkCommand
<1> HIDE DEF c
<1> QED BY <1>2, <1>5, <1>6, <1>7, LinkTakes

\* What the gate lets pass is what is reported.
LEMMA LinkGate ==
  ASSUME LinkInv, NEW o \in Operator, Link!Gate(o)
  PROVE  LinkInv' /\ Link!TrustNamed
<1>1. /\ UNCHANGED <<x1, x2, x3, x4, x5, x6>> /\ x7[o].pc = "gate" /\ x7[o] \in LinkCommand
      /\ Session(o)
  BY DEF Link!Gate, Link!around, LinkInv, LinkTyped
<1>2. CASE x1.required /\ ~Link!OverWire(x7[o].endpoint)
  BY <1>1, <1>2, LinkEnds DEF Link!Gate
<1>3. CASE ~(x1.required /\ ~Link!OverWire(x7[o].endpoint))
  <2> DEFINE c == [x7[o] EXCEPT !.pc = "upload", !.report = x7[o].endpoint]
  <2>1. /\ c \in LinkCommand /\ c.pc = "upload" /\ c.endpoint = x7[o].endpoint /\ c.over = x7[o].over
        /\ c.report = x7[o].endpoint
    BY <1>1 DEF LinkCommand
  <2>2. x7' = [x7 EXCEPT ![o] = c] BY <1>3 DEF Link!Gate
  <2> HIDE DEF c
  <2>3. x7'[o] = c BY <2>2 DEF LinkInv, LinkTyped
  <2>4. Decided(o)' BY <2>1, <2>3 DEF Decided
  <2>5. Session(o)'
    BY <1>1, <1>3, <2>1, <2>3 DEF Session, ByWire, Link!OverWire
  <2> QED BY <1>1, <2>1, <2>2, <2>4, <2>5, LinkMove DEF Trusting
<1> QED BY <1>2, <1>3

\* A call goes over what was reported, and by wire where that is required.
LEMMA LinkUpload ==
  ASSUME LinkInv, NEW o \in Operator, Link!Upload(o)
  PROVE  LinkInv' /\ Link!TrustNamed
<1>1. /\ UNCHANGED <<x1, x2, x3, x4, x5, x6>> /\ x7[o].pc = "upload" /\ x7[o] \in LinkCommand
      /\ Session(o) /\ x5 \subseteq HostAddress /\ x7[o].left > 0
  BY DEF Link!Upload, Link!around, LinkInv, LinkTyped
<1>2. ASSUME NEW e \in Link!Target(o),
             x7' = [x7 EXCEPT ![o].left = @ - 1,
                              ![o].over = [interface |-> Link!LeavesBy(e), endpoint |-> e]]
      PROVE  LinkInv' /\ Link!TrustNamed
  <2> DEFINE over == [interface |-> Link!LeavesBy(e), endpoint |-> e]
             c == [x7[o] EXCEPT !.left = x7[o].left - 1, !.over = over]
  <2>1. e \in Way /\ (x7[o].endpoint # None => e = x7[o].endpoint)
    BY <1>1 DEF Link!Target, Way, LinkCommand
  <2>2. Link!LeavesBy(e) \in Interface
    BY <2>1, LinkAssumption DEF Link!LeavesBy, Link!BindInterface, Way, LinkAssumption
  <2>3. over \in [interface : Interface, endpoint : Way] /\ over.interface = Link!LeavesBy(e)
        /\ over.endpoint = e
    BY <2>1, <2>2
  <2>4. x7' = [x7 EXCEPT ![o] = c] BY <1>2
  <2> HIDE DEF over
  <2>10. x7[o].left - 1 \in Nat BY <1>1 DEF LinkCommand
  <2>5. /\ c \in LinkCommand /\ c.pc = "upload" /\ c.endpoint = x7[o].endpoint /\ c.over = over
        /\ c.report = x7[o].report
    BY <1>1, <2>3, <2>10 DEF LinkCommand
  <2> HIDE DEF c
  <2>6. x7'[o] = c BY <2>4 DEF LinkInv, LinkTyped
  <2>7. Decided(o)' BY <2>5, <2>6 DEF Decided
  <2>8. x1.required => Kind[Link!LeavesBy(e)] = "wired"
    BY <1>1, <2>1 DEF Session, ByWire, Link!OverWire
  <2>9. Session(o)'
    BY <1>1, <2>1, <2>3, <2>5, <2>6, <2>8 DEF Session, ByWire, Link!OverWire
  <2> QED BY <1>1, <2>4, <2>5, <2>7, <2>9, LinkMove DEF Trusting
<1>3. CASE Link!Ends(o) BY <1>1, <1>3, LinkEnds
<1> QED BY <1>2, <1>3 DEF Link!Upload

LEMMA LinkSurroundings ==
  ASSUME LinkInv,
         \/ \E k \in Key : Link!Swap(k)
         \/ \E a \in HostAddress : Link!Ages(a) \/ \E who \in Key \cup {None} : Link!Moves(a, who)
         \/ \E i \in Interface : Link!Plug(i)
  PROVE  LinkInv' /\ Link!TrustNamed
<1>1. UNCHANGED <<x1, x6, x7>>
  BY DEF Link!Swap, Link!Ages, Link!Moves, Link!Plug
<1>2. /\ x2' \subseteq Interface /\ x3' \in Key /\ x5' \subseteq HostAddress
      /\ x4' \in [HostAddress -> Key \cup {None}]
  <2>1. /\ x2 \subseteq Interface /\ x3 \in Key /\ x5 \subseteq HostAddress
        /\ x4 \in [HostAddress -> Key \cup {None}]
    BY DEF LinkInv, LinkTyped
  <2>2. CASE \E k \in Key : Link!Swap(k)
    BY <2>1, <2>2 DEF Link!Swap
  <2>3. CASE \E a \in HostAddress : Link!Ages(a)
    BY <2>1, <2>3 DEF Link!Ages
  <2>4. CASE \E a \in HostAddress, who \in Key \cup {None} : Link!Moves(a, who)
    BY <2>1, <2>4 DEF Link!Moves
  <2>5. CASE \E i \in Interface : Link!Plug(i)
    BY <2>1, <2>5 DEF Link!Plug
  <2> QED BY <2>2, <2>3, <2>4, <2>5
<1> QED BY <1>1, <1>2, LinkAround DEF LinkInv, LinkTyped

LEMMA LinkStep ==
  ASSUME LinkInv, Link!Next
  PROVE  LinkInv' /\ (Apart => Link!TrustNamed)
<1>1. ASSUME NEW o \in Operator, Link!Proceed(o) PROVE LinkInv' /\ (Apart => Link!TrustNamed)
  <2>1. CASE Link!Uploaded(o)
    BY <2>1, LinkEnds DEF Link!Uploaded, Link!around
  <2> QED BY <1>1, <2>1, LinkScan, LinkLook, LinkMatch, LinkWrite, LinkResolve, LinkAskHost, LinkPreferWired,
    LinkGate, LinkUpload DEF Link!Proceed
<1>2. ASSUME NEW o \in Operator, Link!OperatorDies(o) PROVE LinkInv' /\ Link!TrustNamed
  BY <1>2, LinkEnds DEF Link!OperatorDies, Link!around
<1>3. ASSUME NEW o \in Operator, NEW replace \in Key \cup {None}, NEW apply \in BOOLEAN,
             Link!TrustHostKey(o, replace, apply)
      PROVE  LinkInv' /\ Link!TrustNamed
  BY <1>3, LinkBegin DEF Link!TrustHostKey, Link!around
<1>4. CASE Link!Confirm(Lead)
  <2>1. x3 \in Key BY DEF LinkInv, LinkTyped
  <2> QED BY <1>4, <2>1, LinkBegin, UpkeepAssumption DEF UpkeepAssumption, Link!Confirm, Link!around
<1>5. CASE Link!StartRelease(Lead)
  BY <1>5, LinkStartRelease, UpkeepAssumption DEF UpkeepAssumption
<1> QED BY <1>1, <1>2, <1>3, <1>4, <1>5, LinkSurroundings DEF Link!Next


LEMMA LinkStays ==
  ASSUME LinkInv, UNCHANGED vars
  PROVE  LinkInv'
<1>1. UNCHANGED <<machine, x1, x2, x3, x4, x5, x6, x7>> BY DEF vars
<1>2. LinkTyped' BY <1>1 DEF LinkInv, LinkTyped
<1> QED BY <1>1, <1>2, LinkAround

\* UploadKeepsLink, for any interfaces, addresses and networks: what the gate
\* let pass is what every call of the upload leaves by.
THEOREM UploadGoesAsReported == Spec => []UploadKeepsLink
<1> DEFINE I == machine = "link" => LinkInv
<1>1. Init => I
  BY LinkInit DEF Init
<1>2. I /\ [Next]_vars => I'
  BY OneMachine, LinkStep, LinkStays DEF vars
<1>3. I => UploadKeepsLink
  BY DEF LinkInv, Session, Link!OverReported, UploadKeepsLink
<1> QED BY <1>1, <1>2, <1>3, PTL DEF Spec

\* TrustNamed, for any keys and any lines of the file, if no two trust-host-key
\* run at a time.
THEOREM TrustChangesAsNamed ==
  ASSUME "trusts_meanwhile" \notin Faults
  PROVE  Spec => TrustNamed
<1> DEFINE I == machine = "link" => LinkInv
<1>1. Init => I
  BY LinkInit DEF Init
<1>2. I /\ [Next]_vars => I' /\ [machine = "link" => Link!TrustNamed]_vars
  BY OneMachine, LinkStep, LinkStays DEF vars, Apart
<1> QED BY <1>1, <1>2, PTL DEF Spec, TrustNamed

-----------------------------------------------------------------------------
(* HostCredentials: x1 declared, x2 inputs, x3 held, x4 installed,           *)
(* x5 setupCode, x6 staged, x7 cmd, x8 edits.                                 *)

Values == [Slots -> Nat]
CredentialCommand ==
  [verb : {"none", "converge", "repair"},
   pc : {"idle", "inputs", "prove", "upload", "add", "read", "write", "clean up"},
   files : SUBSET File, pending : Values \cup {None}]
CredentialsTyped ==
  /\ x1 \subseteq Slots /\ x2 \in Values /\ x3 \in Values /\ x4 \subseteq File
  /\ x6 \in [{"converge", "repair"} -> Values \cup {None}]
  /\ x7 \in [Operator -> CredentialCommand]
  /\ x8 \in Nat

Repairing(o) == x7[o].verb = "repair"

\* Nothing runs beside a repair.
Alone ==
  /\ \A o \in Operator : x7[o].pc = "idle" => x7[o].verb = "none"
  /\ \A o, p \in Operator : Repairing(o) /\ p # o => x7[p].pc = "idle"

\* The workstation's copies of a shared credential agree.
OneMind ==
  \A s, t \in x1 : s[1] = t[1] /\ s[1] \notin Provider => x2[s] = x2[t] /\ x2[s] # 0

\* A repair proved them to agree, and offers them.
Proved(o) ==
  Repairing(o) =>
    /\ x7[o].pc \in {"upload", "read", "write"} => OneMind
    /\ x7[o].pc = "read" /\ x6["repair"] # None =>
         \A s \in x1 : s[1] \notin Provider => x6["repair"][s] = x2[s]

\* What it is to write changes only copies of a credential that is still
\* divided, to the workstation's value.
ToCorrect(s, value) ==
  s \in x1 /\ Credentials!Divided(s[1]) /\ s[1] \notin Provider /\ value = x2[s]
Pends(o) ==
  x7[o].pc = "write" =>
    /\ Repairing(o) /\ x7[o].pending \in Values
    /\ \A s \in Slots : x7[o].pending[s] = x3[s] \/ ToCorrect(s, x7[o].pending[s])

CredentialsInv ==
  /\ CredentialsTyped /\ Alone
  /\ \A o \in Operator : Proved(o) /\ Pends(o)

CredentialsGranted == "edits_meanwhile" \notin Faults /\ "repairs_meanwhile" \notin Faults

-----------------------------------------------------------------------------
LEMMA SlotsOfClass ==
  ASSUME CredentialAssumption, x1 \subseteq Slots, NEW c
  PROVE  /\ Credentials!ClassSlots(c) \subseteq x1
         /\ \A s \in x1 : s \in Credentials!ClassSlots(c) <=> s[1] = c
BY DEF Credentials!ClassSlots, Credentials!ClassOf

\* What some slots hold is a finite set of values.
LEMMA KnownFinite ==
  ASSUME CredentialAssumption, NEW slots \in SUBSET Slots, NEW values
  PROVE  IsFiniteSet(Credentials!Known(values, slots))
<1> DEFINE V == {values[s] : s \in slots}
           f == [s \in slots |-> values[s]]
<1>1. IsFiniteSet(slots) BY FS_Subset DEF CredentialAssumption
<1>2. f \in Surjection(slots, V) BY DEF Surjection
<1>3. Credentials!Known(values, slots) \subseteq V BY DEF Credentials!Known
<1> HIDE DEF f, V
<1>4. IsFiniteSet(V) BY <1>1, <1>2, FS_Surjection
<1> QED BY <1>3, <1>4, FS_Subset

\* An instance counts as its module does.
LEMMA Counting == \A S : Credentials!Cardinality(S) = Cardinality(S)
BY DEF Credentials!Cardinality, Cardinality

LEMMA TwoValues ==
  ASSUME NEW K, IsFiniteSet(K), NEW a \in K, NEW b \in K, a # b
  PROVE  Cardinality(K) > 1
<1>1. IsFiniteSet({a}) /\ Cardinality({a}) = 1 BY FS_Singleton
<1>2. b \notin {a} OBVIOUS
<1>3. IsFiniteSet({a} \cup {b}) /\ Cardinality({a} \cup {b}) = 1 + 1 BY <1>1, <1>2, FS_AddElement
<1>4. {a} \cup {b} \in SUBSET K OBVIOUS
<1>5. Cardinality({a} \cup {b}) <= Cardinality(K) BY <1>4, FS_Subset
<1>6. Cardinality(K) \in Nat BY FS_CardinalityType
<1> QED BY <1>3, <1>5, <1>6

DividedIn(slots, held) ==
  /\ \A s \in slots : held[s] # 0
  /\ Credentials!Cardinality(Credentials!Known(held, slots)) > 1
LEMMA DividedIs == \A c : Credentials!Divided(c) <=> DividedIn(Credentials!ClassSlots(c), x3)
BY DEF Credentials!Divided, Credentials!Complete, DividedIn

\* Two copies that differ divide a credential whose copies are all there.
LEMMA TwoDivide ==
  ASSUME CredentialAssumption, NEW slots \in SUBSET Slots, NEW held, \A r \in slots : held[r] # 0,
         NEW s \in slots, NEW t \in slots, held[s] # held[t]
  PROVE  DividedIn(slots, held)
<1> DEFINE K == Credentials!Known(held, slots)
<1>1. IsFiniteSet(K) BY KnownFinite
<1>2. held[s] \in K /\ held[t] \in K BY DEF Credentials!Known
<1> HIDE DEF K
<1>3. Credentials!Cardinality(K) > 1 BY <1>1, <1>2, TwoValues, Counting
<1> QED BY <1>3 DEF DividedIn, K

\* Copies that are as they were divide a credential as they did.
LEMMA StaysDivided ==
  ASSUME NEW slots, NEW held, NEW held_, DividedIn(slots, held), \A s \in slots : held_[s] = held[s]
  PROVE  DividedIn(slots, held_)
<1>1. Credentials!Known(held_, slots) = Credentials!Known(held, slots)
  <2>1. {held_[s] : s \in slots} = {held[s] : s \in slots} OBVIOUS
  <2> QED BY <2>1 DEF Credentials!Known
<1> QED BY <1>1 DEF DividedIn

\* A provider's credential has one copy.
LEMMA ProviderUndivided ==
  ASSUME CredentialAssumption, CredentialsTyped, NEW c, Credentials!Divided(c)
  PROVE  c \notin Provider
<1> SUFFICES ASSUME c \in Provider PROVE FALSE OBVIOUS
<1> DEFINE K == Credentials!Known(x3, Credentials!ClassSlots(c))
<1>1. x1 \subseteq Slots BY DEF CredentialsTyped
<1>2. IsFiniteSet(K) /\ Cardinality(K) > 1
  BY <1>1, SlotsOfClass, KnownFinite, Counting DEF Credentials!Divided
<1>3. \A a, b \in K : a = b
  BY <1>1, SlotsOfClass DEF CredentialAssumption, Credentials!Known
<1> HIDE DEF K
<1>4. K = {} \/ \E a : K = {a} BY <1>3
<1> QED BY <1>2, <1>4, FS_EmptySet, FS_Singleton

\* A set of inputs that was proved agrees.
LEMMA ProvenAgrees ==
  ASSUME CredentialAssumption, CredentialsTyped, Credentials!Proven
  PROVE  OneMind
<1> SUFFICES ASSUME NEW s \in x1, NEW t \in x1, s[1] = t[1] PROVE x2[s] = x2[t] /\ x2[s] # 0
  BY DEF OneMind
<1> DEFINE K == Credentials!Known(x2, Credentials!ClassSlots(s[1]))
<1>1. x1 \subseteq Slots BY DEF CredentialsTyped
<1>2. IsFiniteSet(K) BY <1>1, SlotsOfClass, KnownFinite
<1>3. Cardinality(K) = 1 /\ x2[s] # 0 /\ x2[t] # 0
  BY Counting DEF Credentials!Proven, Credentials!ClassOf
<1>4. x2[s] \in K /\ x2[t] \in K
  <2>1. s \in Credentials!ClassSlots(s[1]) /\ t \in Credentials!ClassSlots(s[1]) BY <1>1, SlotsOfClass
  <2> QED BY <1>3, <2>1 DEF Credentials!Known
<1> HIDE DEF K
<1> QED BY <1>2, <1>3, <1>4, FS_Singleton

-----------------------------------------------------------------------------
LEMMA CredentialsInit == ASSUME CredentialAssumption, Credentials!Init PROVE CredentialsInv
<1>1. \A o \in Operator : x7[o] = [verb |-> "none", pc |-> "idle", files |-> {}, pending |-> None]
  BY DEF Credentials!Init, Credentials!Ready
<1>2. x7 \in [Operator -> CredentialCommand]
  <2>1. [verb |-> "none", pc |-> "idle", files |-> {}, pending |-> None] \in CredentialCommand
    BY DEF CredentialCommand
  <2> QED BY <2>1 DEF Credentials!Init, Credentials!Ready
<1>3. x1 \subseteq Slots /\ x4 \subseteq File /\ x8 \in Nat
  BY DEF Credentials!Init, CredentialAssumption
<1>4. x2 \in Values BY DEF Credentials!Init, Values
<1>5. x3 \in Values
  <2>1. x3 = [s \in Slots |-> IF Credentials!FileOf(s) \in x4 THEN x2[s] ELSE 0]
    BY DEF Credentials!Init
  <2> QED BY <1>4, <2>1 DEF Values
<1>6. x6 \in [{"converge", "repair"} -> Values \cup {None}] BY DEF Credentials!Init
<1> QED BY <1>1, <1>2, <1>3, <1>4, <1>5, <1>6
  DEF CredentialsInv, CredentialsTyped, Alone, Proved, Pends, Repairing

\* Where the command o goes; the others stand where they stood.
Becomes(o, c) == x7' = [x7 EXCEPT ![o] = c]
Command(verb, pc, files, pending) == [verb |-> verb, pc |-> pc, files |-> files, pending |-> pending]

LEMMA CredentialsBecome ==
  ASSUME CredentialsInv, NEW o \in Operator, NEW c \in CredentialCommand, Becomes(o, c)
  PROVE  /\ x7' \in [Operator -> CredentialCommand] /\ x7'[o] = c
         /\ \A p \in Operator \ {o} : x7'[p] = x7[p]
BY DEF CredentialsInv, CredentialsTyped, Becomes

LEMMA CommandAt ==
  ASSUME NEW r \in CredentialCommand, NEW pc, NEW files, NEW pending
  PROVE  /\ [r EXCEPT !.pc = pc] = Command(r.verb, pc, r.files, r.pending)
         /\ [r EXCEPT !.files = files] = Command(r.verb, r.pc, files, r.pending)
         /\ [r EXCEPT !.pc = pc, !.files = files] = Command(r.verb, pc, files, r.pending)
<1> DEFINE Fields == {"verb", "pc", "files", "pending"}
<1>1. r = [x \in Fields |-> r[x]] BY DEF CredentialCommand
<1>2. \A v, at, fs, pe : Command(v, at, fs, pe) =
        [x \in Fields |-> IF x = "verb" THEN v ELSE IF x = "pc" THEN at
                          ELSE IF x = "files" THEN fs ELSE pe]
  BY DEF Command
<1> QED BY <1>1, <1>2

LEMMA ReadyIs ==
  /\ Credentials!Ready = Command("none", "idle", {}, None)
  /\ Credentials!Ready \in CredentialCommand
  /\ Credentials!Ready.verb = "none" /\ Credentials!Ready.pc = "idle"
BY DEF Credentials!Ready, Command, CredentialCommand

LEMMA CredentialsTo ==
  ASSUME CredentialsInv, NEW o \in Operator,
         NEW pc \in {"inputs", "prove", "upload", "add", "read", "write", "clean up"},
         NEW files \in SUBSET File, NEW pending \in Values \cup {None}
  PROVE  /\ Command(x7[o].verb, pc, files, pending) \in CredentialCommand
         /\ Credentials!To(o, pc) => Becomes(o, Command(x7[o].verb, pc, x7[o].files, x7[o].pending))
         /\ Credentials!Ends(o) => Becomes(o, Command(x7[o].verb, "clean up", {}, None))
         /\ Command(x7[o].verb, pc, x7[o].files, x7[o].pending) \in CredentialCommand
<1>1. x7 \in [Operator -> CredentialCommand] BY DEF CredentialsInv, CredentialsTyped
<1>2. /\ Command(x7[o].verb, pc, files, pending) \in CredentialCommand
      /\ Command(x7[o].verb, pc, x7[o].files, x7[o].pending) \in CredentialCommand
  BY <1>1 DEF Command, CredentialCommand
<1>4. [x7[o] EXCEPT !.pc = pc] = Command(x7[o].verb, pc, x7[o].files, x7[o].pending)
  BY <1>1, CommandAt
<1>5. Credentials!To(o, pc) => Becomes(o, [x7[o] EXCEPT !.pc = pc])
  BY <1>1 DEF Credentials!To, Becomes
<1>6. Credentials!Ends(o) => Becomes(o, Command(x7[o].verb, "clean up", {}, None))
  BY DEF Credentials!Ends, Credentials!Ready, Becomes, Command
<1> QED BY <1>2, <1>4, <1>5, <1>6

\* While a command that is no repair runs, no repair does; beside a repair nothing.
LEMMA CredentialsGo ==
  ASSUME CredentialsInv, NEW o \in Operator, x7[o].pc # "idle", NEW c \in CredentialCommand,
         Becomes(o, c), UNCHANGED <<x1, x4, x8>>, x2' \in Values, x3' \in Values,
         x6' \in [{"converge", "repair"} -> Values \cup {None}],
         c.pc = "idle" => c.verb = "none", c.verb = "repair" => Repairing(o),
         Proved(o)', Pends(o)'
  PROVE  CredentialsInv'
<1>1. /\ x7' \in [Operator -> CredentialCommand] /\ x7'[o] = c
      /\ \A p \in Operator \ {o} : x7'[p] = x7[p]
  BY CredentialsBecome
<1>2. CredentialsTyped' BY <1>1 DEF CredentialsInv, CredentialsTyped
<1>3. \A p \in Operator \ {o} : ~Repairing(p) /\ x7[p].pc # "write"
  BY DEF CredentialsInv, Alone, Pends
<1>4. Alone' BY <1>1, <1>3 DEF CredentialsInv, Alone, Repairing
<1>5. \A p \in Operator : Proved(p)' /\ Pends(p)'
  BY <1>1, <1>3 DEF Proved, Pends, Repairing
<1> QED BY <1>2, <1>4, <1>5 DEF CredentialsInv

\* Nothing changes where no held value does.
LEMMA NothingChanges ==
  ASSUME \A s \in Slots : x3[s] # 0 => x3'[s] = x3[s]
  PROVE  Credentials!KeptByCommands
BY DEF Credentials!KeptByCommands, Credentials!Changed

\* A command that goes on and writes nothing.
LEMMA CredentialsPass ==
  ASSUME CredentialsInv, NEW o \in Operator, x7[o].pc # "idle", NEW c \in CredentialCommand,
         Becomes(o, c), UNCHANGED <<x1, x2, x3, x4, x8>>,
         x6' \in [{"converge", "repair"} -> Values \cup {None}],
         \/ c.pc = "idle" /\ c.verb = "none"
         \/ c.pc # "idle" /\ c.verb = x7[o].verb,
         c.verb = "repair" /\ c.pc \in {"upload", "read"} => OneMind,
         c.verb = "repair" /\ c.pc = "read" => x6'["repair"] = x2,
         c.pc # "write"
  PROVE  CredentialsInv' /\ Credentials!KeptByCommands
<1>1. x7'[o] = c BY CredentialsBecome
<1>2. Proved(o)' BY <1>1 DEF Proved, Repairing, OneMind
<1>3. Pends(o)' BY <1>1 DEF Pends
<1>4. x2 \in Values /\ x3 \in Values BY DEF CredentialsInv, CredentialsTyped
<1>5. c.verb = "repair" => Repairing(o) BY DEF Repairing
<1> QED BY <1>2, <1>3, <1>4, <1>5, CredentialsGo, NothingChanges

-----------------------------------------------------------------------------
CredentialsPromise == Credentials!KeptByCommands

\* The steps that write nothing on the Host.
LEMMA CredentialsProve ==
  ASSUME CredentialAssumption, CredentialsInv, NEW o \in Operator, Credentials!Prove(o)
  PROVE  CredentialsInv' /\ CredentialsPromise
<1>1. /\ x7[o].pc = "prove" /\ UNCHANGED <<x1, x2, x3, x4, x6, x8>>
      /\ x6 \in [{"converge", "repair"} -> Values \cup {None}]
  BY DEF Credentials!Prove, Credentials!At, CredentialsInv, CredentialsTyped
<1>2. CASE Credentials!Proven
  <2> DEFINE c == Command(x7[o].verb, "upload", x7[o].files, x7[o].pending)
  <2>1. Becomes(o, c) /\ c \in CredentialCommand
    BY <1>2, CredentialsTo DEF Credentials!Prove
  <2>2. OneMind BY <1>2, ProvenAgrees DEF CredentialsInv
  <2>3. c.verb = x7[o].verb /\ c.pc = "upload" BY DEF Command
  <2> HIDE DEF c
  <2> QED BY <1>1, <2>1, <2>2, <2>3, CredentialsPass DEF CredentialsPromise
<1>3. CASE ~Credentials!Proven
  <2> DEFINE c == Credentials!Ready
  <2>1. Becomes(o, c) BY <1>3 DEF Credentials!Prove, Becomes
  <2>2. c \in CredentialCommand /\ c.verb = "none" /\ c.pc = "idle" BY ReadyIs
  <2> HIDE DEF c
  <2> QED BY <1>1, <2>1, <2>2, CredentialsPass DEF CredentialsPromise
<1> QED BY <1>2, <1>3

LEMMA CredentialsUpload ==
  ASSUME CredentialAssumption, CredentialsInv, NEW o \in Operator, Credentials!Upload(o)
  PROVE  CredentialsInv' /\ CredentialsPromise
<1>1. x7[o].pc = "upload" /\ UNCHANGED <<x1, x2, x3, x4, x8>>
  BY DEF Credentials!Upload
<1>2. /\ x2 \in Values /\ x4 \subseteq File /\ x7[o] \in CredentialCommand
      /\ x6 \in [{"converge", "repair"} -> Values \cup {None}]
  BY DEF CredentialsInv, CredentialsTyped
<1>3. CASE /\ x6' = [x6 EXCEPT ![x7[o].verb] = x2]
           /\ x7' = [x7 EXCEPT ![o].pc = IF x7[o].verb = "repair" THEN "read" ELSE "add",
                               ![o].files = IF x7[o].verb = "repair" THEN {} ELSE x4]
  <2> DEFINE pc == IF x7[o].verb = "repair" THEN "read" ELSE "add"
             files == IF x7[o].verb = "repair" THEN {} ELSE x4
             c == Command(x7[o].verb, pc, files, x7[o].pending)
  <2>1. c \in CredentialCommand BY <1>2 DEF Command, CredentialCommand
  <2>2. Becomes(o, c)
    <3>1. [x7[o] EXCEPT !.pc = pc, !.files = files] = c
      <4> HIDE DEF pc, files
      <4> QED BY <1>2, CommandAt
    <3>2. x7' = [x7 EXCEPT ![o].pc = pc, ![o].files = files]
      BY <1>3
    <3>3. x7' = [x7 EXCEPT ![o] = [x7[o] EXCEPT !.pc = pc, !.files = files]]
      <4> HIDE DEF pc, files
      <4>1. x7 \in [Operator -> CredentialCommand] BY DEF CredentialsInv, CredentialsTyped
      <4>2. [x7 EXCEPT ![o].pc = pc] = [x7 EXCEPT ![o] = [x7[o] EXCEPT !.pc = pc]] OBVIOUS
      <4>3. [x7 EXCEPT ![o].pc = pc, ![o].files = files]
              = [[x7 EXCEPT ![o].pc = pc] EXCEPT ![o].files = files] OBVIOUS
      <4> QED BY <3>2, <4>1, <4>2, <4>3
    <3> QED BY <3>1, <3>3 DEF Becomes
  <2>3. c.verb = x7[o].verb /\ c.pc = pc BY DEF Command
  <2>4. pc \in {"read", "add"} /\ (pc = "read" <=> x7[o].verb = "repair") OBVIOUS
  <2>5. x6' \in [{"converge", "repair"} -> Values \cup {None}] BY <1>2, <1>3
  <2>6. x7[o].verb = "repair" => OneMind /\ x6'["repair"] = x2
    BY <1>1, <1>2, <1>3 DEF CredentialsInv, Proved, Repairing
  <2> HIDE DEF c, pc
  <2> QED BY <1>1, <2>1, <2>2, <2>3, <2>4, <2>5, <2>6, CredentialsPass DEF CredentialsPromise
<1>4. CASE x7' = [x7 EXCEPT ![o] = Credentials!Ready]
  <2> DEFINE c == Credentials!Ready
  <2>1. Becomes(o, c) BY <1>4 DEF Becomes
  <2>2. c \in CredentialCommand /\ c.verb = "none" /\ c.pc = "idle" BY ReadyIs
  <2>3. x6' \in [{"converge", "repair"} -> Values \cup {None}] BY <1>2 DEF Credentials!Upload
  <2> HIDE DEF c
  <2> QED BY <1>1, <2>1, <2>2, <2>3, CredentialsPass DEF CredentialsPromise
<1> QED BY <1>3, <1>4 DEF Credentials!Upload

LEMMA CredentialsOver ==
  ASSUME CredentialsInv, NEW o \in Operator, x7[o].pc # "idle",
         Credentials!Ends(o) \/ Becomes(o, Credentials!Ready),
         UNCHANGED <<x1, x2, x3, x4, x8>>, x6' \in [{"converge", "repair"} -> Values \cup {None}]
  PROVE  CredentialsInv' /\ CredentialsPromise
<1>1. CASE Credentials!Ends(o)
  <2> DEFINE c == Command(x7[o].verb, "clean up", {}, None)
  <2>1. Becomes(o, c) /\ c \in CredentialCommand BY <1>1, CredentialsTo
  <2>2. c.verb = x7[o].verb /\ c.pc = "clean up" BY DEF Command
  <2> HIDE DEF c
  <2> QED BY <2>1, <2>2, CredentialsPass DEF CredentialsPromise
<1>2. CASE Becomes(o, Credentials!Ready)
  <2> DEFINE c == Credentials!Ready
  <2>1. Becomes(o, c) /\ c \in CredentialCommand /\ c.verb = "none" /\ c.pc = "idle"
    BY <1>2, ReadyIs
  <2> HIDE DEF c
  <2> QED BY <2>1, CredentialsPass DEF CredentialsPromise
<1> QED BY <1>1, <1>2

LEMMA CredentialsLeave ==
  ASSUME CredentialsInv, NEW o \in Operator,
         \/ Credentials!Written(o) \/ Credentials!CleanUp(o) \/ Credentials!AgentStops(o)
         \/ Credentials!OperatorDies(o) \/ Credentials!AddFile(o)
  PROVE  CredentialsInv' /\ CredentialsPromise
<1>1. /\ x7[o].pc # "idle" /\ UNCHANGED <<x1, x2, x3, x4, x8>>
      /\ Credentials!Ends(o) \/ Becomes(o, Credentials!Ready)
      /\ x6' \in {x6, [x6 EXCEPT ![x7[o].verb] = None]}
  BY DEF Credentials!Written, Credentials!CleanUp, Credentials!AgentStops, Credentials!OperatorDies,
    Credentials!AddFile, Credentials!At, Becomes
<1>2. x6' \in [{"converge", "repair"} -> Values \cup {None}]
  BY <1>1 DEF CredentialsInv, CredentialsTyped
<1> QED BY <1>1, <1>2, CredentialsOver

LEMMA CredentialsAddMissing ==
  ASSUME CredentialAssumption, CredentialsInv, NEW o \in Operator, Credentials!AddMissing(o)
  PROVE  CredentialsInv' /\ CredentialsPromise
<1>1. /\ x7[o].verb = "converge" /\ x7[o].pc = "inputs" /\ UNCHANGED <<x1, x3, x4, x6, x8>>
  BY DEF Credentials!AddMissing, Credentials!At
<1>2. /\ x1 \subseteq Slots /\ x2 \in Values /\ x3 \in Values
      /\ x6 \in [{"converge", "repair"} -> Values \cup {None}]
  BY DEF CredentialsInv, CredentialsTyped
<1>3. \A s \in Slots : Credentials!Offer(s) \in Nat
  <2> SUFFICES ASSUME NEW s \in Slots PROVE Credentials!Offer(s) \in Nat OBVIOUS
  <2> DEFINE K == Credentials!Known(x2, Credentials!ClassSlots(Credentials!ClassOf(s)))
  <2>1. K \subseteq Nat
    <3>1. Credentials!ClassSlots(Credentials!ClassOf(s)) \subseteq Slots BY <1>2, SlotsOfClass
    <3> QED BY <1>2, <3>1 DEF Credentials!Known, Values
  <2> DEFINE e == CHOOSE v \in K : TRUE
  <2>2. Credentials!Offer(s) = IF K = {} THEN 1 ELSE e BY DEF Credentials!Offer
  <2>3. K # {} => e \in K
    <3> HIDE DEF K
    <3> QED OBVIOUS
  <2> HIDE DEF K, e
  <2>4. e \in K => e \in Nat BY <2>1
  <2>5. 1 \in Nat OBVIOUS
  <2>6. CASE K = {} BY <2>2, <2>5, <2>6
  <2>7. CASE K # {} BY <2>2, <2>3, <2>4, <2>7
  <2> QED BY <2>6, <2>7
<1>4. x2' \in Values
  <2>1. CASE x2' = x2 BY <1>2, <2>1
  <2>2. CASE x2' # x2
    <3>1. PICK S : x2' = [s \in Slots |-> IF s \in S THEN Credentials!Offer(s) ELSE x2[s]]
      <4>1. CASE x2' = [s \in Slots |-> IF s \in Credentials!Missing THEN Credentials!Offer(s) ELSE x2[s]]
        BY <4>1
      <4>2. ASSUME NEW fs \in SUBSET File,
                   x2' = [s \in Slots |-> IF s \in Credentials!Missing /\ Credentials!FileOf(s) \in fs
                                          THEN Credentials!Offer(s) ELSE x2[s]]
            PROVE  \E S : x2' = [s \in Slots |-> IF s \in S THEN Credentials!Offer(s) ELSE x2[s]]
        <5> DEFINE S == {s \in Credentials!Missing : Credentials!FileOf(s) \in fs}
        <5>1. x2' = [s \in Slots |-> IF s \in S THEN Credentials!Offer(s) ELSE x2[s]] BY <4>2
        <5> QED BY <5>1
      <4> QED BY <2>2, <4>1, <4>2 DEF Credentials!AddMissing
    <3> QED BY <1>2, <1>3, <3>1 DEF Values
  <2> QED BY <2>1, <2>2
<1>5. PICK c \in CredentialCommand :
        /\ Becomes(o, c)
        /\ \/ c.pc = "idle" /\ c.verb = "none"
           \/ c.pc = "upload" /\ c.verb = "converge"
  <2>1. CASE Credentials!To(o, "upload")
    <3> DEFINE c == Command(x7[o].verb, "upload", x7[o].files, x7[o].pending)
    <3>1. Becomes(o, c) /\ c \in CredentialCommand BY <2>1, CredentialsTo
    <3>2. c.verb = "converge" /\ c.pc = "upload" BY <1>1 DEF Command
    <3> QED BY <3>1, <3>2
  <2>2. CASE Becomes(o, Credentials!Ready) BY <2>2, ReadyIs
  <2> QED BY <2>1, <2>2 DEF Credentials!AddMissing, Becomes
<1>6. x7'[o] = c BY <1>5, CredentialsBecome
<1>7. Proved(o)' /\ Pends(o)' BY <1>5, <1>6 DEF Proved, Pends, Repairing
<1> QED BY <1>1, <1>2, <1>4, <1>5, <1>7, CredentialsGo, NothingChanges DEF CredentialsPromise

\* A file gains what it lacked: no value there is changed.
LEMMA CredentialsAddKeys ==
  ASSUME CredentialsInv, NEW o \in Operator, Credentials!AddKeys(o)
  PROVE  CredentialsInv' /\ CredentialsPromise
<1> DEFINE f == Credentials!Next_(o)
           gains == Credentials!Gains(o, f)
<1>1. /\ x7[o].verb = "converge" /\ x7[o].pc = "add" /\ UNCHANGED <<x1, x2, x4, x6, x8>>
      /\ x3' = IF gains = {} THEN x3 ELSE
               [s \in Slots |-> IF s \in gains THEN Credentials!Offered(o)[s] ELSE x3[s]]
      /\ \/ x7' = [x7 EXCEPT ![o].files = x7[o].files \ {f}]
         \/ Credentials!Ends(o)
  BY DEF Credentials!AddKeys, Credentials!At
<1>2. /\ x2 \in Values /\ x3 \in Values /\ x7 \in [Operator -> CredentialCommand]
      /\ x6 \in [{"converge", "repair"} -> Values \cup {None}]
  BY DEF CredentialsInv, CredentialsTyped
<1>3. gains # {} => Credentials!Offered(o) \in Values
  BY <1>1, <1>2 DEF Credentials!Gains, Credentials!Carries, Credentials!Offered
<1>4. \A s \in gains : x3[s] = 0
  BY DEF Credentials!Gains, Credentials!Wanted, Credentials!Lacking
<1> HIDE DEF gains
<1>5. x3' \in Values BY <1>1, <1>2, <1>3 DEF Values
<1>6. \A s \in Slots : x3[s] # 0 => x3'[s] = x3[s] BY <1>1, <1>4
<1>7. PICK c \in CredentialCommand : Becomes(o, c) /\ c.verb = "converge" /\ c.pc \in {"add", "clean up"}
  <2>1. CASE x7' = [x7 EXCEPT ![o].files = x7[o].files \ {f}]
    <3> DEFINE fs == x7[o].files \ {f}
               c == Command(x7[o].verb, x7[o].pc, fs, x7[o].pending)
    <3>1. [x7[o] EXCEPT !.files = fs] = c BY <1>2, CommandAt
    <3>2. x7' = [x7 EXCEPT ![o] = [x7[o] EXCEPT !.files = fs]] BY <1>2, <2>1
    <3>3. fs \in SUBSET File BY <1>2 DEF CredentialCommand
    <3>4. c \in CredentialCommand /\ c.verb = "converge" /\ c.pc = "add"
      <4> HIDE DEF fs
      <4> QED BY <1>1, <1>2, <3>3 DEF Command, CredentialCommand
    <3> HIDE DEF c
    <3> QED BY <3>1, <3>2, <3>4 DEF Becomes
  <2>2. CASE Credentials!Ends(o)
    <3> DEFINE c == Command(x7[o].verb, "clean up", {}, None)
    <3>1. Becomes(o, c) /\ c \in CredentialCommand BY <2>2, CredentialsTo
    <3>2. c.verb = "converge" /\ c.pc = "clean up" BY <1>1 DEF Command
    <3> QED BY <3>1, <3>2
  <2> QED BY <1>1, <2>1, <2>2
<1>8. x7'[o] = c BY <1>7, CredentialsBecome
<1>9. Proved(o)' /\ Pends(o)' BY <1>7, <1>8 DEF Proved, Pends, Repairing
<1> QED BY <1>1, <1>2, <1>5, <1>6, <1>7, <1>9, CredentialsGo, NothingChanges DEF CredentialsPromise

LEMMA CredentialsRead ==
  ASSUME CredentialAssumption, CredentialsInv, NEW o \in Operator, Credentials!ReadHost(o)
  PROVE  CredentialsInv' /\ CredentialsPromise
<1>1. x7[o].verb = "repair" /\ x7[o].pc = "read" /\ UNCHANGED <<x1, x2, x3, x4, x6, x8>>
  BY DEF Credentials!ReadHost, Credentials!At
<1>2. /\ x1 \subseteq Slots /\ x2 \in Values /\ x3 \in Values /\ x7 \in [Operator -> CredentialCommand]
      /\ x6 \in [{"converge", "repair"} -> Values \cup {None}]
  BY DEF CredentialsInv, CredentialsTyped
<1>3. CASE Credentials!Ends(o) BY <1>1, <1>2, <1>3, CredentialsOver
<1>4. CASE ~Credentials!Ends(o)
  <2> DEFINE offered == x6["repair"]
             S == Credentials!Corrected(o)
             files == {Credentials!FileOf(s) : s \in S}
             pending == [s \in Slots |-> IF s \in S THEN offered[s] ELSE x3[s]]
             c == Command("repair", "write", files, pending)
  <2>1. /\ x7' = [x7 EXCEPT ![o].pc = "write", ![o].files = files, ![o].pending = pending]
        /\ offered # None
    BY <1>1, <1>4 DEF Credentials!ReadHost, Credentials!Offered
  <2>2. /\ S \subseteq x1
        /\ \A s \in S : Credentials!Divided(s[1])
    BY DEF Credentials!Corrected, Credentials!ClassOf
  <2>3. offered \in Values BY <1>2, <2>1
  <2>4. files \in SUBSET File BY <1>2, <2>2 DEF Credentials!FileOf, CredentialAssumption
  <2>5. pending \in Values BY <1>2, <2>3 DEF Values
  <2>6. \A s \in S : s[1] \notin Provider /\ offered[s] = x2[s]
    <3> SUFFICES ASSUME NEW s \in S PROVE s[1] \notin Provider /\ offered[s] = x2[s] OBVIOUS
    <3>1. Credentials!Divided(s[1]) /\ s \in x1 BY <2>2
    <3>2. s[1] \notin Provider BY <3>1, ProviderUndivided DEF CredentialsInv
    <3> QED BY <1>1, <2>1, <3>1, <3>2 DEF CredentialsInv, Proved, Repairing
  <2>7. \A s \in Slots : pending[s] = x3[s] \/ ToCorrect(s, pending[s])
    BY <2>2, <2>6 DEF ToCorrect
  <2>8. Becomes(o, c)
    <3>1. PICK r \in CredentialCommand : r = x7[o] BY <1>2
    <3>2. PICK fs : fs = files OBVIOUS
    <3>4. PICK pe : pe = pending OBVIOUS
    <3> HIDE DEF files, pending
    <3>5. x7' = [x7 EXCEPT ![o] = [r EXCEPT !.pc = "write", !.files = fs, !.pending = pe]]
      BY <1>2, <2>1, <3>1, <3>2, <3>4
    <3>3. [r EXCEPT !.pc = "write", !.files = fs, !.pending = pe] = Command(r.verb, "write", fs, pe)
      <4> DEFINE Fields == {"verb", "pc", "files", "pending"}
      <4>1. r = [x \in Fields |-> r[x]] BY DEF CredentialCommand
      <4>2. Command(r.verb, "write", fs, pe) =
              [x \in Fields |-> IF x = "verb" THEN r.verb ELSE IF x = "pc" THEN "write"
                                ELSE IF x = "files" THEN fs ELSE pe]
        BY DEF Command
      <4> QED BY <4>1, <4>2
    <3> QED BY <1>1, <3>1, <3>2, <3>3, <3>4, <3>5 DEF Becomes
  <2>9. c \in CredentialCommand /\ c.verb = "repair" /\ c.pc = "write" /\ c.pending = pending
    <3> HIDE DEF files, pending
    <3> QED BY <2>4, <2>5 DEF Command, CredentialCommand
  <2> HIDE DEF c, pending
  <2>10. x7'[o] = c BY <2>8, <2>9, CredentialsBecome
  <2>11. OneMind BY <1>1 DEF CredentialsInv, Proved, Repairing
  <2>12. Proved(o)' BY <1>1, <2>9, <2>10, <2>11 DEF Proved, OneMind
  <2>13. \A s \in Slots : \A v : ToCorrect(s, v)' <=> ToCorrect(s, v)
    BY <1>1 DEF ToCorrect, Credentials!Divided, Credentials!Complete, Credentials!ClassSlots, Credentials!Known
  <2>14. Pends(o)' BY <1>1, <2>5, <2>7, <2>9, <2>10, <2>13 DEF Pends, Repairing
  <2> QED BY <1>1, <1>2, <2>8, <2>9, <2>12, <2>14, CredentialsGo, NothingChanges
      DEF CredentialsPromise, Repairing
<1> QED BY <1>3, <1>4

\* A file is written whole from what was read: what that changes are copies of
\* a credential that is divided until the last of them.
LEMMA CredentialsWrite ==
  ASSUME CredentialAssumption, CredentialsInv, NEW o \in Operator, Credentials!WriteFile(o)
  PROVE  CredentialsInv' /\ CredentialsPromise
<1> DEFINE f == Credentials!Next_(o)
<1>0. PICK pending \in Values : pending = x7[o].pending
  BY DEF Credentials!WriteFile, Credentials!At, CredentialsInv, Pends
<1>1. /\ x7[o].verb = "repair" /\ x7[o].pc = "write" /\ UNCHANGED <<x1, x2, x4, x6, x8>>
      /\ x3' = [s \in Slots |-> IF s[2] = f THEN pending[s] ELSE x3[s]]
      /\ x7' = [x7 EXCEPT ![o].files = x7[o].files \ {f}]
  BY <1>0 DEF Credentials!WriteFile, Credentials!At, Credentials!FileOf
<1>2. /\ x1 \subseteq Slots /\ x2 \in Values /\ x3 \in Values /\ x7 \in [Operator -> CredentialCommand]
      /\ x6 \in [{"converge", "repair"} -> Values \cup {None}]
  BY DEF CredentialsInv, CredentialsTyped
<1>3. /\ OneMind /\ pending \in Values
      /\ \A s \in Slots : pending[s] = x3[s] \/ ToCorrect(s, pending[s])
  BY <1>0, <1>1 DEF CredentialsInv, Proved, Pends, Repairing
<1> DEFINE fs == x7[o].files \ {f}
           c == Command("repair", "write", fs, pending)
<1>4. Becomes(o, c) /\ c \in CredentialCommand /\ c.verb = "repair" /\ c.pc = "write" /\ c.pending = pending
  <2>1. x7[o] \in CredentialCommand /\ fs \in SUBSET File BY <1>2 DEF CredentialCommand
  <2>2. [x7[o] EXCEPT !.files = fs] = Command(x7[o].verb, x7[o].pc, fs, pending) BY <1>0, <2>1, CommandAt
  <2>3. x7' = [x7 EXCEPT ![o] = [x7[o] EXCEPT !.files = fs]] BY <1>1, <1>2
  <2> HIDE DEF fs
  <2> QED BY <1>1, <1>3, <2>1, <2>2, <2>3 DEF Becomes, Command, CredentialCommand
<1> HIDE DEF c, f
<1>5. x3' \in Values BY <1>1, <1>2, <1>3 DEF Values
<1>6. x7'[o] = c BY <1>4, CredentialsBecome
<1>7. \A s \in Slots : x3'[s] # x3[s] => x3'[s] = pending[s] /\ ToCorrect(s, pending[s])
  BY <1>1, <1>3
\* What is still to be corrected is of a class that is still divided.
<1>8. ASSUME NEW s \in Slots, pending[s] # x3'[s] PROVE ToCorrect(s, pending[s])'
  <2> DEFINE slots == Credentials!ClassSlots(s[1])
  <2>1. x3'[s] = x3[s] /\ ToCorrect(s, pending[s])
    BY <1>1, <1>3, <1>8
  <2>2. DividedIn(slots, x3) /\ s \in x1 /\ s[1] \notin Provider /\ pending[s] = x2[s]
    BY <2>1, DividedIs DEF ToCorrect
  <2>3. slots \subseteq x1 /\ \A t \in x1 : t \in slots <=> t[1] = s[1] BY <1>2, SlotsOfClass
  <2>4. DividedIn(slots, x3')
    <3>1. CASE \A t \in slots : x3'[t] = x3[t] 
      <4> HIDE DEF slots
      <4> QED BY <2>2, <3>1, StaysDivided
    <3>2. CASE \E t \in slots : x3'[t] # x3[t]
      <4>1. PICK t \in slots : x3'[t] # x3[t] BY <3>2
      <4>2. t \in Slots /\ t \in x1 /\ t[1] = s[1] BY <1>2, <2>3
      <4>3. x3'[t] = x2[t] BY <1>7, <4>1, <4>2 DEF ToCorrect
      <4>4. x2[t] = x2[s] /\ x2[s] # 0 BY <1>3, <2>2, <4>2 DEF OneMind
      <4>5. x3'[t] # x3'[s] BY <1>8, <2>2, <4>3, <4>4
      <4>6. \A r \in slots : x3'[r] # 0
        <5> SUFFICES ASSUME NEW r \in slots PROVE x3'[r] # 0 OBVIOUS
        <5>1. r \in Slots /\ r \in x1 /\ r[1] = s[1] /\ x3[r] # 0 BY <1>2, <2>2, <2>3 DEF DividedIn
        <5>2. CASE x3'[r] = x3[r] BY <5>1, <5>2
        <5>3. CASE x3'[r] # x3[r]
          <6>1. x3'[r] = x2[r] BY <1>7, <5>1, <5>3 DEF ToCorrect
          <6>2. x2[r] # 0 BY <1>3, <2>2, <5>1 DEF OneMind
          <6> QED BY <6>1, <6>2
        <5> QED BY <5>2, <5>3
      <4>7. slots \in SUBSET Slots /\ s \in slots BY <1>2, <2>2, <2>3
      <4> HIDE DEF slots
      <4> QED BY <4>1, <4>5, <4>6, <4>7, TwoDivide
    <3> QED BY <3>1, <3>2
  <2>5. slots' = slots BY <1>1 DEF Credentials!ClassSlots
  <2>6. Credentials!Divided(s[1])'
    BY <2>4, <2>5 DEF DividedIn, Credentials!Divided, Credentials!Complete
  <2> QED BY <1>1, <2>2, <2>6 DEF ToCorrect
<1>9. Proved(o)' BY <1>1, <1>3, <1>4, <1>6 DEF Proved, OneMind
<1>10. Pends(o)' BY <1>3, <1>4, <1>6, <1>8 DEF Pends, Repairing
<1>11. CredentialsInv'
  BY <1>1, <1>2, <1>4, <1>5, <1>9, <1>10, CredentialsGo DEF Repairing
<1>12. CredentialsPromise
  BY <1>1, <1>7 DEF CredentialsPromise, Credentials!KeptByCommands, Credentials!Changed, ToCorrect,
    Credentials!ClassOf
<1> QED BY <1>11, <1>12

LEMMA CredentialsBegin ==
  ASSUME CredentialsInv, CredentialsGranted, NEW o \in Operator,
         NEW verb \in {"converge", "repair"}, Credentials!Begin(o, verb)
  PROVE  CredentialsInv' /\ CredentialsPromise
<1> DEFINE pc == IF verb = "repair" THEN "prove" ELSE "inputs"
           c == Command(verb, pc, {}, None)
<1>1. /\ x7[o].pc = "idle" /\ UNCHANGED <<x1, x2, x3, x4, x6>> /\ x8' \in {x8, x8 + 1}
      /\ verb = "repair" => \A p \in Operator : x7[p].pc = "idle"
      /\ \A p \in Operator : ~Repairing(p)
  BY DEF Credentials!Begin, CredentialsGranted, Credentials!Repairs, Credentials!Edit, Repairing
<1>2. /\ x1 \subseteq Slots /\ x2 \in Values /\ x3 \in Values /\ x7 \in [Operator -> CredentialCommand]
      /\ x6 \in [{"converge", "repair"} -> Values \cup {None}] /\ x8 \in Nat
  BY DEF CredentialsInv, CredentialsTyped
<1>3. Becomes(o, c)
  <2>1. x7' = [x7 EXCEPT ![o] = [Credentials!Ready EXCEPT !.verb = verb, !.pc = pc]]
    BY DEF Credentials!Begin
  <2>2. [Credentials!Ready EXCEPT !.verb = verb, !.pc = pc] = c
    <3> DEFINE Fields == {"verb", "pc", "files", "pending"}
    <3>1. Credentials!Ready = [x \in Fields |-> IF x = "verb" THEN "none" ELSE IF x = "pc" THEN "idle"
                                                ELSE IF x = "files" THEN {} ELSE None]
      BY DEF Credentials!Ready
    <3> HIDE DEF pc
    <3>2. c = [x \in Fields |-> IF x = "verb" THEN verb ELSE IF x = "pc" THEN pc
                                ELSE IF x = "files" THEN {} ELSE None]
      BY DEF Command
    <3> HIDE DEF c
    <3> QED BY <3>1, <3>2
  <2> QED BY <2>1, <2>2 DEF Becomes
<1>4. c \in CredentialCommand /\ c.verb = verb /\ c.pc = pc BY DEF Command, CredentialCommand
<1>5. pc \in {"prove", "inputs"} OBVIOUS
<1> HIDE DEF c, pc
<1>6. x7'[o] = c /\ \A p \in Operator \ {o} : x7'[p] = x7[p] BY <1>3, <1>4, CredentialsBecome
<1>7. CredentialsTyped'
  BY <1>1, <1>2, <1>3, <1>4, CredentialsBecome DEF CredentialsInv, CredentialsTyped
<1>8. Alone' BY <1>1, <1>4, <1>5, <1>6 DEF CredentialsInv, Alone, Repairing
<1>9. \A p \in Operator : Proved(p)' /\ Pends(p)'
  BY <1>1, <1>4, <1>5, <1>6 DEF CredentialsInv, Proved, Pends, Repairing
<1> QED BY <1>1, <1>7, <1>8, <1>9, NothingChanges DEF CredentialsInv, CredentialsPromise

\* People change values while no repair writes; the product grows between commands.
LEMMA CredentialsAround ==
  ASSUME CredentialAssumption, CredentialsInv, CredentialsGranted,
         \/ \E s \in Slots : Credentials!Grow(s) \/ Credentials!EditOne(s) \/ Credentials!ProviderChanges(s)
         \/ \E k \in Class : Credentials!Rotate(k)
  PROVE  CredentialsInv' /\ CredentialsPromise
<1>0. UNCHANGED <<x4, x6, x7>>
  BY DEF Credentials!Grow, Credentials!EditOne, Credentials!Rotate, Credentials!EditHost, Credentials!ProviderChanges
<1>1. CredentialsPromise
  BY <1>0 DEF CredentialsPromise, Credentials!KeptByCommands, Credentials!ByCommand
<1>2. /\ x1 \subseteq Slots /\ x2 \in Values /\ x3 \in Values /\ x8 \in Nat
  BY DEF CredentialsInv, CredentialsTyped
<1>3. Alone' BY <1>0 DEF CredentialsInv, Alone, Repairing
<1>4. CASE \E s \in Slots : Credentials!Grow(s)
  <2>1. /\ x1' \subseteq Slots /\ UNCHANGED <<x2, x3, x8>>
        /\ \A o \in Operator : x7[o].pc = "idle"
    BY <1>2, <1>4 DEF Credentials!Grow
  <2>2. CredentialsTyped' BY <1>0, <2>1 DEF CredentialsInv, CredentialsTyped
  <2>3. \A o \in Operator : Proved(o)' /\ Pends(o)' BY <1>0, <2>1 DEF Proved, Pends
  <2> QED BY <1>1, <1>3, <2>2, <2>3 DEF CredentialsInv
<1>5. ASSUME NEW slots, Credentials!EditHost(slots) PROVE CredentialsInv'
  <2>1. /\ UNCHANGED <<x1, x2>> /\ x8' = x8 + 1
        /\ x3' = [s \in Slots |-> IF s \in slots THEN x8 + 2 ELSE x3[s]]
        /\ \A o \in Operator : x7[o].pc # "write"
    BY <1>5 DEF Credentials!EditHost, Credentials!Edit, Credentials!Other, CredentialsGranted
  <2>2. x3' \in Values BY <1>2, <2>1 DEF Values
  <2>3. CredentialsTyped' BY <1>0, <1>2, <2>1, <2>2 DEF CredentialsInv, CredentialsTyped
  <2>4. \A o \in Operator : Proved(o)' BY <1>0, <2>1 DEF CredentialsInv, Proved, Repairing, OneMind
  <2>5. \A o \in Operator : Pends(o)' BY <1>0, <2>1 DEF Pends
  <2> QED BY <1>3, <2>3, <2>4, <2>5 DEF CredentialsInv
<1>6. CASE \E s \in Slots : Credentials!ProviderChanges(s)
  <2>1. PICK s \in Slots : Credentials!ProviderChanges(s) BY <1>6
  <2>2. /\ UNCHANGED <<x1, x3>> /\ x8' = x8 + 1 /\ x2' = [x2 EXCEPT ![s] = x8 + 2]
        /\ s[1] \in Provider
    BY <2>1 DEF Credentials!ProviderChanges, Credentials!Edit, Credentials!Other, Credentials!ClassOf
  <2>3. x2' \in Values BY <1>2, <2>2 DEF Values
  <2>4. CredentialsTyped' BY <1>0, <1>2, <2>2, <2>3 DEF CredentialsInv, CredentialsTyped
  <2>5. \A t \in x1 : t[1] \notin Provider => x2'[t] = x2[t] BY <1>2, <2>2 DEF Values
  <2>6. \A o \in Operator : Proved(o)'
    BY <1>0, <2>2, <2>5 DEF CredentialsInv, Proved, Repairing, OneMind
  <2>7. \A c : Credentials!Divided(c)' <=> Credentials!Divided(c)
    BY <2>2 DEF Credentials!Divided, Credentials!Complete, Credentials!ClassSlots, Credentials!Known
  <2>8. \A t \in Slots : \A v : ToCorrect(t, v) => ToCorrect(t, v)'
    BY <2>2, <2>5, <2>7 DEF ToCorrect
  <2>9. \A o \in Operator : Pends(o)'
    BY <1>0, <2>2, <2>8 DEF CredentialsInv, Pends, Repairing
  <2>10. \A o \in Operator : Proved(o)' /\ Pends(o)' BY <2>6, <2>9
  <2> QED BY <1>1, <1>3, <2>4, <2>10 DEF CredentialsInv
<1>7. ASSUME NEW s, Credentials!EditOne(s) PROVE CredentialsInv'
  BY <1>5, <1>7 DEF Credentials!EditOne
<1>8. ASSUME NEW k, Credentials!Rotate(k) PROVE CredentialsInv'
  <2> DEFINE slots == {s \in Credentials!ClassSlots(k) : x3[s] # 0}
  <2>1. PICK S : S = slots OBVIOUS
  <2>2. Credentials!EditHost(S) BY <1>8, <2>1 DEF Credentials!Rotate
  <2> QED BY <1>5, <2>2
<1> QED BY <1>1, <1>4, <1>6, <1>7, <1>8

LEMMA CredentialsStep ==
  ASSUME CredentialAssumption, CredentialsInv, CredentialsGranted, Credentials!Next
  PROVE  CredentialsInv' /\ CredentialsPromise
<1>1. CASE \E o \in Operator : Credentials!Proceed(o)
  BY <1>1, CredentialsAddMissing, CredentialsProve, CredentialsUpload, CredentialsAddKeys,
    CredentialsRead, CredentialsWrite, CredentialsLeave DEF Credentials!Proceed, Credentials!Agent
<1> QED BY <1>1, CredentialsBegin, CredentialsLeave, CredentialsAround DEF Credentials!Next

\* RotationKept, for any credentials and files: a value changed by hand is
\* changed back by no command, if no repair runs beside another command and
\* nobody edits a file under one that writes.
THEOREM RotationIsKept ==
  ASSUME CredentialsGranted
  PROVE  Spec => RotationKept
<1> DEFINE I == machine = "credentials" => CredentialsInv
<1>1. Init => I
  BY CredentialAssumption, CredentialsInit DEF Init
<1>2. I /\ [Next]_vars => I' /\ [machine = "credentials" => CredentialsPromise]_vars
  <2>1. CASE Next
    BY <2>1, OneMachine, CredentialAssumption, CredentialsStep
  <2>2. CASE UNCHANGED vars
    <3>1. UNCHANGED <<x1, x2, x3, x4, x6, x7, x8, machine>> BY <2>2 DEF vars
    <3> QED BY <2>2, <3>1 DEF CredentialsInv, CredentialsTyped, Alone, Proved, Pends, Repairing,
      OneMind, ToCorrect, Credentials!Divided, Credentials!Complete, Credentials!ClassSlots, Credentials!Known
  <2> QED BY <2>1, <2>2
<1>3. Spec => [][machine = "credentials" => CredentialsPromise]_vars
  BY <1>1, <1>2, PTL DEF Spec
<1> QED BY <1>3, PTL DEF RotationKept, CredentialsPromise

-----------------------------------------------------------------------------
(* HostFoundation: x1 declaration, x2 script, x3 applied, x4 accepted,       *)
(* x5 driver, x6 install, x7 evidence, x8 apt, x9 cache, x10 tree, x11 bin,  *)
(* x12 dropin, x13 journald, x14 enabled.                                    *)

Placing == {"fetch", "unpack", "link"}
Placed == {"journal", "restart journald", "services", "gate"}
InstallStep == {"none", "packages"} \cup Placing \cup Placed
Installation ==
  [pc : InstallStep, at : 1..Artifacts, link : Nat, by : Operator \cup {None}]

BoardTyped ==
  /\ x6 \in Installation
  /\ x8 \in [python : BOOLEAN, packages : BOOLEAN, interrupted : BOOLEAN]
  /\ x10 \subseteq 1..Artifacts \ {Wheel}
  /\ x11 \in [Foundation!Executable -> {"none", "managed", "foreign"}]
  /\ x12 \in BOOLEAN

\* An artifact is at its versioned place, and has all its names.
Built(a) ==
  /\ a # Wheel => a \in x10
  /\ \A n \in 1..Links[a] : x11[<<a, n>>] = "managed"

\* An installation went through what is behind it, in the contract's order, and
\* no record says installed before its last step.
Reached ==
  /\ x6.pc \notin {"none", "gate"} => x7 # Foundation!Installed
  /\ x6.pc \in Placing \cup Placed => x8.python /\ x8.packages
  /\ x6.pc \in Placing => \A a \in 1..Artifacts : a < x6.at => Built(a)
  /\ x6.pc \in Placed => \A a \in 1..Artifacts : Built(a)
  /\ x6.pc = "packages" => x6.at = 1
  /\ x6.pc \in {"packages", "fetch", "unpack"} => x6.link = 1
  /\ x6.pc = "link" =>
       /\ x6.at \in x10 /\ x6.link \in 1..Links[x6.at]
       /\ \A n \in 1..Links[x6.at] : n < x6.link => x11[<<x6.at, n>>] = "managed"
  /\ x6.pc \in {"restart journald", "services", "gate"} => x12

\* journald knows of the drop-in, or is about to be told.
JournaldTold == x12 /\ x6.pc # "restart journald" => x13 = "persistent"

BoardInv == BoardTyped /\ Reached /\ JournaldTold /\ Foundation!EvidenceBacked

LEMMA ExecutableOf ==
  /\ \A a \in 1..Artifacts : \A n \in 1..Links[a] : <<a, n>> \in Foundation!Executable
  /\ \A x \in Foundation!Executable : \E a \in 1..Artifacts : \E n \in 1..Links[a] : x = <<a, n>>
BY DEF Foundation!Executable, Foundation!Artifact

LEMMA BoardInit == ASSUME FoundationAssumption, Foundation!Init PROVE BoardInv
<1>1. x6 = [pc |-> "none", at |-> 1, link |-> 1, by |-> None] /\ x7 = None
  BY DEF Foundation!Init, Foundation!NoInstall
<1>2. 1 \in 1..Artifacts BY DEF FoundationAssumption
<1>3. x6 \in Installation BY <1>1, <1>2 DEF Installation, InstallStep
<1>4. x8 \in [python : BOOLEAN, packages : BOOLEAN, interrupted : BOOLEAN] /\ x10 = {} /\ x12 = FALSE
  BY DEF Foundation!Init
<1>5. x11 \in [Foundation!Executable -> {"none", "managed", "foreign"}]
  BY DEF Foundation!Init
<1>6. x7 # Foundation!Installed BY <1>1 DEF FoundationAssumption
<1> QED BY <1>1, <1>3, <1>4, <1>5, <1>6
  DEF BoardInv, BoardTyped, Reached, JournaldTold, Foundation!EvidenceBacked, Placing, Placed

\* The installation ends, as nobody's, and no record says installed anew.
LEMMA BoardEnds ==
  ASSUME FoundationAssumption, BoardInv, x6' = Foundation!NoInstall,
         UNCHANGED <<x10, x12>>,
         x8' \in [python : BOOLEAN, packages : BOOLEAN, interrupted : BOOLEAN],
         x11' \in [Foundation!Executable -> {"none", "managed", "foreign"}],
         x12 => x13' = "persistent",
         \/ x7' # Foundation!Installed
         \/ UNCHANGED <<x7, x8, x11, x14>>
  PROVE  BoardInv'
<1>1. x6' \in Installation /\ x6'.pc = "none"
  BY DEF FoundationAssumption, Foundation!NoInstall, Installation, InstallStep
<1>2. Foundation!EvidenceBacked'
  BY DEF BoardInv, Foundation!EvidenceBacked
<1> QED BY <1>1, <1>2 DEF BoardInv, BoardTyped, Reached, JournaldTold, Placing, Placed

LEMMA BoardRaise ==
  ASSUME FoundationAssumption, BoardInv, Foundation!Raise, UNCHANGED <<x8, x10, x11, x12, x13>>,
         x6.pc # "restart journald"
  PROVE  BoardInv'
<1>1. x7' # Foundation!Installed BY DEF Foundation!Raise, Foundation!Installed
<1>2. x6' = Foundation!NoInstall BY DEF Foundation!Raise, Foundation!Ends
<1>3. /\ x8 \in [python : BOOLEAN, packages : BOOLEAN, interrupted : BOOLEAN]
      /\ x11 \in [Foundation!Executable -> {"none", "managed", "foreign"}]
      /\ x12 => x13 = "persistent"
  BY DEF BoardInv, BoardTyped, JournaldTold
<1> QED BY <1>1, <1>2, <1>3, BoardEnds

\* What the operator does, and the board's own steps, leave the installation be.
LEMMA BoardAround ==
  ASSUME BoardInv, UNCHANGED <<x6, x7, x10, x11, x12, x13, x14>>,
         x8' \in [python : BOOLEAN, packages : BOOLEAN, interrupted : BOOLEAN],
         x8.python => x8'.python, x8.packages => x8'.packages
  PROVE  BoardInv'
<1>1. BoardTyped' BY DEF BoardInv, BoardTyped
<1>2. Reached' BY DEF BoardInv, Reached, Built
<1>3. JournaldTold' BY DEF BoardInv, JournaldTold
<1>4. Foundation!EvidenceBacked' BY DEF BoardInv, Foundation!EvidenceBacked
<1> QED BY <1>1, <1>2, <1>3, <1>4 DEF BoardInv

LEMMA BoardOperates ==
  ASSUME BoardInv,
         \/ Foundation!RunScript \/ Foundation!ScriptStep \/ Foundation!ScriptStops
         \/ Foundation!FirstBoot
         \/ \E d \in Operator : Foundation!Begin(d) \/ Foundation!Bootstrap(d) \/ Foundation!Doctor(d)
  PROVE  BoardInv'
<1>1. UNCHANGED <<x6, x7, x10, x11, x12, x13, x14>>
  BY DEF Foundation!RunScript, Foundation!ScriptStep, Foundation!ScriptStops, Foundation!FirstBoot,
    Foundation!Begin, Foundation!Bootstrap, Foundation!Doctor, Foundation!Asks, Foundation!host
<1>2. x8' = x8 \/ x8' = [x8 EXCEPT !.python = TRUE]
  BY DEF Foundation!RunScript, Foundation!ScriptStep, Foundation!ScriptStops, Foundation!FirstBoot,
    Foundation!Begin, Foundation!Bootstrap, Foundation!Doctor, Foundation!Asks, Foundation!host
<1>3. x8 \in [python : BOOLEAN, packages : BOOLEAN, interrupted : BOOLEAN]
  BY DEF BoardInv, BoardTyped
<1> QED BY <1>1, <1>2, <1>3, BoardAround

LEMMA BoardStarts ==
  ASSUME FoundationAssumption, BoardInv, NEW d \in Operator,
         Foundation!StartInstall(d) \/ Foundation!DriverFails(d)
  PROVE  BoardInv'
<1>0. /\ UNCHANGED <<x8, x10, x11, x12, x13, x14>>
      /\ x8 \in [python : BOOLEAN, packages : BOOLEAN, interrupted : BOOLEAN]
      /\ x6 \in Installation
  BY DEF Foundation!StartInstall, Foundation!DriverFails, Foundation!host, BoardInv, BoardTyped
<1>1. CASE UNCHANGED <<x6, x7>> BY <1>0, <1>1, BoardAround
<1>2. CASE x6.pc = "none" /\ Foundation!StartInstall(d)
  <2>1. /\ x6' = [pc |-> "packages", at |-> 1, link |-> 1, by |-> d]
        /\ x7' = [status |-> "installing", phase |-> "validated"]
    BY <1>2 DEF Foundation!StartInstall, Foundation!NoInstall
  <2>2. x7' # Foundation!Installed BY <2>1 DEF Foundation!Installed
  <2>3. 1 \in 1..Artifacts BY DEF FoundationAssumption
  <2>4. BoardTyped' BY <1>0, <2>1, <2>3 DEF BoardInv, BoardTyped, Installation, InstallStep
  <2>5. Reached' BY <2>1, <2>2 DEF Reached, Placing, Placed
  <2>6. JournaldTold' BY <1>0, <1>2 DEF BoardInv, JournaldTold
  <2> QED BY <2>2, <2>4, <2>5, <2>6 DEF BoardInv, Foundation!EvidenceBacked
<1>3. CASE x7' = x7 /\ x6' = [x6 EXCEPT !.by = None]
  <2>1. x6' \in Installation /\ x6'.pc = x6.pc /\ x6'.at = x6.at /\ x6'.link = x6.link
    BY <1>0, <1>3 DEF Installation
  <2>2. BoardTyped' BY <1>0, <2>1 DEF BoardInv, BoardTyped
  <2>6. UNCHANGED <<x7, x8, x10, x11, x12>> BY <1>0, <1>3
  <2>3. Reached' BY <2>1, <2>6 DEF BoardInv, Reached, Built
  <2>4. JournaldTold' BY <1>0, <2>1 DEF BoardInv, JournaldTold
  <2>5. Foundation!EvidenceBacked' BY <1>0, <1>3 DEF BoardInv, Foundation!EvidenceBacked
  <2> QED BY <2>2, <2>3, <2>4, <2>5 DEF BoardInv
<1> QED BY <1>1, <1>2, <1>3 DEF Foundation!StartInstall, Foundation!DriverFails

Goes(pc, at, link) == x6' \in Installation /\ x6'.pc = pc /\ x6'.at = at /\ x6'.link = link

\* Nothing that was placed is taken away.
Grows ==
  /\ x8' = x8 /\ UNCHANGED <<x12, x13>>
  /\ x10 \subseteq x10' /\ x10' \subseteq 1..Artifacts \ {Wheel}
  /\ x11' \in [Foundation!Executable -> {"none", "managed", "foreign"}]
  /\ \A x \in Foundation!Executable : x11[x] = "managed" => x11'[x] = "managed"

LEMMA StaysBuilt ==
  ASSUME Grows, NEW a \in 1..Artifacts, Built(a)
  PROVE  Built(a)'
<1>1. \A n \in 1..Links[a] : <<a, n>> \in Foundation!Executable BY ExecutableOf
<1> QED BY <1>1 DEF Grows, Built

\* The installation goes on to a step it has reached.
LEMMA BoardGoes ==
  ASSUME FoundationAssumption, BoardInv, Grows, x6' \in Installation,
         x6.pc # "restart journald", Reached', x7' # Foundation!Installed
  PROVE  BoardInv'
<1>1. BoardTyped' BY DEF BoardInv, BoardTyped, Grows
<1>2. JournaldTold' BY DEF BoardInv, JournaldTold, Grows
<1> QED BY <1>1, <1>2 DEF BoardInv, Foundation!EvidenceBacked

LEMMA BoardPackages ==
  ASSUME FoundationAssumption, BoardInv, Foundation!InstallPackages
  PROVE  BoardInv'
<1>1. UNCHANGED <<x10, x11, x12, x13, x14>> /\ x6.pc = "packages"
  BY DEF Foundation!InstallPackages, Foundation!Agent
<1>2. CASE x8.interrupted
  BY <1>1, <1>2, BoardRaise DEF Foundation!InstallPackages
<1>3. CASE ~x8.interrupted
  <2>1. /\ x6' = [x6 EXCEPT !.pc = "fetch"] /\ x8' = [x8 EXCEPT !.packages = TRUE, !.python = TRUE]
        /\ x7' = [status |-> "installing", phase |-> "packages"]
    BY <1>3 DEF Foundation!InstallPackages, Foundation!Goes, Foundation!Record
  <2>2. x6 \in Installation /\ x8 \in [python : BOOLEAN, packages : BOOLEAN, interrupted : BOOLEAN]
    BY DEF BoardInv, BoardTyped
  <2>3. Goes("fetch", 1, 1)
    BY <1>1, <2>1, <2>2 DEF Goes, Installation, InstallStep, Placing, BoardInv, Reached
  <2>4. x8' \in [python : BOOLEAN, packages : BOOLEAN, interrupted : BOOLEAN] /\ x8'.python /\ x8'.packages
    BY <2>1, <2>2
  <2>5. x7' # Foundation!Installed BY <2>1 DEF Foundation!Installed
  <2>6. BoardTyped' BY <1>1, <2>3, <2>4 DEF BoardInv, BoardTyped, Goes
  <2>7. Reached' BY <2>3, <2>4, <2>5 DEF Goes, Reached, Placing, Placed
  <2>8. JournaldTold' BY <1>1, <2>3 DEF BoardInv, JournaldTold, Goes
  <2> QED BY <2>5, <2>6, <2>7, <2>8 DEF BoardInv, Foundation!EvidenceBacked
<1> QED BY <1>2, <1>3

\* What was worked on is whole: on to the next artifact, or to the journal.
LEMMA BoardNext ==
  ASSUME FoundationAssumption, BoardInv, Grows, x6.pc \in Placing,
         NEW at, at = x6.at, Built(at)', Foundation!NextArtifact
  PROVE  BoardInv'
<1>1. /\ x6 \in Installation /\ x7 # Foundation!Installed /\ x8.python /\ x8.packages
      /\ \A a \in 1..Artifacts : a < x6.at => Built(a)
  BY DEF BoardInv, BoardTyped, Reached, Placing, Placed
<1>2. \A a \in 1..Artifacts : a <= at => Built(a)'
  <2>1. at \in 1..Artifacts BY <1>1 DEF Installation
  <2> SUFFICES ASSUME NEW a \in 1..Artifacts, a <= at PROVE Built(a)' OBVIOUS
  <2>2. CASE a = at BY <2>2
  <2>3. CASE a # at BY <1>1, <2>1, <2>3, StaysBuilt DEF FoundationAssumption
  <2> QED BY <2>2, <2>3
<1>3. CASE x6.at < Artifacts
  <2>1. x6' = [x6 EXCEPT !.pc = "fetch", !.at = x6.at + 1, !.link = 1] /\ x7' = x7
    BY <1>3 DEF Foundation!NextArtifact
  <2>4. x6.at + 1 \in 1..Artifacts
    BY <1>1, <1>3 DEF Installation, FoundationAssumption
  <2>2. Goes("fetch", x6.at + 1, 1)
    BY <1>1, <2>1, <2>4 DEF Goes, Installation, InstallStep, Placing
  <2>3. Reached'
    BY <1>1, <1>2, <2>1, <2>2 DEF Grows, Goes, Reached, Placing, Placed, Installation
  <2> QED BY <1>1, <2>1, <2>2, <2>3, BoardGoes DEF Goes, Placing
<1>4. CASE ~(x6.at < Artifacts)
  <2>1. /\ x6' = [x6 EXCEPT !.pc = "journal"]
        /\ x7' = [status |-> "installing", phase |-> "artifacts"]
    BY <1>4 DEF Foundation!NextArtifact, Foundation!Record
  <2>2. Goes("journal", x6.at, x6.link) /\ x7' # Foundation!Installed
    BY <1>1, <2>1 DEF Goes, Installation, InstallStep, Placed, Foundation!Installed
  <2>3. \A a \in 1..Artifacts : Built(a)'
    BY <1>1, <1>2, <1>4 DEF Installation, FoundationAssumption
  <2>4. Reached' BY <1>1, <2>2, <2>3 DEF Grows, Goes, Reached, Placing, Placed
  <2> QED BY <2>2, <2>4, BoardGoes DEF Goes, Placing
<1> QED BY <1>3, <1>4

LEMMA BoardFetch ==
  ASSUME FoundationAssumption, BoardInv, Foundation!WheelThere \/ Foundation!Fetch
  PROVE  BoardInv'
<1>1. x6.pc = "fetch" /\ UNCHANGED <<x8, x10, x11, x12, x13, x14>>
  BY DEF Foundation!WheelThere, Foundation!Fetch, Foundation!Agent, Foundation!host
<1>2. x6 \in Installation /\ Grows /\ x7 # Foundation!Installed
  BY <1>1 DEF BoardInv, BoardTyped, Grows, Reached
<1>3. CASE Foundation!Raise BY <1>1, <1>3, BoardRaise
<1>4. CASE Foundation!WheelThere /\ ~Foundation!Raise
  <2>1. x6.at = Wheel /\ x11[<<Wheel, 1>>] = "managed" /\ Foundation!NextArtifact
    BY <1>4 DEF Foundation!WheelThere, Foundation!KeepsWheel
  <2>2. Built(Wheel)' BY <1>1, <2>1 DEF Built, FoundationAssumption
  <2> QED BY <1>1, <1>2, <2>1, <2>2, BoardNext DEF Placing
<1>5. CASE Foundation!Fetch /\ ~Foundation!Raise
  <2>1. x6' = [x6 EXCEPT !.pc = "unpack"] /\ x7' = x7
    BY <1>5 DEF Foundation!Fetch, Foundation!Goes
  <2>2. Goes("unpack", x6.at, x6.link)
    BY <1>2, <2>1 DEF Goes, Installation, InstallStep, Placing
  <2>3. \A a \in 1..Artifacts : a < x6.at => Built(a)'
    BY <1>1, <1>2, StaysBuilt DEF BoardInv, Reached, Placing
  <2>4. Reached'
    BY <1>1, <1>2, <2>1, <2>2, <2>3 DEF BoardInv, Goes, Reached, Placing, Placed
  <2> QED BY <1>1, <1>2, <2>1, <2>2, <2>4, BoardGoes DEF Goes
<1> QED BY <1>3, <1>4, <1>5

LEMMA BoardUnpack ==
  ASSUME FoundationAssumption, BoardInv, Foundation!Unpack
  PROVE  BoardInv'
<1>1. /\ x6.pc = "unpack" /\ x6.at # Wheel /\ UNCHANGED <<x7, x8, x11, x12, x13>>
      /\ x6' = [x6 EXCEPT !.pc = "link"] /\ x10' = x10 \cup {x6.at}
  BY DEF Foundation!Unpack, Foundation!Unpacked, Foundation!Goes
<1>2. x6 \in Installation /\ x7 # Foundation!Installed /\ x6.link = 1
  BY <1>1 DEF BoardInv, BoardTyped, Reached
<1>3. Grows BY <1>1, <1>2 DEF BoardInv, BoardTyped, Grows, Installation
<1>4. Goes("link", x6.at, 1)
  BY <1>1, <1>2 DEF Goes, Installation, InstallStep, Placing
<1>5. \A a \in 1..Artifacts : a < x6.at => Built(a)'
  BY <1>1, <1>3, StaysBuilt DEF BoardInv, Reached, Placing
<1>6. 1 \in 1..Links[x6.at] BY <1>2 DEF FoundationAssumption, Installation
<1>7. Reached'
  BY <1>1, <1>2, <1>4, <1>5, <1>6 DEF BoardInv, Goes, Reached, Placing, Placed
<1> QED BY <1>1, <1>2, <1>3, <1>4, <1>7, BoardGoes DEF Goes

LEMMA BoardPip ==
  ASSUME FoundationAssumption, BoardInv, Foundation!Pip
  PROVE  BoardInv'
<1>1. /\ x6.pc = "unpack" /\ x6.at = Wheel /\ UNCHANGED <<x8, x10, x12, x13>>
      /\ x11' = [x11 EXCEPT ![<<Wheel, 1>>] = "managed"] /\ Foundation!NextArtifact
  BY DEF Foundation!Pip, Foundation!Agent
<1>2. Grows BY <1>1 DEF BoardInv, BoardTyped, Grows
<1>3. <<Wheel, 1>> \in Foundation!Executable BY ExecutableOf DEF FoundationAssumption
<1>4. x11'[<<Wheel, 1>>] = "managed" BY <1>1, <1>3 DEF BoardInv, BoardTyped
<1>5. Built(Wheel)' BY <1>4 DEF Built, FoundationAssumption
<1> QED BY <1>1, <1>2, <1>5, BoardNext DEF Placing

LEMMA BoardLink ==
  ASSUME FoundationAssumption, BoardInv, Foundation!Link
  PROVE  BoardInv'
<1>1. x6.pc = "link" /\ UNCHANGED <<x8, x10, x12, x13, x14>>
  BY DEF Foundation!Link, Foundation!Agent
<1> DEFINE x == <<x6.at, x6.link>>
<1>2. /\ x6 \in Installation /\ x7 # Foundation!Installed /\ x6.at \in x10
      /\ x6.link \in 1..Links[x6.at]
      /\ \A n \in 1..Links[x6.at] : n < x6.link => x11[<<x6.at, n>>] = "managed"
  BY <1>1 DEF BoardInv, BoardTyped, Reached
<1>3. x \in Foundation!Executable BY <1>2, ExecutableOf DEF Installation
<1>4. CASE x11[x] = "foreign"
  <2>1. Foundation!Raise /\ x11' = x11 BY <1>4 DEF Foundation!Link
  <2> QED BY <1>1, <2>1, BoardRaise
<1>5. CASE x11[x] # "foreign"
  <2>1. x11' = [x11 EXCEPT ![x] = "managed"] BY <1>5 DEF Foundation!Link
  <2>2. Grows BY <1>1, <2>1 DEF BoardInv, BoardTyped, Grows
  <2>3. x11'[x] = "managed" BY <1>3, <2>1 DEF BoardInv, BoardTyped
  <2>4. \A n \in 1..Links[x6.at] : n <= x6.link => x11'[<<x6.at, n>>] = "managed"
    <3> SUFFICES ASSUME NEW n \in 1..Links[x6.at], n <= x6.link
                 PROVE  x11'[<<x6.at, n>>] = "managed"
      OBVIOUS
    <3>1. CASE n = x6.link BY <2>3, <3>1
    <3>2. CASE n # x6.link
      <4>1. x11[<<x6.at, n>>] = "managed"
        BY <1>2, <3>2 DEF FoundationAssumption, Installation
      <4>2. <<x6.at, n>> \in Foundation!Executable BY <1>2, ExecutableOf DEF Installation
      <4> QED BY <2>2, <4>1, <4>2 DEF Grows
    <3> QED BY <3>1, <3>2
  <2>5. CASE x6.link < Links[x6.at]
    <3>1. x6' = [x6 EXCEPT !.link = x6.link + 1] /\ x7' = x7
      BY <1>5, <2>5 DEF Foundation!Link
    <3>2. x6.link + 1 \in 1..Links[x6.at] /\ x6.link + 1 \in Nat
      BY <1>2, <2>5 DEF FoundationAssumption, Installation
    <3>3. Goes("link", x6.at, x6.link + 1)
      BY <1>1, <1>2, <3>1, <3>2 DEF Goes, Installation
    <3>4. \A a \in 1..Artifacts : a < x6.at => Built(a)'
      BY <1>1, <2>2, StaysBuilt DEF BoardInv, Reached, Placing
    <3>5. \A n \in 1..Links[x6.at] : n < x6.link + 1 => x11'[<<x6.at, n>>] = "managed"
      BY <1>2, <2>4 DEF FoundationAssumption, Installation
    <3>6. x8'.python /\ x8'.packages /\ x7' = x7 /\ x10' = x10
      BY <1>1, <3>1 DEF BoardInv, Reached, Placing
    <3>7. Reached'
      BY <1>2, <3>2, <3>3, <3>4, <3>5, <3>6 DEF Goes, Reached, Placing, Placed
    <3> QED BY <1>1, <1>2, <2>2, <3>1, <3>3, <3>7, BoardGoes DEF Goes
  <2>6. CASE ~(x6.link < Links[x6.at])
    <3>1. Foundation!NextArtifact BY <1>5, <2>6 DEF Foundation!Link
    <3> DEFINE at == x6.at
    <3>2. PICK a \in 1..Artifacts : a = x6.at BY <1>2 DEF Installation
    <3>3. \A n \in 1..Links[a] : n <= x6.link
      BY <1>2, <2>6, <3>2 DEF FoundationAssumption, Installation
    <3>4. Built(a)' BY <1>1, <1>2, <2>4, <3>2, <3>3 DEF Built
    <3> QED BY <1>1, <2>2, <3>1, <3>2, <3>4, BoardNext DEF Placing
  <2> QED BY <2>5, <2>6
<1> QED BY <1>4, <1>5

\* The drop-in, and journald told of it unless it was there.
LEMMA BoardJournal ==
  ASSUME FoundationAssumption, BoardInv, Foundation!WriteDropin \/ Foundation!RestartJournald
  PROVE  BoardInv'
<1>1. /\ x6.pc \in {"journal", "restart journald"} /\ UNCHANGED <<x8, x10, x11, x14>>
      /\ x12' = TRUE
  BY DEF Foundation!WriteDropin, Foundation!RestartJournald, Foundation!Agent, BoardInv, Reached
<1>2. /\ x6 \in Installation /\ x7 # Foundation!Installed /\ x8.python /\ x8.packages
      /\ \A a \in 1..Artifacts : Built(a)
  BY <1>1 DEF BoardInv, BoardTyped, Reached, Placing, Placed
<1>3. PICK pc \in {"restart journald", "services"} :
        /\ x6' = [x6 EXCEPT !.pc = pc]
        /\ pc = "services" => x13' = "persistent"
  <2>1. CASE Foundation!WriteDropin /\ ~x12
    BY <2>1 DEF Foundation!WriteDropin, Foundation!Goes
  <2>2. CASE Foundation!WriteDropin /\ x12
    <3>1. x6.pc = "journal" /\ x13' = x13 /\ x6' = [x6 EXCEPT !.pc = "services"]
      BY <2>2 DEF Foundation!WriteDropin, Foundation!Goes, Foundation!Agent
    <3> QED BY <2>2, <3>1 DEF BoardInv, JournaldTold
  <2>3. CASE Foundation!RestartJournald
    BY <2>3 DEF Foundation!RestartJournald, Foundation!Goes
  <2> QED BY <2>1, <2>2, <2>3
<1>4. Goes(pc, x6.at, x6.link)
  BY <1>2, <1>3 DEF Goes, Installation, InstallStep, Placed
<1>5. x7' # Foundation!Installed
  <2>1. x7' = x7 \/ x7' = [status |-> "installing", phase |-> "journal"]
    BY DEF Foundation!WriteDropin, Foundation!RestartJournald, Foundation!Record
  <2>2. CASE x7' = x7 BY <1>2, <2>2
  <2>3. CASE x7' = [status |-> "installing", phase |-> "journal"] BY <2>3 DEF Foundation!Installed
  <2> QED BY <2>1, <2>2, <2>3
<1>6. \A a \in 1..Artifacts : Built(a)' BY <1>1, <1>2 DEF Built
<1>7. BoardTyped' BY <1>1, <1>4 DEF BoardInv, BoardTyped, Goes
<1>8. Reached' BY <1>1, <1>2, <1>4, <1>5, <1>6 DEF Goes, Reached, Placing, Placed
<1>9. JournaldTold' BY <1>3, <1>4 DEF JournaldTold, Goes
<1> QED BY <1>5, <1>7, <1>8, <1>9 DEF BoardInv, Foundation!EvidenceBacked

LEMMA BoardServices ==
  ASSUME FoundationAssumption, BoardInv, NEW s \in Service, Foundation!EnableService(s)
  PROVE  BoardInv'
<1>1. x6.pc = "services" /\ UNCHANGED <<x6, x7, x8, x10, x11, x12, x13>>
  BY DEF Foundation!EnableService, Foundation!Agent
<1>2. BoardTyped' BY <1>1 DEF BoardInv, BoardTyped
<1>3. Reached' BY <1>1 DEF BoardInv, Reached, Built
<1>4. JournaldTold' BY <1>1 DEF BoardInv, JournaldTold
<1>5. x7' # Foundation!Installed BY <1>1 DEF BoardInv, Reached
<1> QED BY <1>2, <1>3, <1>4, <1>5 DEF BoardInv, Foundation!EvidenceBacked

\* The record says installed of a board with every part.
LEMMA BoardRecords ==
  ASSUME FoundationAssumption, BoardInv, Foundation!RecordInstalled
  PROVE  BoardInv'
<1>1. /\ x6.pc = "services" /\ x14 = Service /\ UNCHANGED <<x8, x10, x11, x12, x13, x14>>
      /\ x6' = [x6 EXCEPT !.pc = "gate"]
  BY DEF Foundation!RecordInstalled, Foundation!Agent, Foundation!Goes, Foundation!host
<1>2. /\ x6 \in Installation /\ x8.python /\ x8.packages /\ x12 /\ x13 = "persistent"
      /\ \A a \in 1..Artifacts : Built(a) /\ x10 \subseteq 1..Artifacts \ {Wheel}
  BY <1>1 DEF BoardInv, BoardTyped, Reached, JournaldTold, Placing, Placed
<1>3. Goes("gate", x6.at, x6.link)
  BY <1>1, <1>2 DEF Goes, Installation, InstallStep, Placed
<1>4. BoardTyped' BY <1>1, <1>3 DEF BoardInv, BoardTyped, Goes
<1>5. Reached' BY <1>1, <1>2, <1>3 DEF Goes, Reached, Placing, Placed, Built
<1>6. JournaldTold' BY <1>1, <1>2 DEF JournaldTold
<1>7. x10 = (1..Artifacts) \ {Wheel} BY <1>2 DEF Built, FoundationAssumption
<1>8. \A x \in Foundation!Executable : x11[x] = "managed"
  BY <1>2, ExecutableOf DEF Built
<1>9. Foundation!EvidenceBacked'
  BY <1>1, <1>2, <1>7, <1>8 DEF Foundation!EvidenceBacked, Foundation!Artifact
<1> QED BY <1>4, <1>5, <1>6, <1>9 DEF BoardInv

LEMMA BoardGate ==
  ASSUME FoundationAssumption, BoardInv, Foundation!HealthGate
  PROVE  BoardInv'
<1>1. x6.pc = "gate" /\ UNCHANGED <<x8, x10, x11, x12, x13, x14>>
  BY DEF Foundation!HealthGate, Foundation!Agent, Foundation!host
<1>2. CASE Foundation!Raise BY <1>1, <1>2, BoardRaise
<1>3. CASE ~Foundation!Raise
  <2>1. x6' = Foundation!NoInstall /\ x7' = x7
    BY <1>3 DEF Foundation!HealthGate, Foundation!Ends
  <2>2. /\ x8 \in [python : BOOLEAN, packages : BOOLEAN, interrupted : BOOLEAN]
        /\ x11 \in [Foundation!Executable -> {"none", "managed", "foreign"}]
        /\ x12 => x13 = "persistent"
    BY <1>1 DEF BoardInv, BoardTyped, JournaldTold
  <2> QED BY <1>1, <2>1, <2>2, BoardEnds
<1> QED BY <1>2, <1>3

\* Who dies half way leaves no record that says installed.
LEMMA BoardDies ==
  ASSUME FoundationAssumption, BoardInv, "journald_not_told" \notin Faults,
         \/ Foundation!FetchBreaks \/ Foundation!StepRaises \/ Foundation!AgentDies
         \/ Foundation!BoardReboots
  PROVE  BoardInv'
<1>1. /\ x8 \in [python : BOOLEAN, packages : BOOLEAN, interrupted : BOOLEAN]
      /\ x11 \in [Foundation!Executable -> {"none", "managed", "foreign"}]
      /\ x6.pc # "restart journald" /\ x12 => x13 = "persistent"
  BY DEF BoardInv, BoardTyped, JournaldTold
<1>2. CASE Foundation!FetchBreaks \/ Foundation!StepRaises
  <2>1. Foundation!Raise /\ UNCHANGED <<x8, x10, x11, x12, x13>> /\ x6.pc # "restart journald"
    BY <1>2 DEF Foundation!FetchBreaks, Foundation!StepRaises, Foundation!Fault, Foundation!host
  <2> QED BY <2>1, BoardRaise
<1>3. CASE Foundation!AgentDies
  <2>1. /\ x6' = Foundation!NoInstall /\ x6.pc \notin {"none", "restart journald"}
        /\ UNCHANGED <<x7, x10, x12, x13, x14>>
        /\ \/ UNCHANGED <<x8, x11>>
           \/ /\ x6.pc \in {"packages", "unpack"}
              /\ \/ x8' = [x8 EXCEPT !.interrupted = TRUE] /\ x11' = x11
                 \/ x11' = [x11 EXCEPT ![<<Wheel, 1>>] = "foreign"] /\ x8' = x8
    BY <1>3 DEF Foundation!AgentDies, Foundation!Fault, Foundation!Ends
  <2>2. /\ x8' \in [python : BOOLEAN, packages : BOOLEAN, interrupted : BOOLEAN]
        /\ x11' \in [Foundation!Executable -> {"none", "managed", "foreign"}]
    BY <1>1, <2>1
  <2>3. x6.pc \in {"packages", "unpack"} => x7 # Foundation!Installed
    BY DEF BoardInv, Reached
  <2> QED BY <1>1, <2>1, <2>2, <2>3, BoardEnds
<1>4. CASE Foundation!BoardReboots
  <2>1. /\ x6' = Foundation!NoInstall /\ UNCHANGED <<x7, x8, x10, x11, x12, x14>>
        /\ x12 => x13' = "persistent"
    BY <1>4 DEF Foundation!BoardReboots
  <2> QED BY <1>1, <2>1, BoardEnds
<1> QED BY <1>2, <1>3, <1>4

LEMMA BoardStep ==
  ASSUME FoundationAssumption, BoardInv, "journald_not_told" \notin Faults, Foundation!Next
  PROVE  BoardInv'
BY BoardOperates, BoardStarts, BoardPackages, BoardFetch, BoardUnpack, BoardPip, BoardLink,
   BoardJournal, BoardServices, BoardRecords, BoardGate, BoardDies
   DEF Foundation!Next, Foundation!Provision, Foundation!Install

\* FoundationBacked: for any pinned artifacts and executables, what the record
\* calls installed is there, whole and in force, unless an installation ends
\* between the drop-in it wrote and the journald it would have told.
THEOREM FoundationIsBacked ==
  ASSUME "journald_not_told" \notin Faults
  PROVE  Spec => []FoundationBacked
<1> DEFINE I == machine = "board" => BoardInv
<1>1. Init => I
  BY FoundationAssumption, BoardInit DEF Init
<1>2. I /\ [Next]_vars => I'
  <2>1. CASE Next
    BY <2>1, OneMachine, FoundationAssumption, BoardStep
  <2>2. CASE UNCHANGED vars
    <3>1. UNCHANGED <<x6, x7, x8, x10, x11, x12, x13, x14, machine>> BY <2>2 DEF vars
    <3> QED BY <3>1 DEF BoardInv, BoardTyped, Reached, JournaldTold, Foundation!EvidenceBacked, Built
  <2> QED BY <2>1, <2>2
<1>3. I => FoundationBacked BY DEF BoardInv, FoundationBacked
<1> QED BY <1>1, <1>2, <1>3, PTL DEF Spec

-----------------------------------------------------------------------------
(* SourceRun: x1 roots, x2 smarthome, x3 generated, x4 material, x5 up,       *)
(* x6 op, x7 asides, x8 served.                                               *)

Content == [epoch : Nat, note : Nat]
Directory ==
  [live : Content \cup {None}, owner : {"legacy", "operator"}, journal : BOOLEAN,
   staging : Content \cup {None}, original : Content \cup {None}]

Transferring == {"set aside", "publish", "end transfer"}
Healing == {"roots", "stop for transfer", "prepare roots"} \cup Transferring
Preparing == {"make roots", "owner assets", "generate"}
Starting == {"smart-home", "start", "commit"}
Removing == {"remove state", "remove bootstrap", "commit identity"}
Steps ==
  {"idle", "reported", "stop", "done", "replacement", "remove generated"}
    \cup Healing \cup Preparing \cup Starting \cup Removing
SourceCommand ==
  [cmd : {"none", "start", "provision", "prepare", "stop", "reset", "wipe"},
   pc : Steps,
   answer : {"none", "ok", "failed", "refused"}, todo : SUBSET Root, at : Root \cup {None}]

\* Which command is at which step.
CommandAtStep ==
  /\ x6.pc \in Healing => x6.cmd \in {"start", "provision"}
  /\ x6.pc \in Preparing => x6.cmd \in {"start", "provision", "prepare"}
  /\ x6.pc \in Starting => x6.cmd = "start"
  /\ x6.pc \in {"replacement"} \cup Removing => x6.cmd = "wipe"

SourceTyped ==
  /\ x1 \in [Root -> Directory]
  /\ x2 \in [channel : Nat, hub : Nat]
  /\ x4 \in Nat /\ x5 \in BOOLEAN
  /\ x6 \in SourceCommand
  /\ x8 \in [Root -> Nat]

\* Whatever a root holds, or may be given back, is of the Host there is now.
OfThisHost(content) == content # None => content.epoch \in {0, x4} /\ content.note \in {0, x4}
Fresh ==
  \A r \in Root :
    /\ OfThisHost(x1[r].live)
    /\ x1[r].journal => OfThisHost(x1[r].original) /\ OfThisHost(x1[r].staging)

\* A root that can be served; and those a running Host, a start past its roots,
\* and a root a start went through are.
ReadyRoot(root) == root.live # None /\ root.owner = "operator" /\ ~root.journal
RootsAreReady ==
  /\ x5 => \A r \in Root : ReadyRoot(x1[r])
  /\ x6.cmd \in {"start", "provision"} /\ x6.pc \in {"stop"} \cup Preparing \cup Starting =>
       \A r \in Root : ReadyRoot(x1[r])
  /\ x6.pc \in {"roots", "stop for transfer"} => x6.todo = Root
  /\ x6.pc \in Healing =>
       \A r \in Root : r \in x6.todo \/ ReadyRoot(x1[r]) \/ (x6.pc \in Transferring /\ r = x6.at)

\* Where a transfer is: a whole copy, the rename that takes the root away, the
\* rename that puts the copy there.
Transfer ==
  x6.pc \in Transferring =>
    /\ ~x5 /\ x6.at \in Root
    /\ LET root == x1[x6.at] IN
       /\ root.journal
       /\ x6.pc = "set aside" => root.live # None /\ root.staging = root.live
       /\ x6.pc = "publish" =>
            root.live = None /\ root.original # None /\ root.staging = root.original
       /\ x6.pc = "end transfer" => root.live # None /\ root.owner = "operator"

\* No journal waits while a command runs that would not read it.
NoneWaits == x6.cmd \in {"prepare", "wipe"} => \A r \in Root : ~x1[r].journal

\* The bootstrap root has the identity of this Host once it was made.
Identified ==
  \/ x5
  \/ x6.cmd = "start" /\ x6.pc \in {"owner assets", "generate", "stop"} \cup Starting
  => x1["bootstrap"].live.epoch = x4

\* A wipe removes what is of the old Host, stopped, before the new one's identity.
WipedInOrder ==
  /\ x6.cmd \in {"reset", "wipe"} /\ x6.pc \in {"remove generated"} \cup Removing => ~x5
  /\ x6.pc \in {"remove bootstrap", "commit identity"} =>
       \A r \in Root \ {"bootstrap"} : x1[r].live = None
  /\ x6.pc = "commit identity" => x1["bootstrap"].live = None

\* Hub's smart-home database is Channel's, as soon as there is either.
OneSmarthome ==
  /\ x2.channel # 0 /\ x2.hub # 0 => x2.hub = x2.channel
  /\ x5 \/ x6.pc = "start" => (x2.channel # 0 => x2.hub # 0)

SourceInv ==
  /\ SourceTyped /\ CommandAtStep /\ Fresh /\ RootsAreReady /\ Transfer /\ NoneWaits
  /\ Identified /\ WipedInOrder /\ OneSmarthome
  /\ \A r \in Root : Source!Kept(r)

SourceGranted == "prepares_unhealed" \notin Faults /\ "wipes_unhealed" \notin Faults

LEMMA SourceInit == ASSUME SourceAssumption, Source!Init PROVE SourceInv
<1>1. /\ x6 = [cmd |-> "none", pc |-> "idle", answer |-> "none", todo |-> {}, at |-> None]
      /\ x4 = 1 /\ x5 = FALSE
  BY DEF Source!Init, Source!Idle
<1>2. x6 \in SourceCommand BY <1>1 DEF SourceCommand, Steps
<1>3. x2 \in [channel : Nat, hub : Nat] /\ x8 \in [Root -> Nat] /\ x2.hub = 0
  BY DEF Source!Init
<1>4. \A r \in Root :
        /\ x1[r] \in Directory /\ x1[r].journal = FALSE
        /\ x8[r] # 0 => x1[r].live # None /\ x1[r].live.epoch = x8[r]
        /\ x1[r].live # None => x1[r].live.epoch = 1 /\ x1[r].live.note \in {0, 1}
  <2>1. CASE x1 = [r \in Root |-> Source!Root0(None, "operator")] /\ x8 = [r \in Root |-> 0]
    BY <2>1 DEF Source!Root0, Directory
  <2>2. CASE /\ x1 = [r \in Root |-> Source!Root0(Source!Holds(1, IF r = "bootstrap" THEN 1 ELSE 0), "legacy")]
             /\ x8 = [r \in Root |-> 1]
    <3> TAKE r \in Root
    <3> DEFINE c == Source!Holds(1, IF r = "bootstrap" THEN 1 ELSE 0)
    <3>1. c \in Content /\ c.epoch = 1 /\ c.note \in {0, 1} /\ c # None
      BY DEF Source!Holds, Content, SourceAssumption
    <3>2. x1[r] = Source!Root0(c, "legacy") /\ x8[r] = 1 BY <2>2
    <3> HIDE DEF c
    <3> QED BY <3>1, <3>2 DEF Source!Root0, Directory
  <2> QED BY <2>1, <2>2 DEF Source!Init
<1>5. x1 \in [Root -> Directory] BY <1>4 DEF Source!Init
<1>6. SourceTyped BY <1>1, <1>2, <1>3, <1>5 DEF SourceTyped
<1>7. CommandAtStep /\ RootsAreReady /\ Transfer /\ NoneWaits /\ Identified /\ WipedInOrder
  BY <1>1 DEF CommandAtStep, RootsAreReady, Transfer, NoneWaits, Identified, WipedInOrder, Healing,
    Transferring, Preparing, Starting, Removing
<1>8. Fresh /\ OneSmarthome /\ \A r \in Root : Source!Kept(r)
  BY <1>1, <1>3, <1>4 DEF Fresh, OfThisHost, OneSmarthome, Source!Kept
<1> QED BY <1>6, <1>7, <1>8 DEF SourceInv

\* The command goes on, or ends.
Moved(pc) == x6'.pc = pc /\ x6'.cmd = x6.cmd /\ x6'.todo = x6.todo /\ x6'.at = x6.at
LEMMA SourceMoved ==
  ASSUME SourceTyped, NEW pc \in Steps, Source!Goto(pc)
  PROVE  x6' \in SourceCommand /\ Moved(pc)
BY DEF SourceTyped, SourceCommand, Moved, Source!Goto

LEMMA SourceReported ==
  ASSUME SourceTyped, NEW answer \in {"ok", "failed", "refused"}, Source!Report(answer)
  PROVE  x6' \in SourceCommand /\ Moved("reported")
<1>1. "reported" \in Steps BY DEF Steps
<1> QED BY <1>1 DEF SourceTyped, SourceCommand, Moved, Source!Report

\* A command moves on between steps that touch nothing; it may have stopped the Host.
LEMMA SourceRests ==
  ASSUME SourceInv, NEW pc \in Steps, x6' \in SourceCommand, Moved(pc),
         UNCHANGED <<x1, x2, x4, x8>>, x5' = x5 \/ x5' = FALSE,
         \/ pc \in {"idle", "reported", "done"}
         \/ x6.pc = "roots" /\ pc \in {"stop for transfer", "prepare roots"}
         \/ x6.pc = "stop for transfer" /\ pc = "prepare roots"
         \/ x6.pc = "prepare roots" /\ x6.todo = {} /\ pc = "make roots"
         \/ x6.pc = "generate" /\ x6.cmd = "start" /\ pc = "stop"
         \/ x6.pc = "stop" /\ x6.cmd = "start" /\ pc = "smart-home"
         \/ x6.pc = "stop" /\ x6.cmd \in {"reset", "wipe"} /\ pc = "remove generated" /\ x5' = FALSE
         \/ x6.pc = "replacement" /\ pc = "stop"
         \/ x6.pc = "remove generated" /\ x6.cmd = "wipe" /\ pc = "remove state"
  PROVE  SourceInv'
<1>0. x5 \in BOOLEAN /\ (x5' => x5)
  <2>1. x5 = TRUE \/ x5 = FALSE BY DEF SourceInv, SourceTyped
  <2>2. x5' => x5 BY <2>1
  <2> QED BY <2>1, <2>2
<1>1. SourceTyped' BY DEF SourceInv, SourceTyped
<1>2. CommandAtStep'
  BY DEF SourceInv, CommandAtStep, Moved, Healing, Transferring, Preparing, Starting, Removing
<1>3. Fresh' /\ NoneWaits' /\ \A r \in Root : Source!Kept(r)'
  BY DEF SourceInv, Fresh, OfThisHost, NoneWaits, Moved, Source!Kept
<1>4. RootsAreReady'
  BY <1>0 DEF SourceInv, RootsAreReady, CommandAtStep, Moved, Healing, Transferring, Preparing, Starting, Removing
<1>5. Transfer'
  BY DEF SourceInv, Transfer, Moved, Transferring
<1>6. Identified'
  BY DEF SourceInv, Identified, CommandAtStep, Moved, Healing, Transferring, Preparing, Starting, Removing
<1>7. WipedInOrder'
  BY <1>0 DEF SourceInv, WipedInOrder, CommandAtStep, Moved, Healing, Transferring, Preparing, Starting, Removing
<1>8. OneSmarthome' BY <1>0 DEF SourceInv, OneSmarthome, Moved
<1> QED BY <1>1, <1>2, <1>3, <1>4, <1>5, <1>6, <1>7, <1>8 DEF SourceInv

LEMMA SourceBetween ==
  ASSUME SourceInv,
         \/ Source!BeginRoots \/ Source!StopHost \/ Source!RootsReady \/ Source!Generate \/ Source!Done
         \/ Source!PrepareReplacement \/ Source!RemoveGenerated \/ Source!OperationFails
  PROVE  SourceInv'
<1>0. SourceTyped BY DEF SourceInv
<1>1. CASE Source!OperationFails
  <2>1. Source!Report("failed") /\ UNCHANGED <<x1, x2, x4, x5, x8>>
    BY <1>1 DEF Source!OperationFails, Source!Raises
  <2>2. x6' \in SourceCommand /\ Moved("reported") BY <1>0, <2>1, SourceReported
  <2> QED BY <2>1, <2>2, SourceRests DEF Steps
<1>2. CASE Source!Done
  <2>1. Source!Report("ok") /\ UNCHANGED <<x1, x2, x4, x5, x8>>
    BY <1>2 DEF Source!Done
  <2>2. x6' \in SourceCommand /\ Moved("reported") BY <1>0, <2>1, SourceReported
  <2> QED BY <2>1, <2>2, SourceRests DEF Steps
<1>3. CASE Source!BeginRoots
  <2>1. PICK pc \in {"stop for transfer", "prepare roots"} : Source!Goto(pc)
    BY <1>3 DEF Source!BeginRoots
  <2>2. pc \in Steps BY DEF Steps, Healing
  <2>3. x6' \in SourceCommand /\ Moved(pc) BY <1>0, <2>1, <2>2, SourceMoved
  <2> QED BY <1>3, <2>2, <2>3, SourceRests DEF Source!BeginRoots
<1>4. CASE Source!StopHost
  <2> DEFINE pc == Source!AfterStop
  <2>1. /\ pc \in {"prepare roots", "remove generated", "smart-home", "done"}
        /\ \/ x6.pc = "stop for transfer" /\ pc = "prepare roots"
           \/ x6.pc = "stop" /\ x6.cmd \in {"reset", "wipe"} /\ pc = "remove generated"
           \/ x6.pc = "stop" /\ x6.cmd = "start" /\ pc = "smart-home"
           \/ pc = "done"
    BY <1>4 DEF Source!StopHost, Source!AfterStop
  <2>2. PICK next : next = pc OBVIOUS
  <2>3. next \in Steps BY <2>1, <2>2 DEF Steps, Healing, Starting
  <2>4. Source!Goto(next) /\ x5' = FALSE /\ UNCHANGED <<x1, x2, x4, x8>>
    BY <1>4, <2>2 DEF Source!StopHost
  <2>5. x6' \in SourceCommand /\ Moved(next) BY <1>0, <2>3, <2>4, SourceMoved
  <2> HIDE DEF pc
  <2> QED BY <2>1, <2>2, <2>3, <2>4, <2>5, SourceRests
<1>5. CASE Source!RootsReady
  <2>1. "make roots" \in Steps /\ Source!Goto("make roots")
    BY <1>5 DEF Source!RootsReady, Steps, Preparing
  <2>2. x6' \in SourceCommand /\ Moved("make roots") BY <1>0, <2>1, SourceMoved
  <2> QED BY <1>5, <2>1, <2>2, SourceRests DEF Source!RootsReady
<1>6. CASE Source!Generate
  <2>1. PICK pc \in {"stop", "done"} : Source!Goto(pc) /\ (pc = "stop" => x6.cmd = "start")
    BY <1>6 DEF Source!Generate, Source!Step
  <2>2. pc \in Steps BY DEF Steps
  <2>3. x6' \in SourceCommand /\ Moved(pc) BY <1>0, <2>1, <2>2, SourceMoved
  <2> QED BY <1>6, <2>1, <2>2, <2>3, SourceRests DEF Source!Generate, Source!Step
<1>7. CASE Source!PrepareReplacement
  <2>1. "stop" \in Steps /\ Source!Goto("stop")
    BY <1>7 DEF Source!PrepareReplacement, Source!Step, Steps
  <2>2. x6' \in SourceCommand /\ Moved("stop") BY <1>0, <2>1, SourceMoved
  <2> QED BY <1>7, <2>1, <2>2, SourceRests DEF Source!PrepareReplacement, Source!Step
<1>8. CASE Source!RemoveGenerated
  <2>1. PICK pc \in {"remove state", "done"} : Source!Goto(pc) /\ (pc = "remove state" => x6.cmd = "wipe")
    BY <1>8 DEF Source!RemoveGenerated, Source!Step
  <2>2. pc \in Steps BY DEF Steps, Removing
  <2>3. x6' \in SourceCommand /\ Moved(pc) BY <1>0, <2>1, <2>2, SourceMoved
  <2> QED BY <1>8, <2>1, <2>2, <2>3, SourceRests DEF Source!RemoveGenerated, Source!Step
<1> QED BY <1>1, <1>2, <1>3, <1>4, <1>5, <1>6, <1>7, <1>8

\* One root becomes another, of this Host, and what it was served at is kept.
KeptIn(root, epoch) ==
  epoch # 0 => \/ root.live # None /\ root.live.epoch = epoch
               \/ root.live = None /\ root.journal /\ root.original # None /\ root.original.epoch = epoch

LEMMA SourcePut ==
  ASSUME SourceInv, NEW r \in Root, NEW root \in Directory, Source!Put(r, root),
         UNCHANGED <<x2, x4, x5, x8>>, x6' \in SourceCommand, KeptIn(root, x8[r]),
         OfThisHost(root.live),
         root.journal => OfThisHost(root.original) /\ OfThisHost(root.staging)
  PROVE  /\ SourceTyped' /\ Fresh' /\ \A q \in Root : Source!Kept(q)'
         /\ x1'[r] = root /\ \A q \in Root \ {r} : x1'[q] = x1[q]
<1>1. x1'[r] = root /\ \A q \in Root \ {r} : x1'[q] = x1[q]
  BY DEF SourceInv, SourceTyped, Source!Put
<1>2. SourceTyped' BY DEF SourceInv, SourceTyped, Source!Put
<1>3. Fresh' BY <1>1 DEF SourceInv, Fresh, OfThisHost
<1>4. \A q \in Root : Source!Kept(q)' BY <1>1 DEF SourceInv, Source!Kept, KeptIn
<1> QED BY <1>1, <1>2, <1>3, <1>4

\* ... by a start or a provision on its way through the roots.
LEMMA SourceHeals ==
  ASSUME SourceInv, NEW r \in Root, NEW root \in Directory, Source!Put(r, root),
         UNCHANGED <<x2, x4, x5, x8>>, x6' \in SourceCommand, KeptIn(root, x8[r]),
         OfThisHost(root.live),
         root.journal => OfThisHost(root.original) /\ OfThisHost(root.staging),
         x6.pc \in {"prepare roots"} \cup Transferring, x6'.cmd = x6.cmd,
         x6'.pc \in {"prepare roots", "reported"} \cup Transferring,
         x5 => ReadyRoot(root) /\ root.live = x1[r].live,
         x6'.pc \in Healing =>
           \A q \in Root : q \in x6'.todo \/ ReadyRoot(x1'[q]) \/ (x6'.pc \in Transferring /\ q = x6'.at),
         Transfer'
  PROVE  SourceInv'
<1>1. /\ SourceTyped' /\ Fresh' /\ \A q \in Root : Source!Kept(q)'
      /\ x1'[r] = root /\ \A q \in Root \ {r} : x1'[q] = x1[q]
  BY SourcePut
<1>2. x6.cmd \in {"start", "provision"} BY DEF SourceInv, CommandAtStep, Healing
<1>3. CommandAtStep' BY <1>2 DEF CommandAtStep, Healing, Transferring, Preparing, Starting, Removing
<1>4. NoneWaits' BY <1>2 DEF NoneWaits
<1>5. RootsAreReady'
  <2>1. x5' => \A q \in Root : ReadyRoot(x1'[q]) BY <1>1 DEF SourceInv, RootsAreReady
  <2>2. x6'.pc \notin {"stop", "roots", "stop for transfer"} \cup Preparing \cup Starting
    BY DEF Transferring, Preparing, Starting
  <2> QED BY <2>1, <2>2 DEF RootsAreReady
<1>6. Identified'
  <2>1. x6'.pc \notin {"owner assets", "generate", "stop"} \cup Starting
    BY DEF Transferring, Starting
  <2>2. x5 => x1'["bootstrap"].live.epoch = x4
    BY <1>1, SourceAssumption DEF SourceInv, Identified
  <2> QED BY <2>1, <2>2 DEF Identified
<1>7. WipedInOrder' BY <1>2 DEF WipedInOrder, Transferring
<1>8. OneSmarthome' BY DEF SourceInv, OneSmarthome, Transferring
<1> QED BY <1>1, <1>3, <1>4, <1>5, <1>6, <1>7, <1>8 DEF SourceInv

\* What a root is before a step, as its own record.
LEMMA RootIs ==
  ASSUME SourceInv, NEW r \in Root
  PROVE  /\ x1[r] \in Directory /\ KeptIn(x1[r], x8[r])
         /\ x1[r].live # None => x1[r].live \in Content
         /\ OfThisHost(x1[r].live)
         /\ x1[r].journal => OfThisHost(x1[r].original) /\ OfThisHost(x1[r].staging)
<1>1. x1[r] \in Directory /\ (x1[r].live # None => x1[r].live \in Content)
  BY DEF SourceInv, SourceTyped, Directory
<1> QED BY <1>1 DEF SourceInv, Fresh, Source!Kept, KeptIn

LEMMA EmptyIs == Source!Empty \in Content /\ Source!Empty.epoch = 0 /\ Source!Empty.note = 0 /\ Source!Empty # None
BY SourceAssumption DEF Source!Empty, Source!Holds, Content

LEMMA MadeIs ==
  ASSUME NEW was \in Directory
  PROVE  /\ Source!Made(was) \in Directory /\ Source!Made(was).live # None
         /\ Source!Made(was).live = IF was.live = None THEN Source!Empty ELSE was.live
         /\ Source!Made(was).journal = was.journal
         /\ was.live = None \/ was.owner = "operator" => Source!Made(was).owner = "operator"
         /\ was.live # None => Source!Made(was) = was
         /\ Source!Made(was).staging = was.staging /\ Source!Made(was).original = was.original
BY EmptyIs DEF Source!Made, Directory

\* A root a start finds: healed, or made; it is with those behind it.
LEMMA SourceHealsOne ==
  ASSUME SourceInv, NEW r \in Root,
         Source!RestoreOriginal(r) \/ Source!DiscardJournal(r) \/ Source!CopyRoot(r) \/ Source!MakeRoot(r)
  PROVE  SourceInv'
<1> DEFINE was == x1[r]
<1>1. /\ was \in Directory /\ KeptIn(was, x8[r]) /\ OfThisHost(was.live)
      /\ was.live # None => was.live \in Content
      /\ was.journal => OfThisHost(was.original) /\ OfThisHost(was.staging)
  BY RootIs
<1>2. x6.pc = "prepare roots" /\ r \in x6.todo /\ UNCHANGED <<x2, x4, x5, x8>>
  BY DEF Source!RestoreOriginal, Source!DiscardJournal, Source!CopyRoot, Source!MakeRoot, Source!RootStep
<1>3. \A q \in Root : q \in x6.todo \/ ReadyRoot(x1[q])
  BY <1>2 DEF SourceInv, RootsAreReady, Healing, Transferring
<1>4. x5 => ReadyRoot(was) BY DEF SourceInv, RootsAreReady
<1>5. x6 \in SourceCommand BY DEF SourceInv, SourceTyped
<1>6. CASE Source!RestoreOriginal(r)
  <2> DEFINE root == [was EXCEPT !.live = was.original, !.owner = "legacy", !.original = None]
  <2>1. Source!Put(r, root) /\ x6' = x6 /\ was.journal /\ was.live = None /\ was.original # None
    BY <1>6 DEF Source!RestoreOriginal, Source!Interrupted
  <2>2. /\ root \in Directory /\ root.live = was.original /\ root.journal /\ root.original = None
        /\ root.staging = was.staging
    BY <1>1, <2>1 DEF Directory
  <2>3. KeptIn(root, x8[r]) BY <1>1, <2>1, <2>2 DEF KeptIn
  <2>4. OfThisHost(root.live) /\ OfThisHost(root.original) /\ OfThisHost(root.staging)
    BY <1>1, <2>1, <2>2 DEF OfThisHost
  <2>5. ~x5 BY <1>4, <2>1 DEF ReadyRoot
  <2>6. \A q \in Root \ {r} : x1'[q] = x1[q] BY <2>1 DEF Source!Put, SourceInv, SourceTyped
  <2>7. Transfer' BY <1>2, <2>1 DEF Transfer, Transferring
  <2> HIDE DEF root
  <2> QED BY <1>2, <1>3, <1>5, <2>1, <2>2, <2>3, <2>4, <2>5, <2>6, <2>7, SourceHeals
<1>7. CASE Source!DiscardJournal(r)
  <2> DEFINE root == [was EXCEPT !.staging = None, !.journal = FALSE]
  <2>1. Source!Put(r, root) /\ x6' = x6 /\ was.journal /\ (was.live # None \/ was.original = None)
    BY <1>7 DEF Source!DiscardJournal, Source!Interrupted
  <2>2. root \in Directory /\ root.live = was.live /\ ~root.journal
    BY <1>1, <2>1 DEF Directory
  <2>3. KeptIn(root, x8[r]) BY <1>1, <2>1, <2>2 DEF KeptIn
  <2>4. OfThisHost(root.live) BY <1>1, <2>2
  <2>5. ~x5 BY <1>4, <2>1 DEF ReadyRoot
  <2>6. \A q \in Root \ {r} : x1'[q] = x1[q] BY <2>1 DEF Source!Put, SourceInv, SourceTyped
  <2>7. Transfer' BY <1>2, <2>1 DEF Transfer, Transferring
  <2> HIDE DEF root
  <2> QED BY <1>2, <1>3, <1>5, <2>1, <2>2, <2>3, <2>4, <2>5, <2>6, <2>7, SourceHeals
<1>8. CASE Source!CopyRoot(r)
  <2> DEFINE root == [was EXCEPT !.staging = was.live, !.original = None, !.journal = TRUE]
  <2>1. Source!Put(r, root) /\ was.live # None /\ was.owner = "legacy"
    BY <1>8 DEF Source!CopyRoot
  <2>2. x6' = [x6 EXCEPT !.pc = "set aside", !.todo = @ \ {r}, !.at = r]
    BY <1>8 DEF Source!CopyRoot
  <2>3. /\ x6' \in SourceCommand /\ x6'.pc = "set aside" /\ x6'.cmd = x6.cmd
        /\ x6'.todo = x6.todo \ {r} /\ x6'.at = r
    BY <1>5, <2>2 DEF SourceCommand, Steps, Healing, Transferring
  <2>4. /\ root \in Directory /\ root.live = was.live /\ root.staging = was.live /\ root.original = None
        /\ root.journal
    BY <1>1, <2>1 DEF Directory
  <2>5. KeptIn(root, x8[r]) BY <1>1, <2>1, <2>4 DEF KeptIn
  <2>6. OfThisHost(root.live) /\ OfThisHost(root.original) /\ OfThisHost(root.staging)
    BY <1>1, <2>4 DEF OfThisHost
  <2>7. ~x5 BY <1>4, <2>1 DEF ReadyRoot
  <2> HIDE DEF root
  <2>8. x1'[r] = root /\ \A q \in Root \ {r} : x1'[q] = x1[q]
    BY <2>1 DEF Source!Put, SourceInv, SourceTyped
  <2>9. Transfer' BY <1>2, <2>1, <2>3, <2>4, <2>7, <2>8 DEF Transfer
  <2>10. \A q \in Root : q \in x6'.todo \/ ReadyRoot(x1'[q]) \/ (x6'.pc \in Transferring /\ q = x6'.at)
    BY <1>3, <2>3, <2>8 DEF Transferring
  <2>11. x6'.pc \in Transferring BY <2>3 DEF Transferring
  <2> QED BY <1>2, <2>1, <2>3, <2>4, <2>5, <2>6, <2>7, <2>9, <2>10, <2>11, SourceHeals
<1>9. CASE Source!MakeRoot(r)
  <2> DEFINE root == Source!Made(was)
  <2>1. /\ Source!Put(r, root) /\ ~was.journal /\ (was.live # None => was.owner = "operator")
        /\ x6' = [x6 EXCEPT !.todo = @ \ {r}]
    BY <1>9 DEF Source!MakeRoot, Source!Interrupted
  <2>2. /\ x6' \in SourceCommand /\ x6'.pc = x6.pc /\ x6'.cmd = x6.cmd
        /\ x6'.todo = x6.todo \ {r} /\ x6'.at = x6.at
    BY <1>5, <2>1 DEF SourceCommand
  <2>3. /\ root \in Directory /\ ReadyRoot(root)
        /\ root.live = IF was.live = None THEN Source!Empty ELSE was.live
    BY <1>1, <2>1, MadeIs DEF ReadyRoot
  <2>4. KeptIn(root, x8[r]) BY <1>1, <2>1, <2>3 DEF KeptIn
  <2>5. OfThisHost(root.live) BY <1>1, <2>3, EmptyIs DEF OfThisHost
  <2>6. x5 => root.live = was.live BY <1>4, <2>3 DEF ReadyRoot
  <2> HIDE DEF root
  <2>7. x1'[r] = root /\ \A q \in Root \ {r} : x1'[q] = x1[q]
    BY <2>1 DEF Source!Put, SourceInv, SourceTyped
  <2>8. Transfer' BY <1>2, <2>2 DEF Transfer, Transferring
  <2>9. \A q \in Root : q \in x6'.todo \/ ReadyRoot(x1'[q])
    BY <1>3, <2>2, <2>3, <2>7
  <2>10. ~root.journal BY <2>3 DEF ReadyRoot
  <2> QED BY <1>2, <2>1, <2>2, <2>3, <2>4, <2>5, <2>6, <2>8, <2>9, <2>10, SourceHeals
<1> QED BY <1>6, <1>7, <1>8, <1>9

\* The transfer of one root, rename by rename.
LEMMA SourceTransfers ==
  ASSUME SourceInv, x6.pc \in Transferring
  PROVE  /\ x6.at \in Root /\ ~x5 /\ x1[x6.at].journal
         /\ \A q \in Root : q \in x6.todo \/ ReadyRoot(x1[q]) \/ q = x6.at
BY DEF SourceInv, Transfer, RootsAreReady, Healing

LEMMA SourceSetAside == ASSUME SourceInv, Source!SetAside PROVE SourceInv'
<1> DEFINE r == x6.at
           was == x1[r]
           root == [was EXCEPT !.original = was.live, !.live = None]
<1>1. /\ Source!Put(r, root) /\ x6.pc = "set aside" /\ Source!Goto("publish")
      /\ UNCHANGED <<x2, x4, x5, x8>>
  BY DEF Source!SetAside, Source!TransferStep, Source!Step
<1>2. /\ r \in Root /\ ~x5 /\ was.journal
      /\ \A q \in Root : q \in x6.todo \/ ReadyRoot(x1[q]) \/ q = r
  BY <1>1, SourceTransfers DEF Transferring
<1>3. was.live # None /\ was.staging = was.live BY <1>1 DEF SourceInv, Transfer, Transferring
<1>4. /\ was \in Directory /\ KeptIn(was, x8[r]) /\ OfThisHost(was.live)
  BY <1>2, RootIs
<1>5. "publish" \in Steps BY DEF Steps, Healing, Transferring
<1>6. x6' \in SourceCommand /\ Moved("publish") BY <1>1, <1>5, SourceMoved DEF SourceInv
<1>7. /\ root \in Directory /\ root.live = None /\ root.journal /\ root.original = was.live
      /\ root.staging = was.live
  BY <1>2, <1>3, <1>4 DEF Directory
<1>8. PICK q0 \in Root : q0 = r BY <1>2
<1>9. PICK new \in Directory : new = root BY <1>7
<1> HIDE DEF root
<1>10. x1'[q0] = new /\ \A q \in Root \ {q0} : x1'[q] = x1[q]
  BY <1>1, <1>8, <1>9 DEF Source!Put, SourceInv, SourceTyped
<1>11. KeptIn(new, x8[q0]) BY <1>3, <1>4, <1>7, <1>8, <1>9 DEF KeptIn
<1>12. OfThisHost(new.live) /\ OfThisHost(new.original) /\ OfThisHost(new.staging)
  BY <1>4, <1>7, <1>9 DEF OfThisHost
<1>13. Transfer' BY <1>1, <1>2, <1>3, <1>6, <1>7, <1>8, <1>9, <1>10 DEF Transfer, Moved
<1>14. \A q \in Root : q \in x6'.todo \/ ReadyRoot(x1'[q]) \/ (x6'.pc \in Transferring /\ q = x6'.at)
  BY <1>2, <1>6, <1>8, <1>10 DEF Moved, Transferring
<1>15. Source!Put(q0, new) /\ x6.pc \in Transferring /\ x6'.pc \in Transferring
  BY <1>1, <1>6, <1>8, <1>9 DEF Moved, Transferring
<1> QED BY <1>1, <1>2, <1>6, <1>11, <1>12, <1>13, <1>14, <1>15, SourceHeals DEF Moved

LEMMA SourcePublish == ASSUME SourceInv, Source!Publish PROVE SourceInv'
<1> DEFINE r == x6.at
           was == x1[r]
           root == [was EXCEPT !.live = was.staging, !.owner = "operator", !.staging = None]
<1>1. /\ Source!Put(r, root) /\ x6.pc = "publish" /\ Source!Goto("end transfer")
      /\ UNCHANGED <<x2, x4, x5, x8>>
  BY DEF Source!Publish, Source!TransferStep, Source!Step
<1>2. /\ r \in Root /\ ~x5 /\ was.journal
      /\ \A q \in Root : q \in x6.todo \/ ReadyRoot(x1[q]) \/ q = r
  BY <1>1, SourceTransfers DEF Transferring
<1>3. was.live = None /\ was.original # None /\ was.staging = was.original
  BY <1>1 DEF SourceInv, Transfer, Transferring
<1>4. /\ was \in Directory /\ KeptIn(was, x8[r]) /\ OfThisHost(was.original) /\ OfThisHost(was.staging)
  BY <1>2, RootIs
<1>5. "end transfer" \in Steps BY DEF Steps, Healing, Transferring
<1>6. x6' \in SourceCommand /\ Moved("end transfer") BY <1>1, <1>5, SourceMoved DEF SourceInv
<1>7. /\ root \in Directory /\ root.live = was.original /\ root.journal /\ root.original = was.original
      /\ root.staging = None /\ root.owner = "operator"
  BY <1>2, <1>3, <1>4 DEF Directory
<1>8. PICK q0 \in Root : q0 = r BY <1>2
<1>9. PICK new \in Directory : new = root BY <1>7
<1> HIDE DEF root
<1>10. x1'[q0] = new /\ \A q \in Root \ {q0} : x1'[q] = x1[q]
  BY <1>1, <1>8, <1>9 DEF Source!Put, SourceInv, SourceTyped
<1>11. KeptIn(new, x8[q0]) BY <1>3, <1>4, <1>7, <1>8, <1>9 DEF KeptIn
<1>12. OfThisHost(new.live) /\ OfThisHost(new.original) /\ OfThisHost(new.staging)
  BY <1>4, <1>7, <1>9 DEF OfThisHost
<1>13. Transfer' BY <1>1, <1>2, <1>3, <1>6, <1>7, <1>8, <1>9, <1>10 DEF Transfer, Moved
<1>14. \A q \in Root : q \in x6'.todo \/ ReadyRoot(x1'[q]) \/ (x6'.pc \in Transferring /\ q = x6'.at)
  BY <1>2, <1>6, <1>8, <1>10 DEF Moved, Transferring
<1>15. Source!Put(q0, new) /\ x6.pc \in Transferring /\ x6'.pc \in Transferring
  BY <1>1, <1>6, <1>8, <1>9 DEF Moved, Transferring
<1> QED BY <1>1, <1>2, <1>6, <1>11, <1>12, <1>13, <1>14, <1>15, SourceHeals DEF Moved

LEMMA SourcePublishFails == ASSUME SourceInv, Source!PublishFails PROVE SourceInv'
<1> DEFINE r == x6.at
           was == x1[r]
           root == [was EXCEPT !.live = was.original, !.original = None, !.staging = None]
<1>1. /\ Source!Put(r, root) /\ x6.pc = "publish" /\ Source!Report("failed")
      /\ UNCHANGED <<x2, x4, x5, x8>>
  BY DEF Source!PublishFails
<1>2. r \in Root /\ ~x5 /\ was.journal
  BY <1>1, SourceTransfers DEF Transferring
<1>3. was.live = None /\ was.original # None /\ was.staging = was.original
  BY <1>1 DEF SourceInv, Transfer, Transferring
<1>4. /\ was \in Directory /\ KeptIn(was, x8[r]) /\ OfThisHost(was.original)
  BY <1>2, RootIs
<1>6. x6' \in SourceCommand /\ Moved("reported") BY <1>1, SourceReported DEF SourceInv
<1>7. /\ root \in Directory /\ root.live = was.original /\ root.journal /\ root.original = None
      /\ root.staging = None
  BY <1>2, <1>3, <1>4 DEF Directory
<1>8. PICK q0 \in Root : q0 = r BY <1>2
<1>9. PICK new \in Directory : new = root BY <1>7
<1> HIDE DEF root
<1>11. KeptIn(new, x8[q0]) BY <1>3, <1>4, <1>7, <1>8, <1>9 DEF KeptIn
<1>12. OfThisHost(new.live) /\ OfThisHost(new.original) /\ OfThisHost(new.staging)
  BY <1>4, <1>7, <1>9 DEF OfThisHost
<1>13. Transfer' /\ x6'.pc = "reported" /\ x6'.pc \notin Healing
  BY <1>6 DEF Transfer, Moved, Transferring, Healing
<1>15. Source!Put(q0, new) /\ x6.pc \in Transferring
  BY <1>1, <1>8, <1>9 DEF Transferring
<1> QED BY <1>1, <1>2, <1>6, <1>11, <1>12, <1>13, <1>15, SourceHeals DEF Moved

LEMMA SourceEndTransfer == ASSUME SourceInv, Source!EndTransfer PROVE SourceInv'
<1> DEFINE r == x6.at
           was == x1[r]
           root == [was EXCEPT !.journal = FALSE]
<1>1. /\ Source!Put(r, root) /\ x6.pc = "end transfer" /\ Source!Goto("prepare roots")
      /\ UNCHANGED <<x2, x4, x5, x8>>
  BY DEF Source!EndTransfer, Source!TransferStep, Source!Step
<1>2. /\ r \in Root /\ ~x5 /\ was.journal
      /\ \A q \in Root : q \in x6.todo \/ ReadyRoot(x1[q]) \/ q = r
  BY <1>1, SourceTransfers DEF Transferring
<1>3. was.live # None /\ was.owner = "operator"
  BY <1>1 DEF SourceInv, Transfer, Transferring
<1>4. was \in Directory /\ KeptIn(was, x8[r]) /\ OfThisHost(was.live)
  BY <1>2, RootIs
<1>5. "prepare roots" \in Steps BY DEF Steps, Healing
<1>6. x6' \in SourceCommand /\ Moved("prepare roots") BY <1>1, <1>5, SourceMoved DEF SourceInv
<1>7. root \in Directory /\ root.live = was.live /\ ~root.journal /\ root.owner = "operator"
  BY <1>3, <1>4 DEF Directory
<1>8. PICK q0 \in Root : q0 = r BY <1>2
<1>9. PICK new \in Directory : new = root BY <1>7
<1> HIDE DEF root
<1>10. x1'[q0] = new /\ \A q \in Root \ {q0} : x1'[q] = x1[q]
  BY <1>1, <1>8, <1>9 DEF Source!Put, SourceInv, SourceTyped
<1>11. KeptIn(new, x8[q0]) BY <1>3, <1>4, <1>7, <1>8, <1>9 DEF KeptIn
<1>12. OfThisHost(new.live) /\ ~new.journal
  BY <1>4, <1>7, <1>9
<1>13. Transfer' BY <1>6 DEF Transfer, Moved, Transferring
<1>14. \A q \in Root : q \in x6'.todo \/ ReadyRoot(x1'[q])
  BY <1>2, <1>3, <1>6, <1>7, <1>8, <1>9, <1>10 DEF Moved, ReadyRoot
<1>15. Source!Put(q0, new) /\ x6.pc \in Transferring /\ x6'.pc = "prepare roots"
  BY <1>1, <1>6, <1>8, <1>9 DEF Moved, Transferring
<1> QED BY <1>1, <1>2, <1>6, <1>11, <1>12, <1>13, <1>14, <1>15, SourceHeals DEF Moved

\* A root that waits for nothing is changed by a command past the roots.
LEMMA SourcePrepares ==
  ASSUME SourceInv, NEW r \in Root, NEW root \in Directory, NEW pc, Source!Put(r, root),
         UNCHANGED <<x2, x4, x5, x8>>, x6' \in SourceCommand, KeptIn(root, x8[r]),
         OfThisHost(root.live), ~root.journal, ReadyRoot(x1[r]) => ReadyRoot(root),
         x6.pc \in {"make roots", "owner assets", "commit"}, Moved(pc),
         pc \in {"owner assets", "generate", "reported"},
         pc = "owner assets" => r = "bootstrap",
         pc = "generate" => x6.pc = "owner assets",
         r = "bootstrap" => root.live.epoch = x4
  PROVE  SourceInv'
<1>1. /\ SourceTyped' /\ Fresh' /\ \A q \in Root : Source!Kept(q)'
      /\ x1'[r] = root /\ \A q \in Root \ {r} : x1'[q] = x1[q]
  BY SourcePut
<1>2. x6.cmd \in {"start", "provision", "prepare"} /\ (x6.pc = "commit" => x6.cmd = "start")
  BY DEF SourceInv, CommandAtStep, Preparing, Starting
<1>3. CommandAtStep' BY <1>2 DEF CommandAtStep, Moved, Healing, Transferring, Preparing, Starting, Removing
<1>4. NoneWaits' BY <1>1 DEF SourceInv, NoneWaits, Moved
<1>5. RootsAreReady'
  <2>1. x5' => \A q \in Root : ReadyRoot(x1'[q]) BY <1>1 DEF SourceInv, RootsAreReady
  <2>2. x6.cmd \in {"start", "provision"} => \A q \in Root : ReadyRoot(x1'[q])
    BY <1>1, <1>2 DEF SourceInv, RootsAreReady, Preparing, Starting
  <2> QED BY <2>1, <2>2 DEF RootsAreReady, Moved, Healing, Transferring
<1>6. Transfer' BY DEF Transfer, Moved, Transferring
<1>7. Identified'
  <2>1. x5 => x1'["bootstrap"].live.epoch = x4
    BY <1>1, SourceAssumption DEF SourceInv, Identified
  <2>2. x6.pc = "owner assets" /\ x6.cmd = "start" => x1'["bootstrap"].live.epoch = x4
    BY <1>1, SourceAssumption DEF SourceInv, Identified
  <2>3. pc = "owner assets" => x1'["bootstrap"].live.epoch = x4 BY <1>1
  <2> QED BY <2>1, <2>2, <2>3 DEF Identified, Moved, Starting
<1>8. WipedInOrder' BY <1>2 DEF WipedInOrder, Moved
<1>9. OneSmarthome' BY DEF SourceInv, OneSmarthome, Moved
<1> QED BY <1>1, <1>3, <1>4, <1>5, <1>6, <1>7, <1>8, <1>9 DEF SourceInv

LEMMA NoneJournals ==
  ASSUME SourceInv, x6.pc \in {"make roots", "owner assets", "commit"}
  PROVE  \A r \in Root : ~x1[r].journal
BY DEF SourceInv, CommandAtStep, RootsAreReady, NoneWaits, ReadyRoot, Preparing, Starting

LEMMA SourceMakeRoots == ASSUME SourceInv, Source!MakeRoots PROVE SourceInv'
<1> DEFINE was == x1["bootstrap"]
           made == Source!Made(was)
           root == IF made.live.epoch = 0 THEN [made EXCEPT !.live.epoch = x4] ELSE made
<1>1. /\ Source!Put("bootstrap", root) /\ x6.pc = "make roots" /\ Source!Goto("owner assets")
      /\ UNCHANGED <<x2, x4, x5, x8>>
  BY DEF Source!MakeRoots, Source!Step
<1>2. "bootstrap" \in Root BY SourceAssumption
<1>3. /\ was \in Directory /\ KeptIn(was, x8["bootstrap"]) /\ OfThisHost(was.live) /\ ~was.journal
  BY <1>1, <1>2, RootIs, NoneJournals
<1>4. /\ made \in Directory /\ made.live # None /\ ~made.journal
      /\ made.live = IF was.live = None THEN Source!Empty ELSE was.live
      /\ was.owner = "operator" => made.owner = "operator"
  BY <1>3, MadeIs
<1>5. made.live \in Content /\ made.live.epoch \in {0, x4} /\ made.live.note \in {0, x4}
  BY <1>3, <1>4, EmptyIs DEF Directory, OfThisHost
<1>6. x4 \in Nat BY DEF SourceInv, SourceTyped
<1>7. PICK before \in Directory : before = made BY <1>4
<1> HIDE DEF made
<1>8. /\ root \in Directory /\ root.live # None /\ root.live.epoch = x4 /\ root.live.note \in {0, x4}
      /\ ~root.journal /\ root.owner = made.owner
  <2>1. CASE made.live.epoch = 0
    <3> DEFINE live == [made.live EXCEPT !.epoch = x4]
    <3>1. live \in Content /\ live.epoch = x4 /\ live.note = made.live.note BY <1>5, <1>6 DEF Content
    <3>2. root = [made EXCEPT !.live = live] BY <2>1
    <3>3. live # None BY <3>1, SourceAssumption DEF Content
    <3> HIDE DEF live, root
    <3> QED BY <1>4, <1>5, <3>1, <3>2, <3>3 DEF Directory
  <2>2. CASE made.live.epoch # 0 BY <2>2, <1>4, <1>5
  <2> QED BY <2>1, <2>2
<1>9. KeptIn(root, x8["bootstrap"])
  BY <1>3, <1>4, <1>8 DEF KeptIn, OfThisHost
<1>10. OfThisHost(root.live) BY <1>8 DEF OfThisHost
<1>11. ReadyRoot(was) => ReadyRoot(root) BY <1>4, <1>8 DEF ReadyRoot
<1>12. "owner assets" \in Steps BY DEF Steps, Preparing
<1>13. x6' \in SourceCommand /\ Moved("owner assets") BY <1>1, <1>12, SourceMoved DEF SourceInv
<1> HIDE DEF root
<1>14. PICK new \in Directory : new = root BY <1>8
<1> QED BY <1>1, <1>2, <1>8, <1>9, <1>10, <1>11, <1>13, <1>14, SourcePrepares

LEMMA SourcePlaceOwnerAssets == ASSUME SourceInv, Source!PlaceOwnerAssets PROVE SourceInv'
<1>1. x6.pc = "owner assets" /\ UNCHANGED <<x2, x4, x5, x8>> BY DEF Source!PlaceOwnerAssets
<1>2. CASE Source!Report("refused") /\ UNCHANGED x1
  <2>1. x6' \in SourceCommand /\ Moved("reported") BY <1>2, SourceReported DEF SourceInv
  <2> QED BY <1>1, <1>2, <2>1, SourceRests DEF Steps
<1>3. CASE Source!Goto("generate") /\ Source!Put("hub", [Source!Made(x1["hub"]) EXCEPT !.live.note = x4])
  <2> DEFINE was == x1["hub"]
             made == Source!Made(was)
             live == [made.live EXCEPT !.note = x4]
             root == [made EXCEPT !.live = live]
  <2>1. "hub" \in Root BY SourceAssumption
  <2>2. /\ was \in Directory /\ KeptIn(was, x8["hub"]) /\ OfThisHost(was.live) /\ ~was.journal
    BY <1>1, <2>1, RootIs, NoneJournals
  <2>3. /\ made \in Directory /\ made.live # None /\ ~made.journal
        /\ made.live = IF was.live = None THEN Source!Empty ELSE was.live
        /\ was.owner = "operator" => made.owner = "operator"
    BY <2>2, MadeIs
  <2>4. made.live \in Content /\ made.live.epoch \in {0, x4}
    BY <2>2, <2>3, EmptyIs DEF Directory, OfThisHost
  <2>5. x4 \in Nat BY DEF SourceInv, SourceTyped
  <2>6. Source!Put("hub", root) BY <1>3
  <2>7. live \in Content /\ live.epoch = made.live.epoch /\ live.note = x4 BY <2>4, <2>5 DEF Content
  <2>8. live # None BY <2>7, SourceAssumption DEF Content
  <2> HIDE DEF made, live
  <2>9. /\ root \in Directory /\ root.live = live /\ ~root.journal /\ root.owner = made.owner
    BY <2>3, <2>7 DEF Directory
  <2> HIDE DEF root
  <2>10. KeptIn(root, x8["hub"])
    BY <2>2, <2>3, <2>7, <2>8, <2>9 DEF KeptIn
  <2>11. OfThisHost(root.live) BY <2>4, <2>7, <2>9 DEF OfThisHost
  <2>12. ReadyRoot(was) => ReadyRoot(root) BY <2>3, <2>8, <2>9 DEF ReadyRoot
  <2>13. "generate" \in Steps BY DEF Steps, Preparing
  <2>14. x6' \in SourceCommand /\ Moved("generate") BY <1>3, <2>13, SourceMoved DEF SourceInv
  <2>15. PICK new \in Directory : new = root BY <2>9
  <2> QED BY <1>1, <2>1, <2>6, <2>9, <2>10, <2>11, <2>12, <2>14, <2>15, SourcePrepares
<1> QED BY <1>2, <1>3 DEF Source!PlaceOwnerAssets

LEMMA SourceCommits == ASSUME SourceInv, Source!CommitOwnerAuthority PROVE SourceInv'
<1>1. /\ x6.pc = "commit" /\ UNCHANGED <<x2, x4, x5, x8>>
      /\ Source!Report("ok") \/ Source!Report("refused")
  BY DEF Source!CommitOwnerAuthority
<1>2. x6' \in SourceCommand /\ Moved("reported") BY <1>1, SourceReported DEF SourceInv
<1>3. CASE UNCHANGED x1 BY <1>1, <1>2, <1>3, SourceRests DEF Steps
<1>4. CASE Source!Put("bootstrap", [x1["bootstrap"] EXCEPT !.live.note = x4])
  <2> DEFINE was == x1["bootstrap"]
             live == [was.live EXCEPT !.note = x4]
             root == [was EXCEPT !.live = live]
  <2>1. "bootstrap" \in Root BY SourceAssumption
  <2>2. x6.cmd = "start" BY <1>1 DEF SourceInv, CommandAtStep, Starting
  <2>3. ReadyRoot(was) BY <1>1, <2>1, <2>2 DEF SourceInv, RootsAreReady, Starting
  <2>4. was.live.epoch = x4 BY <1>1, <2>2 DEF SourceInv, Identified, Starting
  <2>5. /\ was \in Directory /\ KeptIn(was, x8["bootstrap"]) /\ was.live \in Content
    BY <2>1, <2>3, RootIs DEF ReadyRoot
  <2>6. x4 \in Nat BY DEF SourceInv, SourceTyped
  <2>7. live \in Content /\ live.epoch = was.live.epoch /\ live.note = x4 BY <2>5, <2>6 DEF Content
  <2>8. live # None BY <2>7, SourceAssumption DEF Content
  <2>9. Source!Put("bootstrap", root) BY <1>4
  <2> HIDE DEF live
  <2>10. root \in Directory /\ root.live = live /\ root.journal = was.journal /\ root.owner = was.owner
    BY <2>5, <2>7 DEF Directory
  <2> HIDE DEF root
  <2>11. KeptIn(root, x8["bootstrap"])
    BY <2>3, <2>5, <2>7, <2>8, <2>10 DEF KeptIn, ReadyRoot
  <2>12. OfThisHost(root.live) BY <2>4, <2>7, <2>10 DEF OfThisHost
  <2>13. ReadyRoot(root) /\ ~root.journal BY <2>3, <2>8, <2>10 DEF ReadyRoot
  <2>14. PICK new \in Directory : new = root BY <2>10
  <2> QED BY <1>1, <1>2, <2>1, <2>4, <2>7, <2>9, <2>10, <2>11, <2>12, <2>13, <2>14, SourcePrepares
<1> QED BY <1>3, <1>4 DEF Source!CommitOwnerAuthority

LEMMA SourceTransfersSmarthome == ASSUME SourceInv, Source!TransferSmarthome PROVE SourceInv'
<1>1. x6.pc = "smart-home" /\ Source!Goto("start") /\ UNCHANGED <<x1, x4, x5, x8>>
  BY DEF Source!TransferSmarthome, Source!Step
<1>2. x6.cmd = "start" BY <1>1 DEF SourceInv, CommandAtStep, Starting
<1>3. "start" \in Steps BY DEF Steps, Starting
<1>4. x6' \in SourceCommand /\ Moved("start") BY <1>1, <1>3, SourceMoved DEF SourceInv
<1>5. x2 \in [channel : Nat, hub : Nat] BY DEF SourceInv, SourceTyped
<1>6. /\ x2' \in [channel : Nat, hub : Nat] /\ x2'.channel = x2.channel
      /\ x2'.hub = IF x2.channel # 0 /\ x2.hub = 0 THEN x2.channel ELSE x2.hub
  BY <1>5 DEF Source!TransferSmarthome
<1>7. SourceTyped' BY <1>1, <1>4, <1>6 DEF SourceInv, SourceTyped
<1>8. CommandAtStep' BY <1>2, <1>4 DEF CommandAtStep, Moved, Healing, Transferring, Preparing, Starting, Removing
<1>9. Fresh' /\ NoneWaits' /\ \A r \in Root : Source!Kept(r)'
  BY <1>1, <1>4 DEF SourceInv, Fresh, OfThisHost, NoneWaits, Moved, Source!Kept
<1>10. RootsAreReady'
  BY <1>1, <1>2, <1>4 DEF SourceInv, RootsAreReady, Moved, Healing, Transferring, Preparing, Starting
<1>11. Transfer' /\ WipedInOrder' BY <1>2, <1>4 DEF Transfer, WipedInOrder, Moved, Transferring, Removing
<1>12. Identified' BY <1>1, <1>2, <1>4 DEF SourceInv, Identified, Moved, Starting
<1>13. OneSmarthome' BY <1>6 DEF SourceInv, OneSmarthome
<1> QED BY <1>7, <1>8, <1>9, <1>10, <1>11, <1>12, <1>13 DEF SourceInv

\* What is served is what is live: all of it ready.
LEMMA SourceStarts == ASSUME SourceInv, Source!StartHost PROVE SourceInv'
<1>1. /\ x6.pc = "start" /\ x5' = TRUE /\ UNCHANGED <<x1, x4>>
      /\ x8' = [r \in Root |-> x1[r].live.epoch]
      /\ Source!Goto("commit") \/ Source!Report("failed")
  BY DEF Source!StartHost
<1>2. x6.cmd = "start" BY <1>1 DEF SourceInv, CommandAtStep, Starting
<1>3. \A r \in Root : ReadyRoot(x1[r]) BY <1>1, <1>2 DEF SourceInv, RootsAreReady, Starting
<1>4. "commit" \in Steps BY DEF Steps, Starting
<1>5. x6' \in SourceCommand /\ (Moved("commit") \/ Moved("reported"))
  BY <1>1, <1>4, SourceMoved, SourceReported DEF SourceInv
<1>6. x2 \in [channel : Nat, hub : Nat] /\ x4 \in Nat BY DEF SourceInv, SourceTyped
<1>7. x2.channel # 0 => x2.hub # 0 /\ x2.hub = x2.channel BY <1>1 DEF SourceInv, OneSmarthome
<1>8. /\ x2' \in [channel : Nat, hub : Nat] /\ x2'.channel = x2.channel /\ x2'.hub # 0
      /\ x2.channel # 0 => x2'.hub = x2.channel
  BY <1>6, <1>7 DEF Source!StartHost
<1>9. \A r \in Root : x1[r].live \in Content BY <1>3, RootIs DEF ReadyRoot
<1>10. x8' \in [Root -> Nat] BY <1>1, <1>9 DEF Content
<1>11. SourceTyped' BY <1>1, <1>5, <1>8, <1>10 DEF SourceInv, SourceTyped
<1>12. CommandAtStep' BY <1>2, <1>5 DEF CommandAtStep, Moved, Healing, Transferring, Preparing, Starting, Removing
<1>13. Fresh' /\ NoneWaits'
  BY <1>1, <1>2, <1>5 DEF SourceInv, Fresh, OfThisHost, NoneWaits, Moved
<1>14. \A r \in Root : Source!Kept(r)' BY <1>1, <1>3 DEF Source!Kept, ReadyRoot
<1>15. RootsAreReady'
  BY <1>1, <1>3, <1>5 DEF RootsAreReady, Moved, Healing, Transferring
<1>16. Transfer' /\ WipedInOrder' BY <1>2, <1>5 DEF Transfer, WipedInOrder, Moved, Transferring, Removing
<1>17. Identified' BY <1>1, <1>2, <1>5 DEF SourceInv, Identified, Moved, Starting
<1>18. OneSmarthome' BY <1>8 DEF OneSmarthome
<1> QED BY <1>11, <1>12, <1>13, <1>14, <1>15, <1>16, <1>17, <1>18 DEF SourceInv

LEMMA HubEstablishesInv == ASSUME SourceInv, Source!HubEstablishes PROVE SourceInv'
<1> DEFINE was == x1["hub"]
           live == [was.live EXCEPT !.epoch = was.live.note]
           root == [was EXCEPT !.live = live]
<1>1. /\ x5 /\ UNCHANGED <<x2, x4, x5, x6>> /\ was.live.note # 0
      /\ x1' = [x1 EXCEPT !["hub"] = root] /\ x8' = [x8 EXCEPT !["hub"] = was.live.note]
  BY DEF Source!HubEstablishes, Source!Put
<1>2. "hub" \in Root /\ "bootstrap" \in Root BY SourceAssumption
<1>3. \A r \in Root : ReadyRoot(x1[r]) BY <1>1 DEF SourceInv, RootsAreReady
<1>4. was \in Directory /\ was.live \in Content /\ OfThisHost(was.live) BY <1>2, <1>3, RootIs DEF ReadyRoot
<1>5. was.live.note = x4 BY <1>1, <1>2, <1>3, <1>4 DEF OfThisHost, ReadyRoot
<1>6. x4 \in Nat /\ x8 \in [Root -> Nat] /\ x1 \in [Root -> Directory] BY DEF SourceInv, SourceTyped
<1>7. live \in Content /\ live.epoch = x4 /\ live.note = x4 BY <1>4, <1>5, <1>6 DEF Content
<1>8. live # None BY <1>7, SourceAssumption DEF Content
<1>9. PICK held \in Content : held = live BY <1>7
<1> HIDE DEF live
<1>10. root \in Directory /\ root.live = live /\ root.owner = was.owner /\ root.journal = was.journal
  BY <1>4, <1>7 DEF Directory
<1>11. PICK new \in Directory : new = root BY <1>10
<1> HIDE DEF root
<1>12. x1'["hub"] = new /\ \A q \in Root \ {"hub"} : x1'[q] = x1[q]
  BY <1>1, <1>2, <1>6, <1>11
<1>13. x8'["hub"] = x4 /\ (\A q \in Root \ {"hub"} : x8'[q] = x8[q]) /\ x8' \in [Root -> Nat]
  BY <1>1, <1>2, <1>5, <1>6
<1>14. x1' \in [Root -> Directory] BY <1>1, <1>6, <1>11
<1>15. SourceTyped' BY <1>1, <1>13, <1>14 DEF SourceInv, SourceTyped
<1>16. new.live # None /\ new.live.epoch = x4 /\ new.live.note = x4 /\ ReadyRoot(new)
  BY <1>2, <1>3, <1>7, <1>8, <1>10, <1>11 DEF ReadyRoot
<1>17. \A r \in Root : ReadyRoot(x1'[r]) BY <1>3, <1>12, <1>16
<1>18. Fresh' 
  BY <1>1, <1>12, <1>16, <1>17 DEF SourceInv, Fresh, OfThisHost, ReadyRoot
<1>19. \A r \in Root : Source!Kept(r)'
  <2> TAKE r \in Root
  <2>1. CASE r = "hub" BY <2>1, <1>12, <1>13, <1>16 DEF Source!Kept
  <2>2. CASE r # "hub" BY <2>2, <1>12, <1>13 DEF SourceInv, Source!Kept
  <2> QED BY <2>1, <2>2
<1>20. CommandAtStep' /\ NoneWaits' /\ OneSmarthome'
  BY <1>1, <1>17 DEF SourceInv, CommandAtStep, NoneWaits, OneSmarthome, ReadyRoot
<1>21. RootsAreReady' BY <1>1, <1>17 DEF SourceInv, RootsAreReady
<1>22. x6.pc \notin Transferring \cup Removing
  BY <1>1 DEF SourceInv, Transfer, WipedInOrder, CommandAtStep
<1>23. Transfer' /\ WipedInOrder'
  <2>1. x6.cmd \in {"reset", "wipe"} => x6.pc \notin {"remove generated"} \cup Removing
    BY <1>1 DEF SourceInv, WipedInOrder
  <2> QED BY <1>1, <1>22, <2>1 DEF Transfer, WipedInOrder, Removing
<1>24. Identified' BY <1>1, <1>2, <1>12 DEF SourceInv, Identified
<1> QED BY <1>15, <1>18, <1>19, <1>20, <1>21, <1>23, <1>24 DEF SourceInv

\* A wipe, part by part.
LEMMA SourceWipes ==
  ASSUME SourceInv, NEW pc \in {"remove bootstrap", "commit identity", "done"},
         Source!Step(x6.pc, pc), UNCHANGED x5, x2' \in [channel : Nat, hub : Nat],
         x6.pc \in Removing, x1' \in [Root -> Directory], x8' \in [Root -> Nat], x4' \in Nat,
         UNCHANGED x2 \/ x2'.hub = 0,
         \A r \in Root : KeptIn(x1'[r], x8'[r]) /\ ~x1'[r].journal,
         \A r \in Root : x1'[r].live = None \/ (x1'[r] = x1[r] /\ UNCHANGED x4),
         pc \in {"remove bootstrap", "commit identity"} => \A r \in Root \ {"bootstrap"} : x1'[r].live = None,
         pc = "commit identity" => x1'["bootstrap"].live = None
  PROVE  SourceInv'
<1>1. x6.cmd = "wipe" /\ ~x5 BY DEF SourceInv, CommandAtStep, WipedInOrder
<1>2. pc \in Steps BY DEF Steps, Removing
<1>3. x6' \in SourceCommand /\ Moved(pc) BY <1>2, SourceMoved DEF SourceInv, Source!Step
<1>4. SourceTyped' BY <1>3 DEF SourceInv, SourceTyped
<1>5. CommandAtStep' BY <1>1, <1>3 DEF CommandAtStep, Moved, Healing, Transferring, Preparing, Starting, Removing
<1>6. Fresh' BY DEF SourceInv, Fresh, OfThisHost
<1>7. \A r \in Root : Source!Kept(r)' BY DEF Source!Kept, KeptIn
<1>8. NoneWaits' BY DEF NoneWaits
<1>9. RootsAreReady' BY <1>1, <1>3 DEF RootsAreReady, Moved, Healing, Transferring
<1>10. Transfer' BY <1>3 DEF Transfer, Moved, Transferring
<1>11. Identified' BY <1>1, <1>3 DEF Identified, Moved
<1>12. WipedInOrder' BY <1>1, <1>3 DEF WipedInOrder, Moved
<1>13. OneSmarthome' BY <1>1, <1>3 DEF SourceInv, OneSmarthome, Moved
<1> QED BY <1>4, <1>5, <1>6, <1>7, <1>8, <1>9, <1>10, <1>11, <1>12, <1>13 DEF SourceInv

LEMMA SourceRemoves ==
  ASSUME SourceInv, Source!RemoveState \/ Source!RemoveBootstrap \/ Source!CommitIdentity
  PROVE  SourceInv'
<1>0. /\ x1 \in [Root -> Directory] /\ x8 \in [Root -> Nat] /\ x4 \in Nat
      /\ x2 \in [channel : Nat, hub : Nat] /\ "bootstrap" \in Root
  BY SourceAssumption DEF SourceInv, SourceTyped
<1>1. x6.pc \in Removing
  BY DEF Source!RemoveState, Source!RemoveBootstrap, Source!CommitIdentity, Source!Step, Removing
<1>2. \A r \in Root : ~x1[r].journal BY <1>1 DEF SourceInv, NoneWaits, CommandAtStep
<1>3. \A r \in Root : x1[r] \in Directory /\ KeptIn(x1[r], x8[r]) BY RootIs
<1>4. CASE Source!RemoveState
  <2>1. Source!Gone \in Directory /\ Source!Gone.live = None /\ ~Source!Gone.journal
    BY DEF Source!Gone, Directory
  <2>2. /\ \A r \in Root : x1'[r] = IF r = "bootstrap" THEN x1[r] ELSE Source!Gone
        /\ \A r \in Root : x8'[r] = IF r = "bootstrap" THEN x8[r] ELSE 0
    BY <1>4 DEF Source!RemoveState
  <2>3. x1' \in [Root -> Directory] /\ x8' \in [Root -> Nat]
    BY <1>0, <1>4, <2>1 DEF Source!RemoveState
  <2>4. x2' \in [channel : Nat, hub : Nat] /\ x2'.hub = 0 BY <1>4 DEF Source!RemoveState
  <2>5. \A r \in Root : KeptIn(x1'[r], x8'[r]) /\ ~x1'[r].journal
    BY <1>2, <1>3, <2>1, <2>2 DEF KeptIn
  <2>6. UNCHANGED <<x4, x5>> /\ Source!Step(x6.pc, "remove bootstrap")
    BY <1>4 DEF Source!RemoveState, Source!Step
  <2>7. \A r \in Root : x1'[r].live = None \/ x1'[r] = x1[r] BY <2>1, <2>2
  <2>8. \A r \in Root \ {"bootstrap"} : x1'[r].live = None BY <2>1, <2>2
  <2> QED BY <1>0, <1>1, <2>3, <2>4, <2>5, <2>6, <2>7, <2>8, SourceWipes
<1>5. CASE Source!RemoveBootstrap
  <2>1. /\ Source!Step("remove bootstrap", "commit identity") /\ UNCHANGED <<x2, x4, x5>>
        /\ Source!Put("bootstrap", [x1["bootstrap"] EXCEPT !.live = None])
        /\ x8' = [x8 EXCEPT !["bootstrap"] = 0]
    BY <1>5 DEF Source!RemoveBootstrap
  <2>2. PICK new : new = [x1["bootstrap"] EXCEPT !.live = None] OBVIOUS
  <2>3. new \in Directory /\ new.live = None /\ new.journal = x1["bootstrap"].journal
    BY <1>0, <2>2 DEF Directory
  <2>4. x1' = [x1 EXCEPT !["bootstrap"] = new] BY <2>1, <2>2 DEF Source!Put
  <2>5. x1' \in [Root -> Directory] /\ x8' \in [Root -> Nat] BY <1>0, <2>1, <2>3, <2>4
  <2>6. /\ \A r \in Root : x1'[r] = IF r = "bootstrap" THEN new ELSE x1[r]
        /\ \A r \in Root : x8'[r] = IF r = "bootstrap" THEN 0 ELSE x8[r]
    BY <1>0, <2>1, <2>4
  <2>7. \A r \in Root : KeptIn(x1'[r], x8'[r]) /\ ~x1'[r].journal
    BY <1>0, <1>2, <1>3, <2>3, <2>6 DEF KeptIn
  <2>8. \A r \in Root \ {"bootstrap"} : x1'[r].live = None
    BY <2>1, <2>6 DEF SourceInv, WipedInOrder, Source!Step
  <2>9. x6.pc = "remove bootstrap" BY <2>1 DEF Source!Step
  <2>10. \A r \in Root : x1'[r].live = None BY <2>3, <2>6, <2>8
  <2> QED BY <1>0, <1>1, <2>1, <2>5, <2>7, <2>9, <2>10, SourceWipes
<1>6. CASE Source!CommitIdentity
  <2>1. /\ Source!Step("commit identity", "done") /\ UNCHANGED <<x1, x2, x5, x8>> /\ x4' = x4 + 1
    BY <1>6 DEF Source!CommitIdentity
  <2>2. x6.pc = "commit identity" BY <2>1 DEF Source!Step
  <2>3. \A r \in Root : x1[r].live = None BY <2>2 DEF SourceInv, WipedInOrder
  <2>4. /\ \A r \in Root : KeptIn(x1'[r], x8'[r]) /\ ~x1'[r].journal
        /\ \A r \in Root : x1'[r].live = None
    BY <1>2, <1>3, <2>1, <2>3
  <2>5. x4 + 1 \in Nat BY <1>0
  <2>6. /\ x1' \in [Root -> Directory] /\ x8' \in [Root -> Nat] /\ x2' \in [channel : Nat, hub : Nat]
        /\ UNCHANGED <<x2, x5>> /\ x4' \in Nat
    BY <1>0, <2>1, <2>5
  <2>7. Source!Step(x6.pc, "done") BY <2>1, <2>2
  <2>8. /\ \A r \in Root : x1'[r].live = None \/ (x1'[r] = x1[r] /\ UNCHANGED x4)
        /\ \A r \in Root \ {"bootstrap"} : x1'[r].live = None
        /\ UNCHANGED x2 \/ x2'.hub = 0
    BY <2>4, <2>6
  <2> QED BY <1>1, <2>4, <2>6, <2>7, <2>8, SourceWipes
<1> QED BY <1>4, <1>5, <1>6

\* A command begins where nothing waits that it would not read; and all it was
\* doing is forgotten when the operator's process, or the machine, goes.
LEMMA SourceBegins ==
  ASSUME SourceInv, SourceGranted, NEW cmd \in DOMAIN Source!FirstStep, Source!Command(cmd)
  PROVE  SourceInv'
<1>1. /\ x6' = [cmd |-> cmd, pc |-> Source!FirstStep[cmd], answer |-> "none", todo |-> Root, at |-> None]
      /\ UNCHANGED <<x1, x2, x4, x5, x8>>
  BY DEF Source!Command, Source!Idle
<1>2. /\ cmd \in {"start", "provision", "prepare", "stop", "reset", "wipe"}
      /\ cmd \in {"start", "provision"} => Source!FirstStep[cmd] = "roots"
      /\ cmd = "prepare" => Source!FirstStep[cmd] = "make roots"
      /\ cmd \in {"stop", "reset"} => Source!FirstStep[cmd] = "stop"
      /\ cmd = "wipe" => Source!FirstStep[cmd] = "replacement"
  <2>1. DOMAIN Source!FirstStep = {"start", "provision", "prepare", "stop", "reset", "wipe"}
    BY DEF Source!FirstStep
  <2>2. /\ Source!FirstStep["start"] = "roots" /\ Source!FirstStep["provision"] = "roots"
        /\ Source!FirstStep["prepare"] = "make roots" /\ Source!FirstStep["stop"] = "stop"
        /\ Source!FirstStep["reset"] = "stop" /\ Source!FirstStep["wipe"] = "replacement"
    BY DEF Source!FirstStep
  <2> QED BY <2>1, <2>2
<1>3. PICK pc : pc = Source!FirstStep[cmd] OBVIOUS
<1>4. x6'.cmd = cmd /\ x6'.pc = pc /\ x6'.todo = Root /\ x6' \in SourceCommand
  BY <1>1, <1>2, <1>3 DEF SourceCommand, Steps, Healing, Preparing
<1>5. cmd \in {"prepare", "wipe"} => \A r \in Root : ~x1[r].journal
  BY DEF SourceGranted, Source!Command, Source!Interrupted
<1>6. SourceTyped' BY <1>1, <1>4 DEF SourceInv, SourceTyped
<1>7. CommandAtStep' /\ NoneWaits' /\ Transfer'
  BY <1>1, <1>2, <1>3, <1>4, <1>5
     DEF CommandAtStep, NoneWaits, Transfer, Healing, Transferring, Preparing, Starting, Removing
<1>8. Fresh' /\ \A r \in Root : Source!Kept(r)'
  BY <1>1 DEF SourceInv, Fresh, OfThisHost, Source!Kept
<1>9. RootsAreReady'
  BY <1>1, <1>2, <1>3, <1>4 DEF SourceInv, RootsAreReady, Healing, Transferring, Preparing, Starting
<1>10. Identified' /\ WipedInOrder' /\ OneSmarthome'
  BY <1>1, <1>2, <1>3, <1>4 DEF SourceInv, Identified, WipedInOrder, OneSmarthome, Starting, Removing
<1> QED BY <1>6, <1>7, <1>8, <1>9, <1>10 DEF SourceInv

LEMMA SourceForgets ==
  ASSUME SourceInv, Source!OperatorDies \/ Source!MachineReboots
  PROVE  SourceInv'
<1>1. /\ x6' = [cmd |-> "none", pc |-> "idle", answer |-> "none", todo |-> {}, at |-> None]
      /\ UNCHANGED <<x1, x2, x4, x8>> /\ (x5' = x5 \/ x5' = FALSE)
  BY DEF Source!OperatorDies, Source!MachineReboots, Source!Idle
<1>2. x5 \in BOOLEAN /\ (x5' => x5)
  <2>1. x5 = TRUE \/ x5 = FALSE BY DEF SourceInv, SourceTyped
  <2>2. x5' => x5 BY <1>1, <2>1
  <2> QED BY <2>1, <2>2
<1>3. x6'.cmd = "none" /\ x6'.pc = "idle" /\ x6' \in SourceCommand
  BY <1>1 DEF SourceCommand, Steps
<1>4. SourceTyped' BY <1>1, <1>3 DEF SourceInv, SourceTyped
<1>5. CommandAtStep' /\ NoneWaits' /\ Transfer' /\ WipedInOrder'
  BY <1>3 DEF CommandAtStep, NoneWaits, Transfer, WipedInOrder, Healing, Transferring, Preparing, Starting, Removing
<1>6. Fresh' /\ \A r \in Root : Source!Kept(r)'
  BY <1>1 DEF SourceInv, Fresh, OfThisHost, Source!Kept
<1>7. RootsAreReady' /\ Identified' /\ OneSmarthome'
  BY <1>1, <1>2, <1>3 DEF SourceInv, RootsAreReady, Identified, OneSmarthome, Healing, Transferring
<1> QED BY <1>4, <1>5, <1>6, <1>7 DEF SourceInv

LEMMA SourceStep == ASSUME SourceInv, SourceGranted, Source!Next PROVE SourceInv'
BY SourceBetween, SourceHealsOne, SourceSetAside, SourcePublish, SourcePublishFails, SourceEndTransfer,
   SourceMakeRoots, SourcePlaceOwnerAssets, SourceCommits, SourceTransfersSmarthome, SourceStarts,
   HubEstablishesInv, SourceRemoves, SourceBegins, SourceForgets
   DEF Source!Next, Source!Proceed, Source!Fails

\* What a running Host needs of its roots.
LEMMA SourceServesOne == ASSUME SourceInv PROVE Source!ServesOne
<1>1. x5 => /\ \A r \in Root : x1[r].live # None /\ x1[r].owner = "operator"
            /\ x1["bootstrap"].live.epoch = x4
            /\ x2.channel # 0 => x2.hub = x2.channel
  BY DEF SourceInv, RootsAreReady, ReadyRoot, Identified, OneSmarthome
<1>2. Source!Authority \in {0, x4}
  BY SourceAssumption DEF SourceInv, Fresh, OfThisHost, Source!Authority
<1> QED BY <1>1, <1>2 DEF Source!ServesOne

\* SourceStateKept: for any roots, whatever is cut short at whatever rename, a
\* root's state is at its place or is what its journal names, and what a Host
\* serves is of one Host; unless an operator prepares, or wipes, past the
\* journal of an interrupted transfer.
THEOREM SourceKeepsState ==
  ASSUME SourceGranted
  PROVE  Spec => []SourceStateKept
<1> DEFINE I == machine = "source" => SourceInv
<1>1. Init => I
  BY SourceAssumption, SourceInit DEF Init
<1>2. I /\ [Next]_vars => I'
  <2>1. CASE Next
    BY <2>1, OneMachine, SourceStep
  <2>2. CASE UNCHANGED vars
    <3>1. UNCHANGED <<x1, x2, x4, x5, x6, x8, machine>> BY <2>2 DEF vars
    <3>2. SourceInv => SourceTyped' /\ CommandAtStep' /\ NoneWaits' /\ Transfer' /\ WipedInOrder'
      BY <3>1 DEF SourceInv, SourceTyped, CommandAtStep, NoneWaits, Transfer, WipedInOrder
    <3>3. SourceInv => Fresh' /\ RootsAreReady' /\ Identified' /\ OneSmarthome'
      BY <3>1 DEF SourceInv, Fresh, OfThisHost, RootsAreReady, Identified, OneSmarthome
    <3>4. SourceInv => \A r \in Root : Source!Kept(r)' BY <3>1 DEF SourceInv, Source!Kept
    <3> QED BY <3>1, <3>2, <3>3, <3>4 DEF SourceInv
  <2> QED BY <2>1, <2>2
<1>3. I => SourceStateKept BY SourceServesOne DEF SourceInv, SourceStateKept
<1> QED BY <1>1, <1>2, <1>3, PTL DEF Spec
=============================================================================
