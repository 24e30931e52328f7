--------------------------- MODULE HostCredentials ---------------------------
(***************************************************************************)
(* The credentials of an installed Host (install_inputs.py on the           *)
(* workstation, hostagent/secret_inputs.py on the Host, controller.py       *)
(* between them): environment files that share values, the product growing  *)
(* new places for them, converge-inputs and deploy, which add what is       *)
(* missing, and repair-credentials, the only one that changes a value.      *)
(*                                                                         *)
(* A class is one credential: every slot <<class, file>> of it is to hold   *)
(* one value.  No lock orders the commands.                                 *)
(***************************************************************************)
EXTENDS Naturals, FiniteSets

CONSTANTS
  Converger,    \* operators whose commands may overlap
  Keeper,       \* the one who keeps at it
  None,
  Class, File,  \* File is a set of numbers: the order an agent takes them in
  Provider,     \* classes only an operator can supply
  Slots,        \* the slots the product ever declares
  InstalledFiles, \* the sets of files an installed Host may have
  FirstSlots,   \* those it declared when the Host was installed
  MaxEdits,     \* bound: changes by hand, and commands of the other operators
  MaxFaults,    \* bound: faults of all kinds
  Faults        \* the faults of this instance

VARIABLES
  declared,     \* the slots the workstation's product declares
  inputs,       \* slot -> the workstation's value
  held,         \* slot -> the value in the Host's file
  installed,    \* the files this Host has
  setupCode,    \* the optional whole file: the factory Setup code
  staged,       \* verb -> what its fixed staging directory offers
  cmd,          \* the commands
  edits, faults

vars == <<declared, inputs, held, installed, setupCode, staged, cmd, edits, faults>>

FileOf(slot) == slot[2]
ClassOf(slot) == slot[1]
ClassSlots(c) == {slot \in declared : ClassOf(slot) = c}
Known(values, slots) == {values[slot] : slot \in slots} \ {0}

Ready == [verb |-> "none", pc |-> "idle", files |-> {}, pending |-> None]

\* An installed Host holds what the workstation installed, in every file its
\* profile has.  0 is no value, 1 what the workstation minted.
Init ==
  /\ declared = FirstSlots
  /\ inputs = [slot \in Slots |-> IF slot \in FirstSlots THEN 1 ELSE 0]
  /\ installed \in InstalledFiles
  /\ held = [slot \in Slots |-> IF FileOf(slot) \in installed THEN inputs[slot] ELSE 0]
  /\ setupCode = 0
  /\ staged = [verb \in {"converge", "repair"} |-> None]
  /\ cmd = [o \in Converger |-> Ready]
  /\ edits = 0 /\ faults = 0

Fault(f) == f \in Faults /\ faults < MaxFaults /\ faults' = faults + 1
To(o, pc) == cmd' = [cmd EXCEPT ![o].pc = pc]
Ends(o) == cmd' = [cmd EXCEPT ![o] = [Ready EXCEPT !.verb = cmd[o].verb, !.pc = "clean up"]]
At(o, verb, pc) == cmd[o].verb = verb /\ cmd[o].pc = pc

Repairs == \E o \in Converger : cmd[o].verb = "repair"
Lacking == {slot \in declared : FileOf(slot) \in installed /\ held[slot] = 0}

-----------------------------------------------------------------------------
\* The product grows, and people change values by hand.

\* A new place for a credential, or a new credential.  A command carries the
\* declaration it began with, so growing under one is growing after it.
Grow(slot) ==
  /\ slot \in Slots \ declared /\ \A o \in Converger : cmd[o].pc = "idle"
  /\ declared' = declared \cup {slot}
  /\ UNCHANGED <<inputs, held, installed, setupCode, staged, cmd, edits, faults>>

Edit == edits < MaxEdits /\ edits' = edits + 1
Other == edits + 2

\* Every copy of a credential, because the product does not work otherwise; or
\* one copy, which is how a Host comes to disagree with itself.
EditHost(slots) ==
  /\ slots # {} /\ \A slot \in slots : held[slot] # 0
  /\ (\A o \in Converger : cmd[o].pc # "write") \/ "edits_meanwhile" \in Faults
  /\ Edit
  /\ held' = [slot \in Slots |-> IF slot \in slots THEN Other ELSE held[slot]]
  /\ UNCHANGED <<declared, inputs, installed, setupCode, staged, cmd, faults>>

Rotate(c) == EditHost({slot \in ClassSlots(c) : held[slot] # 0})
EditOne(slot) == EditHost({slot})

\* A provider's key follows the file it is typed into, on the workstation.
ProviderChanges(slot) ==
  /\ ClassOf(slot) \in Provider /\ slot \in declared
  /\ \A o \in Converger : cmd[o].pc # "inputs"
  /\ Edit
  /\ inputs' = [inputs EXCEPT ![slot] = Other]
  /\ UNCHANGED <<declared, held, installed, setupCode, staged, cmd, faults>>

-----------------------------------------------------------------------------
\* The workstation's input set.

Missing == {slot \in declared : inputs[slot] = 0}

Complete(c) == \A slot \in ClassSlots(c) : held[slot] # 0
Divided(c) == Complete(c) /\ Cardinality(Known(held, ClassSlots(c))) > 1
Listed(verb) ==
  IF verb = "repair" THEN \E c \in Class : Divided(c)
  ELSE Lacking # {} \/ Missing # {} \/ setupCode = 0

\* converge-inputs, the convergence of a deploy, and repair-credentials: each is
\* asked first what it would do, and run when it lists something.  Nothing keeps
\* a repair from overlapping another command; an instance may grant that.
Begin(o, verb) ==
  /\ cmd[o].pc = "idle"
  /\ Listed(verb)
  /\ verb = "repair" => (\A p \in Converger : cmd[p].pc = "idle") \/ "repairs_meanwhile" \in Faults
  /\ ~Repairs \/ "repairs_meanwhile" \in Faults
  /\ IF o = Keeper THEN UNCHANGED edits ELSE Edit
  /\ cmd' = [cmd EXCEPT ![o] = [Ready EXCEPT
       !.verb = verb, !.pc = IF verb = "repair" THEN "prove" ELSE "inputs"]]
  /\ UNCHANGED <<declared, inputs, held, installed, setupCode, staged, faults>>

\* A shared value is copied from a file that has it and minted once for the
\* whole class when none does; copies that disagree, or a provider's key that
\* is not there, refuse.
Offer(slot) ==
  LET known == Known(inputs, ClassSlots(ClassOf(slot))) IN
  IF known = {} THEN 1 ELSE CHOOSE v \in known : TRUE
Addable ==
  /\ \A slot \in Missing : Cardinality(Known(inputs, ClassSlots(ClassOf(slot)))) <= 1
  /\ \A slot \in Missing : ClassOf(slot) \notin Provider

\* Input files are written one after the other: an operator who dies leaves the
\* slots of some.
AddMissing(o) ==
  /\ At(o, "converge", "inputs")
  /\ IF ~Addable
     THEN cmd' = [cmd EXCEPT ![o] = Ready] /\ UNCHANGED <<inputs, faults>>
     ELSE \/ /\ inputs' = [slot \in Slots |->
                  IF slot \in Missing THEN Offer(slot) ELSE inputs[slot]]
             /\ To(o, "upload") /\ UNCHANGED faults
          \/ \E files \in SUBSET File :
               /\ inputs' = [slot \in Slots |->
                    IF slot \in Missing /\ FileOf(slot) \in files THEN Offer(slot) ELSE inputs[slot]]
               /\ cmd' = [cmd EXCEPT ![o] = Ready] /\ Fault("operator_dies")
  /\ UNCHANGED <<declared, held, installed, setupCode, staged, edits>>

\* A repair proves its own set first: complete, and of one mind.
Proven ==
  \A slot \in declared : inputs[slot] # 0 /\ Cardinality(Known(inputs, ClassSlots(ClassOf(slot)))) = 1
Prove(o) ==
  /\ At(o, "repair", "prove")
  /\ IF Proven THEN To(o, "upload") ELSE cmd' = [cmd EXCEPT ![o] = Ready]
  /\ UNCHANGED <<declared, inputs, held, installed, setupCode, staged, edits, faults>>

\* Staging clears the directory of that name, whoever filled it, and uploads
\* the set; an upload that fails leaves the rest of it there.
Upload(o) ==
  /\ cmd[o].pc = "upload"
  /\ \/ /\ staged' = [staged EXCEPT ![cmd[o].verb] = inputs]
        /\ cmd' = [cmd EXCEPT ![o].pc = IF cmd[o].verb = "repair" THEN "read" ELSE "add",
                              ![o].files = IF cmd[o].verb = "repair" THEN {} ELSE installed]
        /\ UNCHANGED faults
     \/ /\ staged' = [staged EXCEPT ![cmd[o].verb] = None]
        /\ cmd' = [cmd EXCEPT ![o] = Ready] /\ Fault("upload_fails")
  /\ UNCHANGED <<declared, inputs, held, installed, setupCode, edits>>

-----------------------------------------------------------------------------
\* converge, on the Host: file by file, each read and replaced at once.

Next_(o) == CHOOSE f \in cmd[o].files : \A g \in cmd[o].files : f <= g
Wanted(f) == {slot \in Lacking : FileOf(slot) = f}
Offered(o) == staged[cmd[o].verb]

\* A value this file holds that the staged one would change.
Rotated(o, f) ==
  \E slot \in declared : FileOf(slot) = f /\ held[slot] # 0 /\ Offered(o)[slot] \notin {0, held[slot]}

Carries(o, f) ==
  Offered(o) # None /\ \A slot \in Wanted(f) : Offered(o)[slot] # 0

\* What a file gains: what it lacks, and only if nothing else in it changed.
Gains(o, f) == IF Carries(o, f) /\ ~Rotated(o, f) THEN Wanted(f) ELSE {}
AddKeys(o) ==
  /\ At(o, "converge", "add") /\ cmd[o].files # {}
  /\ LET f == Next_(o) IN
     /\ held' = IF Gains(o, f) = {} THEN held ELSE
                [slot \in Slots |-> IF slot \in Gains(o, f) THEN Offered(o)[slot] ELSE held[slot]]
     /\ IF Gains(o, f) = Wanted(f) THEN cmd' = [cmd EXCEPT ![o].files = @ \ {f}] ELSE Ends(o)
  /\ UNCHANGED <<declared, inputs, installed, setupCode, staged, edits, faults>>

\* Then the optional whole file, only where there is none.
AddFile(o) ==
  /\ At(o, "converge", "add") /\ cmd[o].files = {}
  /\ setupCode' = IF setupCode = 0 /\ Offered(o) # None THEN 1 ELSE setupCode
  /\ Ends(o)
  /\ UNCHANGED <<declared, inputs, held, installed, staged, edits, faults>>

-----------------------------------------------------------------------------
\* repair, on the Host: every file is read once, every divided class decided,
\* then the files are written whole from what was read.

CorrectedAll(o) == {slot \in declared : Complete(ClassOf(slot)) /\ held[slot] # Offered(o)[slot]}
Corrected(o) == {slot \in declared : Divided(ClassOf(slot)) /\ held[slot] # Offered(o)[slot]}

ReadHost(o) ==
  /\ At(o, "repair", "read")
  /\ IF \E c \in Class : Divided(c)
     THEN IF Offered(o) = None THEN Ends(o)
          ELSE cmd' = [cmd EXCEPT ![o].pc = "write",
                 ![o].files = {FileOf(slot) : slot \in Corrected(o)},
                 ![o].pending = [slot \in Slots |->
                    IF slot \in Corrected(o) THEN Offered(o)[slot] ELSE held[slot]]]
     ELSE Ends(o)
  /\ UNCHANGED <<declared, inputs, held, installed, setupCode, staged, edits, faults>>

WriteFile(o) ==
  /\ At(o, "repair", "write") /\ cmd[o].files # {}
  /\ held' = [slot \in Slots |->
       IF FileOf(slot) = Next_(o) THEN cmd[o].pending[slot] ELSE held[slot]]
  /\ cmd' = [cmd EXCEPT ![o].files = @ \ {Next_(o)}]
  /\ UNCHANGED <<declared, inputs, installed, setupCode, staged, edits, faults>>

Written(o) ==
  /\ At(o, "repair", "write") /\ cmd[o].files = {}
  /\ Ends(o)
  /\ UNCHANGED <<declared, inputs, held, installed, setupCode, staged, edits, faults>>

-----------------------------------------------------------------------------
\* The directory of that name goes, whoever filled it meanwhile.
CleanUp(o) ==
  /\ cmd[o].pc = "clean up"
  /\ staged' = [staged EXCEPT ![cmd[o].verb] = None]
  /\ cmd' = [cmd EXCEPT ![o] = Ready]
  /\ UNCHANGED <<declared, inputs, held, installed, setupCode, edits, faults>>

\* The agent stops between two files; the workstation still cleans up.
AgentStops(o) ==
  /\ cmd[o].pc \in {"add", "read", "write"} /\ Fault("agent_stops")
  /\ Ends(o)
  /\ UNCHANGED <<declared, inputs, held, installed, setupCode, staged, edits>>

\* The operator dies: nothing cleans up.
OperatorDies(o) ==
  /\ cmd[o].pc # "idle" /\ Fault("operator_dies")
  /\ cmd' = [cmd EXCEPT ![o] = Ready]
  /\ UNCHANGED <<declared, inputs, held, installed, setupCode, staged, edits>>

-----------------------------------------------------------------------------
Agent(o) == AddKeys(o) \/ AddFile(o) \/ ReadHost(o) \/ WriteFile(o) \/ Written(o)
Proceed(o) == AddMissing(o) \/ Prove(o) \/ Upload(o) \/ Agent(o) \/ CleanUp(o)

Next ==
  \/ \E slot \in Slots : Grow(slot) \/ EditOne(slot) \/ ProviderChanges(slot)
  \/ \E c \in Class : Rotate(c)
  \/ \E o \in Converger :
       \/ \E verb \in {"converge", "repair"} : Begin(o, verb)
       \/ Proceed(o) \/ AgentStops(o) \/ OperatorDies(o)

-----------------------------------------------------------------------------
\* No command takes a value away, and none changes one, but a repair of a
\* credential whose copies are all there and differ, to the workstation's.
Changed == {slot \in Slots : held[slot] # 0 /\ held'[slot] # held[slot]}
ByCommand == \E o \in Converger : cmd'[o] # cmd[o]
KeptByCommands ==
  ByCommand => \A slot \in Changed :
    /\ Divided(ClassOf(slot))
    /\ held'[slot] = inputs[slot]
    /\ \E o \in Converger : cmd[o].verb = "repair"

\* A Host whose every file holds what is declared, each credential one value.
Healthy == Lacking = {} /\ \A c \in Class : ~Divided(c)
\* What the commands refuse: a key to add to a file whose other values were
\* changed, or a workstation without a key only an operator can give it.
Refused ==
  \/ \E f \in installed : Wanted(f) # {} /\
       \E slot \in declared : FileOf(slot) = f /\ held[slot] \notin {0, inputs[slot]}
  \/ ~Addable
=============================================================================
