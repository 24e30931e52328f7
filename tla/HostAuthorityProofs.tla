-------------------------- MODULE HostAuthorityProofs --------------------------
(***************************************************************************)
(* RecordedWasEstablished, EvidenceIsOfAWhole, UploadTakenBack and          *)
(* RecordedIdentityStays hold of HostAuthority for any number of boards,    *)
(* identities, commands and faults.  They rest on one inductive invariant,  *)
(* AuthorityInv: what the profile records is proved, which command is at    *)
(* which step and what it was decided on, what whoever waits for an agent   *)
(* waits for, and what a board with an agent at work holds.                 *)
(*                                                                         *)
(* A replacement of the identity is seven renames and may be cut or undone  *)
(* after each: Replacing says what holds in between, and is why the record  *)
(* of a delivery never outlives the identity it is about, nor the other     *)
(* way round.                                                               *)
(***************************************************************************)
EXTENDS HostAuthority, TLAPS

(***************************************************************************)
(* Types.                                                                  *)
(***************************************************************************)
Number == Nat \cup {None}
Lineages == [owner : Nat, state : Nat]
Profiles ==
  [inputs : Number, anchor : Number, owner : Number,
   binding : [identity : Nat, board : Board] \cup {None}]
Staged == [identity : Number, lineage : Lineages \cup {None}, pending : BOOLEAN]
Hosts ==
  [marker : Lineages \cup {None}, anchor : Lineages \cup {None},
   ticket : [lineage : Lineages \cup {None}, pending : BOOLEAN] \cup {None},
   journal : [inputs : Staged, completed : BOOLEAN] \cup {None}, identity : Number,
   directory : [owner : Nat, names : Number] \cup {None}, installed : BOOLEAN]
Agents ==
  [kind : {"install", "backup", "restore", "reset"},
   at : {"begin", "inputs", "start", "capture", "database", "anchor", "prove", "deployment", "authority"},
   inputs : Staged]
Calls ==
  [cmd : {"none", "init", "replace", "install", "converge", "trust", "backup", "restore", "reset"},
   pc : {"idle", "reported", "inputs", "anchor", "owner", "renames", "observe", "stage",
         "start agent", "waits", "answered", "upload", "refresh", "finalize"},
   board : Board \cup {None},
   decision : {"none", "host incident", "foreign authority", "wrong board", "authority lost",
               "continue", "first install", "adopt delivery", "identity unproven"},
   lineage : Lineages \cup {None}, answer : {"none", "ok", "failed", "refused", "cleanup unproven"},
   moved : Nat, before : Profiles]
Typed ==
  /\ profile \in Profiles /\ host \in [Board -> Hosts]
  /\ restoreStage \in [Board -> Lineages \cup {None}] /\ packages \subseteq Lineages
  /\ op \in Calls
  /\ agent \in [Board -> Agents \cup {None}]
  /\ minted \in [identity : Nat, owner : Nat, state : Nat]
  /\ recorded \subseteq Nat \X Board

\* A profile that records what it used, of identities there are.
RecordKept(p) ==
  \A r \in recorded : r[1] \in {p.inputs, p.anchor} => p.binding = Binding(r[1], r[2])
OneIdentity(p) == None \notin {p.inputs, p.anchor} => p.inputs = p.anchor
BindingProved(p) == p.binding # None => <<p.binding.identity, p.binding.board>> \in proved
Minted(p) == \A i \in {p.inputs, p.anchor} : i # None => i <= minted.identity
Sound(p) == RecordKept(p) /\ OneIdentity(p) /\ BindingProved(p)

\* A replacement has retired the names in their order, and then given the new ones.
Replacing ==
  /\ op.moved \in 0 .. 6
  /\ Sound(op.before) /\ Minted(op.before)
  /\ op.moved \in 1 .. 4 => profile.inputs = None
  /\ op.moved \in 3 .. 6 => profile.anchor = None
  /\ op.moved \in 5 .. 6 => profile.inputs = minted.identity + 1
  /\ op.moved < 5 => Minted(profile)

Records ==
  /\ Sound(profile)
  /\ \A r \in recorded : r[1] <= minted.identity
  /\ IF op.pc = "renames" THEN Replacing ELSE Minted(profile)

\* Which command is at which step.
AtWork ==
  /\ op.pc # "idle" => op.board \in Board
  /\ op.pc \in {"inputs", "anchor", "owner"} => op.cmd = "init"
  /\ op.pc = "renames" => op.cmd \in {"replace", "reset"}
  /\ op.pc = "observe" => op.cmd \in {"install", "converge", "trust", "backup"}
  /\ op.pc = "stage" => op.cmd \in {"install", "converge"}
  /\ op.pc \in {"start agent", "waits", "answered"} => op.cmd \in {"install", "backup", "restore", "reset"}
  /\ op.pc \in {"upload", "refresh", "finalize"} => op.cmd = "restore"
  /\ op.pc \notin {"idle", "reported", "renames"} => op.moved = 0
  /\ op.pc \notin {"idle", "reported", "renames", "answered", "finalize"} => op.answer = "none"

\* What a command was decided on, and still goes by.
Decided ==
  /\ op.pc \in {"observe", "upload"} => op.lineage = None
  /\ op.pc = "stage" \/ (op.pc \in {"start agent", "waits", "answered"} /\ op.cmd = "install") =>
       /\ profile.inputs # None
       /\ profile.binding \in {None, Binding(profile.inputs, op.board)}
  /\ op.pc \in {"stage", "refresh", "start agent", "waits", "answered", "finalize"} /\ op.cmd # "reset" =>
       op.lineage # None

\* Who waits, waits for an agent of its own; and an answer is the board's.
Answering ==
  /\ op.pc = "waits" =>
       /\ agent[op.board] # None /\ agent[op.board].kind = op.cmd
       /\ agent[op.board].inputs = Inputs
  /\ op.pc \in {"answered", "finalize", "reported"} /\ op.answer = "ok"
     /\ op.cmd \in {"install", "backup", "restore"} =>
       /\ agent[op.board] = None /\ op.lineage # None
       /\ Established(host[op.board]) = op.lineage
       /\ op.cmd = "backup" => op.lineage \in packages
  /\ op.pc = "answered" /\ op.answer = "ok" /\ op.cmd = "install" =>
       <<profile.inputs, op.board>> \in proved

\* What a board holds is what its journal and its agent say.
Working(b) ==
  /\ Established(host[b]) # None => <<host[b].identity, b>> \in proved
  /\ host[b].journal # None /\ host[b].journal.completed =>
       host[b].identity = host[b].journal.inputs.identity
  /\ agent[b] # None =>
       /\ agent[b].kind = "install" <=> agent[b].at \in {"begin", "inputs", "start"}
       /\ agent[b].kind = "backup" <=> agent[b].at = "capture"
       /\ agent[b].kind = "restore" <=> agent[b].at \in {"database", "anchor", "prove"}
       /\ agent[b].kind = "reset" <=> agent[b].at \in {"deployment", "authority"}
       /\ agent[b].kind # "reset" => agent[b].inputs.lineage # None
       /\ agent[b].at \in {"inputs", "start"} =>
            host[b].journal # None /\ host[b].journal.inputs = agent[b].inputs
       /\ agent[b].at = "start" => host[b].identity = agent[b].inputs.identity

AuthorityInv ==
  /\ Typed /\ Records /\ AtWork /\ Decided /\ Answering /\ UploadTakenBack
  /\ \A b \in Board : Working(b)

(***************************************************************************)
(* Lemmas on the steps of a command.                                       *)
(***************************************************************************)
\* What is absent is told apart from what is there.
LEMMA NothingThere ==
  /\ None \notin Nat /\ None \notin Lineages /\ None \notin [identity : Nat, board : Board]
  /\ None \notin [inputs : Staged, completed : BOOLEAN] /\ None \notin Agents
BY AuthorityAssumption DEF Lineages, Staged, Number, Agents

\* Another step of the same command, with everything it goes by.
SameCall ==
  /\ op' \in Calls /\ op'.cmd = op.cmd /\ op'.board = op.board /\ op'.decision = op.decision
  /\ op'.lineage = op.lineage /\ op'.moved = op.moved /\ op'.before = op.before

LEMMA CallGoes ==
  ASSUME op \in Calls, NEW pc \in {"idle", "reported", "inputs", "anchor", "owner", "renames", "observe",
           "stage", "start agent", "waits", "answered", "upload", "refresh", "finalize"}, Goto(pc)
  PROVE  SameCall /\ op'.pc = pc /\ op'.answer = op.answer
BY DEF Calls, Goto, SameCall

LEMMA CallReports ==
  ASSUME op \in Calls, NEW answer \in {"none", "ok", "failed", "refused", "cleanup unproven"},
         Report(answer)
  PROVE  SameCall /\ op'.pc = "reported" /\ op'.answer = answer
BY DEF Calls, Report, SameCall

LEMMA CallFails ==
  ASSUME op \in Calls, op' = [op EXCEPT !.pc = "finalize", !.answer = "failed"]
  PROVE  SameCall /\ op'.pc = "finalize" /\ op'.answer = "failed"
BY DEF Calls, SameCall

\* A board nobody writes to, and whose agent does not move.
LEMMA WorkingStays ==
  ASSUME NEW b \in Board, Working(b), host'[b] = host[b], agent'[b] = agent[b], proved \subseteq proved'
  PROVE  Working(b)'
BY DEF Working, Established

LEMMA AuthorityInit == ASSUME Init PROVE AuthorityInv
<1>1. EmptyProfile \in Profiles BY DEF EmptyProfile, Profiles, Number
<1>2. profile \in Profiles /\ profile.binding = None /\ OneIdentity(profile)
      /\ \A i \in {profile.inputs, profile.anchor} : i # None => i = 1
  <2>1. CASE profile = EmptyProfile BY <1>1, <2>1 DEF EmptyProfile, OneIdentity
  <2>2. CASE profile = [inputs |-> 1, anchor |-> 1, owner |-> 1, binding |-> None]
    BY <2>2 DEF OneIdentity, Profiles, Number
  <2> QED BY <2>1, <2>2 DEF Init
<1>3. EmptyHost \in Hosts /\ EmptyHost.marker = None /\ EmptyHost.anchor = None /\ EmptyHost.journal = None
  BY DEF EmptyHost, Hosts, Number
<1>4. Idle \in Calls /\ Idle.pc = "idle" /\ Idle.cmd = "none" BY <1>1 DEF Idle, Calls
<1>5. Lineage(1, 1) \in Lineages BY DEF Lineage, Lineages
<1>6. Typed BY <1>2, <1>3, <1>4, <1>5 DEF Init, Typed
<1>7. minted.identity = 1 /\ recorded = {} BY DEF Init
<1>8. op.pc = "idle" /\ op.cmd = "none" BY <1>4 DEF Init
<1>9. Records
  BY <1>2, <1>7, <1>8 DEF Records, Sound, RecordKept, BindingProved, Minted
<1>10. AtWork /\ Decided /\ Answering /\ UploadTakenBack
  BY <1>8 DEF AtWork, Decided, Answering, UploadTakenBack
<1>11. \A b \in Board : host[b] = EmptyHost /\ agent[b] = None BY DEF Init
<1>12. \A b \in Board : Working(b) BY <1>3, <1>11 DEF Working, Established
<1> QED BY <1>6, <1>9, <1>10, <1>12 DEF AuthorityInv

\* A step that leaves the boards as they are.
LEMMA BoardsStay ==
  ASSUME AuthorityInv, UNCHANGED <<host, agent, proved>>,
         Typed', Records', AtWork', Decided', Answering', UploadTakenBack'
  PROVE  AuthorityInv'
<1>1. \A b \in Board : Working(b)' BY DEF AuthorityInv, Working, Established
<1> QED BY <1>1 DEF AuthorityInv

\* Only the profile and the command change, and the command is at one of the
\* steps before a decision, at its end, or dead.
LEMMA ProfileStep ==
  ASSUME AuthorityInv, UNCHANGED <<host, agent, proved, restoreStage, packages, recorded>>,
         profile' \in Profiles, op' \in Calls, minted' \in [identity : Nat, owner : Nat, state : Nat],
         Records', op'.pc # "idle" => op'.board \in Board,
         op'.pc \in {"idle", "inputs", "anchor", "owner", "renames", "observe", "upload", "reported"},
         op'.pc \in {"inputs", "anchor", "owner"} => op'.cmd = "init",
         op'.pc = "renames" => op'.cmd \in {"replace", "reset"},
         op'.pc = "observe" => op'.cmd \in {"install", "converge", "trust", "backup"},
         op'.pc = "upload" => op'.cmd = "restore",
         op'.pc \notin {"idle", "reported", "renames"} => op'.moved = 0 /\ op'.answer = "none",
         op'.pc \in {"observe", "upload"} => op'.lineage = None,
         op'.pc = "reported" => op'.cmd \notin {"install", "backup", "restore"}
  PROVE  AuthorityInv'
<1>1. Typed' BY DEF AuthorityInv, Typed
<1>2. AtWork' BY DEF AtWork
<1>3. Decided' /\ Answering' /\ UploadTakenBack' BY DEF Decided, Answering, UploadTakenBack
<1> QED BY <1>1, <1>2, <1>3, BoardsStay

LEMMA CommandBegins ==
  ASSUME AuthorityInv, NEW cmd \in DOMAIN FirstStep, NEW b \in Board, Command(cmd, b)
  PROVE  AuthorityInv'
<1>1. /\ UNCHANGED <<profile, host, restoreStage, packages, agent, minted, recorded, proved>>
      /\ op.pc \in {"idle", "reported"} /\ Typed
      /\ op' = [Idle EXCEPT !.cmd = cmd, !.board = b, !.pc = FirstStep[cmd], !.before = profile]
  BY DEF Command, Resting, AuthorityInv
<1>2. cmd \in {"init", "replace", "install", "converge", "trust", "backup", "restore", "reset"}
  BY DEF FirstStep
<1>3. PICK pc : pc = FirstStep[cmd] OBVIOUS
<1>4. /\ pc \in {"inputs", "renames", "observe", "upload", "start agent"}
      /\ pc = "inputs" <=> cmd = "init"
      /\ pc = "renames" <=> cmd = "replace"
      /\ pc = "observe" => cmd \in {"install", "converge", "trust", "backup"}
      /\ pc = "upload" <=> cmd = "restore"
      /\ pc = "start agent" <=> cmd = "reset"
  <2>1. CASE cmd = "init" BY <1>3, <2>1 DEF FirstStep
  <2>2. CASE cmd = "replace" BY <1>3, <2>2 DEF FirstStep
  <2>3. CASE cmd = "install" BY <1>3, <2>3 DEF FirstStep
  <2>4. CASE cmd = "converge" BY <1>3, <2>4 DEF FirstStep
  <2>5. CASE cmd = "trust" BY <1>3, <2>5 DEF FirstStep
  <2>6. CASE cmd = "backup" BY <1>3, <2>6 DEF FirstStep
  <2>7. CASE cmd = "restore" BY <1>3, <2>7 DEF FirstStep
  <2>8. CASE cmd = "reset" BY <1>3, <2>8 DEF FirstStep
  <2> QED BY <1>2, <2>1, <2>2, <2>3, <2>4, <2>5, <2>6, <2>7, <2>8
<1>5. /\ op' \in Calls /\ op'.cmd = cmd /\ op'.board = b /\ op'.pc = pc
      /\ op'.lineage = None /\ op'.answer = "none" /\ op'.moved = 0 /\ op'.before = profile
  <2>1. EmptyProfile \in Profiles BY DEF EmptyProfile, Profiles, Number
  <2>2. profile \in Profiles BY <1>1 DEF Typed
  <2> QED BY <1>1, <1>2, <1>3, <1>4, <2>1, <2>2 DEF Idle, Calls
<1>6. Records'
  <2>1. Sound(profile) /\ Minted(profile) /\ \A r \in recorded : r[1] <= minted.identity
    BY <1>1 DEF AuthorityInv, Records
  <2>2. Sound(profile)' /\ (Minted(profile))'
    BY <1>1, <2>1 DEF Sound, RecordKept, OneIdentity, BindingProved, Minted
  <2>3. Replacing'
    <3>1. op'.moved = 0 BY <1>5
    <3>2. op'.moved \in 0 .. 6 BY <3>1
    <3>3. (Sound(op.before) /\ Minted(op.before))'
      BY <1>1, <1>5, <2>1 DEF Sound, RecordKept, OneIdentity, BindingProved, Minted
    <3> QED BY <2>2, <3>1, <3>2, <3>3 DEF Replacing
  <2> QED BY <1>1, <2>1, <2>2, <2>3 DEF Records
<1>7. CASE pc # "start agent"
  <2>1. profile' \in Profiles /\ minted' \in [identity : Nat, owner : Nat, state : Nat]
    BY <1>1 DEF Typed
  <2> QED BY <1>1, <1>5, <1>6, <1>7, <1>4, <2>1, ProfileStep
<1>8. CASE pc = "start agent"
  <2>1. cmd = "reset" BY <1>8, <1>4
  <2>2. Typed' BY <1>1, <1>5 DEF Typed
  <2>3. AtWork' BY <1>5, <1>8, <2>1 DEF AtWork
  <2>4. Decided' /\ Answering' /\ UploadTakenBack'
    BY <1>5, <1>8, <2>1 DEF Decided, Answering, UploadTakenBack
  <2> QED BY <1>1, <1>6, <2>2, <2>3, <2>4, BoardsStay
<1> QED BY <1>7, <1>8

\* A profile that gets an identity it kept, or one that is new; or another Owner.
LEMMA ProfileGets ==
  ASSUME AuthorityInv, UNCHANGED <<recorded, proved>>, op.pc # "renames", op'.pc # "renames",
         profile' \in Profiles, profile'.binding = profile.binding,
         minted'.identity \in Nat, minted.identity <= minted'.identity,
         OneIdentity(profile'),
         \A i \in {profile'.inputs, profile'.anchor} :
           i \in {None, profile.inputs, profile.anchor}
           \/ (i = minted'.identity /\ minted'.identity = minted.identity + 1)
  PROVE  Records'
<1>1. /\ Sound(profile) /\ Minted(profile) /\ \A r \in recorded : r[1] <= minted.identity
      /\ profile \in Profiles /\ minted.identity \in Nat /\ recorded \subseteq Nat \X Board
  BY DEF AuthorityInv, Records, Typed
<1>2. PICK p : p = profile' OBVIOUS
<1>3. PICK m \in Nat : m = minted'.identity OBVIOUS
<1>4. \A r \in recorded : r[1] \in Nat /\ r[1] <= m BY <1>1, <1>3
<1>5. ASSUME NEW r \in recorded, r[1] \in {p.inputs, p.anchor}
      PROVE  p.binding = Binding(r[1], r[2])
  <2>1. r[1] \in Nat /\ r[1] <= minted.identity BY <1>1
  <2>2. r[1] # minted.identity + 1 /\ r[1] # None BY <1>1, <2>1, NothingThere
  <2>3. r[1] \in {profile.inputs, profile.anchor} BY <1>2, <1>5, <2>2
  <2> QED BY <1>1, <1>2, <2>3 DEF Sound, RecordKept
<1>6. \A i \in {p.inputs, p.anchor} : i # None => i <= m
  <2> SUFFICES ASSUME NEW i \in {p.inputs, p.anchor}, i # None PROVE i <= m OBVIOUS
  <2>1. i \in Number BY <1>2 DEF Profiles
  <2>2. i \in {profile.inputs, profile.anchor} \/ i = m BY <1>2, <1>3
  <2>3. i = m => i <= m BY <1>3
  <2>4. i \in {profile.inputs, profile.anchor} => i \in Nat /\ i <= minted.identity
    BY <1>1, <2>1 DEF Minted, Number
  <2> QED BY <1>1, <1>3, <2>2, <2>3, <2>4
<1>7. RecordKept(profile)' BY <1>2, <1>5 DEF RecordKept, Binding
<1>8. BindingProved(profile)' BY <1>1 DEF Sound, BindingProved
<1>9. OneIdentity(profile)' BY DEF OneIdentity
<1>10. (Minted(profile))' BY <1>2, <1>3, <1>6 DEF Minted
<1>11. \A r \in recorded' : r[1] <= minted'.identity BY <1>3, <1>4
<1> QED BY <1>7, <1>8, <1>9, <1>10, <1>11 DEF Records, Sound

LEMMA ProfileTyped ==
  ASSUME profile \in Profiles, NEW i \in Number, NEW p,
         \/ p = [profile EXCEPT !.inputs = i] \/ p = [profile EXCEPT !.anchor = i]
         \/ p = [profile EXCEPT !.owner = i] \/ p = [profile EXCEPT !.binding = None]
  PROVE  /\ p \in Profiles
         /\ p = [profile EXCEPT !.inputs = i] =>
              p.inputs = i /\ p.anchor = profile.anchor /\ p.binding = profile.binding
         /\ p = [profile EXCEPT !.anchor = i] =>
              p.inputs = profile.inputs /\ p.anchor = i /\ p.binding = profile.binding
         /\ p = [profile EXCEPT !.owner = i] =>
              p.inputs = profile.inputs /\ p.anchor = profile.anchor /\ p.binding = profile.binding
         /\ p = [profile EXCEPT !.binding = None] =>
              p.inputs = profile.inputs /\ p.anchor = profile.anchor /\ p.binding = None
<1>1. CASE p = [profile EXCEPT !.inputs = i] BY <1>1 DEF Profiles
<1>2. CASE p = [profile EXCEPT !.anchor = i] BY <1>2 DEF Profiles
<1>3. CASE p = [profile EXCEPT !.owner = i] BY <1>3 DEF Profiles
<1>4. CASE p = [profile EXCEPT !.binding = None] BY <1>4 DEF Profiles
<1> HIDE DEF Profiles
<1>5. p \in Profiles BY <1>1, <1>2, <1>3, <1>4
<1>6. /\ [profile EXCEPT !.inputs = i].inputs = i
      /\ [profile EXCEPT !.inputs = i].anchor = profile.anchor
      /\ [profile EXCEPT !.inputs = i].binding = profile.binding
      /\ [profile EXCEPT !.anchor = i].inputs = profile.inputs
      /\ [profile EXCEPT !.anchor = i].anchor = i
      /\ [profile EXCEPT !.anchor = i].binding = profile.binding
      /\ [profile EXCEPT !.owner = i].inputs = profile.inputs
      /\ [profile EXCEPT !.owner = i].anchor = profile.anchor
      /\ [profile EXCEPT !.owner = i].binding = profile.binding
      /\ [profile EXCEPT !.binding = None].inputs = profile.inputs
      /\ [profile EXCEPT !.binding = None].anchor = profile.anchor
      /\ [profile EXCEPT !.binding = None].binding = None
  BY DEF Profiles
<1> QED BY <1>5, <1>6

LEMMA MintedMore ==
  ASSUME minted \in [identity : Nat, owner : Nat, state : Nat]
  PROVE  /\ UNCHANGED minted => minted'.identity = minted.identity
         /\ minted' = [minted EXCEPT !.identity = @ + 1] =>
              /\ minted' \in [identity : Nat, owner : Nat, state : Nat]
              /\ minted'.identity = minted.identity + 1
         /\ minted' = [minted EXCEPT !.owner = @ + 1] =>
              /\ minted' \in [identity : Nat, owner : Nat, state : Nat]
              /\ minted'.owner = minted.owner + 1 /\ minted'.identity = minted.identity
         /\ minted' = [minted EXCEPT !.state = @ + 1] =>
              /\ minted' \in [identity : Nat, owner : Nat, state : Nat]
              /\ minted'.state = minted.state + 1 /\ minted'.identity = minted.identity
         /\ minted' = [minted EXCEPT !.identity = @ + 1, !.owner = @ + 1] =>
              /\ minted' \in [identity : Nat, owner : Nat, state : Nat]
              /\ minted'.identity = minted.identity + 1
<1>1. PICK i, o, t \in Nat : i = minted.identity /\ o = minted.owner /\ t = minted.state
  OBVIOUS
<1>2. /\ [minted EXCEPT !.identity = i + 1] \in [identity : Nat, owner : Nat, state : Nat]
      /\ [minted EXCEPT !.identity = i + 1].identity = i + 1
  OBVIOUS
<1>3. /\ [minted EXCEPT !.owner = o + 1] \in [identity : Nat, owner : Nat, state : Nat]
      /\ [minted EXCEPT !.owner = o + 1].owner = o + 1
      /\ [minted EXCEPT !.owner = o + 1].identity = i
  BY <1>1
<1>4. /\ [minted EXCEPT !.state = t + 1] \in [identity : Nat, owner : Nat, state : Nat]
      /\ [minted EXCEPT !.state = t + 1].state = t + 1
      /\ [minted EXCEPT !.state = t + 1].identity = i
  BY <1>1
<1>5. /\ [minted EXCEPT !.identity = i + 1, !.owner = o + 1] \in [identity : Nat, owner : Nat, state : Nat]
      /\ [minted EXCEPT !.identity = i + 1, !.owner = o + 1].identity = i + 1
  <2>1. PICK a, c \in Nat : a = i + 1 /\ c = o + 1 OBVIOUS
  <2>2. [minted EXCEPT !.identity = a, !.owner = c] \in [identity : Nat, owner : Nat, state : Nat]
    OBVIOUS
  <2>3. [minted EXCEPT !.identity = a, !.owner = c].identity = a OBVIOUS
  <2> QED BY <2>1, <2>2, <2>3
<1>6. /\ [minted EXCEPT !.identity = @ + 1] = [minted EXCEPT !.identity = i + 1]
      /\ [minted EXCEPT !.owner = @ + 1] = [minted EXCEPT !.owner = o + 1]
      /\ [minted EXCEPT !.state = @ + 1] = [minted EXCEPT !.state = t + 1]
      /\ [minted EXCEPT !.identity = @ + 1, !.owner = @ + 1] =
           [minted EXCEPT !.identity = i + 1, !.owner = o + 1]
  BY <1>1
<1> QED BY <1>1, <1>2, <1>3, <1>4, <1>5, <1>6

LEMMA InputsMade ==
  ASSUME AuthorityInv, InitInputs \/ InitAnchor \/ InitOwner \/ ObserveMintsOwner
  PROVE  AuthorityInv'
<1>1. /\ UNCHANGED <<host, agent, proved, restoreStage, packages, recorded>>
      /\ op.pc \in {"inputs", "anchor", "owner", "observe"} /\ Typed
      /\ op.moved = 0 /\ op.answer = "none" /\ op.board \in Board
      /\ profile \in Profiles /\ op \in Calls /\ minted \in [identity : Nat, owner : Nat, state : Nat]
      /\ Sound(profile) /\ OneIdentity(profile) /\ minted.identity \in Nat
  BY DEF InitInputs, InitAnchor, InitOwner, ObserveMintsOwner, Profile, AuthorityInv, AtWork, Typed,
    Records, Sound
<1>2. /\ op.pc \in {"inputs", "anchor", "owner"} => op.cmd = "init"
      /\ op.pc = "observe" =>
           op.lineage = None /\ op.cmd \in {"install", "converge", "trust", "backup"}
  BY DEF AuthorityInv, AtWork, Decided
<1>3. ASSUME NEW pc \in {"owner", "anchor", "reported", "observe"},
             SameCall, op'.pc = pc, op'.answer \in {"none", "ok"},
             pc # "reported" => op'.answer = "none",
             pc = "observe" => op.pc = "observe",
             pc # "observe" => op.pc # "observe",
             profile' \in Profiles, profile'.binding = profile.binding,
             \/ UNCHANGED minted
             \/ minted' = [minted EXCEPT !.identity = @ + 1]
             \/ minted' = [minted EXCEPT !.owner = @ + 1],
             OneIdentity(profile'),
             \A i \in {profile'.inputs, profile'.anchor} :
               i \in {None, profile.inputs, profile.anchor}
               \/ (i = minted'.identity /\ minted'.identity = minted.identity + 1)
      PROVE  AuthorityInv'
  <2>1. /\ minted' \in [identity : Nat, owner : Nat, state : Nat]
        /\ minted'.identity \in {minted.identity, minted.identity + 1}
    BY <1>1, <1>3, MintedMore
  <2>2. minted'.identity \in Nat /\ minted.identity <= minted'.identity BY <1>1, <2>1
  <2>3. op.pc # "renames" /\ op'.pc # "renames" BY <1>1, <1>3
  <2>4. Records' BY <1>1, <1>3, <2>2, <2>3, ProfileGets
  <2> QED BY <1>1, <1>2, <1>3, <2>1, <2>4, ProfileStep DEF SameCall
<1>4. CASE InitInputs
  <2>1. op.pc = "inputs" BY <1>4 DEF InitInputs
  <2>2. CASE profile.inputs # None
    <3>1. Goto("owner") /\ profile' = profile /\ UNCHANGED minted
      BY <1>4, <2>2 DEF InitInputs, Profile
    <3>2. SameCall /\ op'.pc = "owner" /\ op'.answer = "none" BY <1>1, <3>1, CallGoes
    <3> QED BY <1>1, <1>3, <2>1, <3>1, <3>2
  <2>3. CASE profile.inputs = None /\ profile.anchor # None
    <3>1. Goto("anchor") /\ profile' = [profile EXCEPT !.inputs = profile.anchor] /\ UNCHANGED minted
      BY <1>4, <2>3 DEF InitInputs, Profile
    <3>2. SameCall /\ op'.pc = "anchor" /\ op'.answer = "none" BY <1>1, <3>1, CallGoes
    <3>3. /\ profile' \in Profiles /\ profile'.binding = profile.binding
          /\ profile'.inputs = profile.anchor /\ profile'.anchor = profile.anchor
      <4>1. profile.anchor \in Number BY <1>1 DEF Profiles
      <4> QED BY <1>1, <3>1, <4>1, ProfileTyped
    <3>4. OneIdentity(profile') BY <3>3 DEF OneIdentity
    <3> QED BY <1>1, <1>3, <2>1, <3>1, <3>2, <3>3, <3>4
  <2>4. CASE profile.inputs = None /\ profile.anchor = None
    <3>1. /\ Goto("anchor") /\ profile' = [profile EXCEPT !.inputs = minted'.identity]
          /\ minted' = [minted EXCEPT !.identity = @ + 1]
      BY <1>4, <2>4 DEF InitInputs, Profile
    <3>2. SameCall /\ op'.pc = "anchor" /\ op'.answer = "none" BY <1>1, <3>1, CallGoes
    <3>3. minted'.identity = minted.identity + 1 BY <1>1, <3>1, MintedMore
    <3>4. PICK m : m = minted.identity + 1 OBVIOUS
    <3>5. /\ profile' \in Profiles /\ profile'.binding = profile.binding
          /\ profile'.inputs = m /\ profile'.anchor = None
      <4>1. m \in Number BY <1>1, <3>4 DEF Number
      <4>2. profile' = [profile EXCEPT !.inputs = m] BY <3>1, <3>3, <3>4
      <4> QED BY <1>1, <2>4, <4>1, <4>2, ProfileTyped
    <3>6. OneIdentity(profile') BY <3>5 DEF OneIdentity
    <3> QED BY <1>1, <1>3, <2>1, <3>1, <3>2, <3>3, <3>4, <3>5, <3>6
  <2> QED BY <2>2, <2>3, <2>4
<1>5. CASE InitAnchor
  <2>1. /\ Goto("owner") /\ profile' = [profile EXCEPT !.anchor = profile.inputs] /\ UNCHANGED minted
        /\ op.pc = "anchor"
    BY <1>5 DEF InitAnchor, Profile
  <2>2. SameCall /\ op'.pc = "owner" /\ op'.answer = "none" BY <1>1, <2>1, CallGoes
  <2>3. /\ profile' \in Profiles /\ profile'.binding = profile.binding
        /\ profile'.inputs = profile.inputs /\ profile'.anchor = profile.inputs
    <3>1. profile.inputs \in Number BY <1>1 DEF Profiles
    <3> QED BY <1>1, <2>1, <3>1, ProfileTyped
  <2>4. OneIdentity(profile') BY <2>3 DEF OneIdentity
  <2> QED BY <1>1, <1>3, <2>1, <2>2, <2>3, <2>4
<1>6. ASSUME UNCHANGED minted \/ minted' = [minted EXCEPT !.owner = @ + 1],
             \/ profile' = profile
             \/ profile' = [profile EXCEPT !.owner = minted'.owner] /\ minted'.owner = minted.owner + 1
      PROVE  /\ profile' \in Profiles /\ profile'.binding = profile.binding
             /\ profile'.inputs = profile.inputs /\ profile'.anchor = profile.anchor
             /\ OneIdentity(profile')
  <2>1. PICK m : m = minted.owner + 1 OBVIOUS
  <2>2. m \in Number BY <1>1, <2>1 DEF Number
  <2>3. CASE profile' = profile BY <1>1, <2>3
  <2>4. CASE profile' = [profile EXCEPT !.owner = minted'.owner] /\ minted'.owner = minted.owner + 1
    <3>1. profile' = [profile EXCEPT !.owner = m] BY <2>1, <2>4
    <3>2. /\ profile' \in Profiles /\ profile'.binding = profile.binding
          /\ profile'.inputs = profile.inputs /\ profile'.anchor = profile.anchor
      BY <1>1, <2>2, <3>1, ProfileTyped
    <3> QED BY <1>1, <3>2 DEF OneIdentity
  <2> QED BY <1>6, <2>3, <2>4
<1>7. CASE InitOwner
  <2>1. /\ Report("ok") /\ op.pc = "owner"
        /\ \/ profile' = profile /\ UNCHANGED minted
           \/ profile' = [profile EXCEPT !.owner = minted'.owner]
              /\ minted' = [minted EXCEPT !.owner = @ + 1]
    BY <1>7 DEF InitOwner, Profile
  <2>2. SameCall /\ op'.pc = "reported" /\ op'.answer = "ok" BY <1>1, <2>1, CallReports
  <2>3. minted' = [minted EXCEPT !.owner = @ + 1] => minted'.owner = minted.owner + 1
    BY <1>1, MintedMore
  <2>4. /\ profile' \in Profiles /\ profile'.binding = profile.binding
        /\ profile'.inputs = profile.inputs /\ profile'.anchor = profile.anchor
        /\ OneIdentity(profile')
    BY <1>6, <2>1, <2>3
  <2> QED BY <1>3, <2>1, <2>2, <2>4
<1>8. CASE ObserveMintsOwner
  <2>1. /\ UNCHANGED op /\ op.pc = "observe"
        /\ profile' = [profile EXCEPT !.owner = minted'.owner]
        /\ minted' = [minted EXCEPT !.owner = @ + 1]
    BY <1>8 DEF ObserveMintsOwner, Profile
  <2>2. SameCall /\ op'.pc = "observe" /\ op'.answer = "none" BY <1>1, <2>1 DEF SameCall
  <2>3. minted'.owner = minted.owner + 1 BY <1>1, <2>1, MintedMore
  <2>4. /\ profile' \in Profiles /\ profile'.binding = profile.binding
        /\ profile'.inputs = profile.inputs /\ profile'.anchor = profile.anchor
        /\ OneIdentity(profile')
    BY <1>6, <2>1, <2>3
  <2> QED BY <1>3, <2>1, <2>2, <2>4
<1> QED BY <1>4, <1>5, <1>7, <1>8

LEMMA RenamedIs ==
  /\ Renamed(1) = [profile EXCEPT !.inputs = None]
  /\ Renamed(2) = [profile EXCEPT !.owner = None]
  /\ Renamed(3) = [profile EXCEPT !.anchor = None]
  /\ Renamed(4) = [profile EXCEPT !.binding = None]
  /\ Renamed(5) = [profile EXCEPT !.inputs = minted.identity + 1]
  /\ Renamed(6) = [profile EXCEPT !.owner = minted.owner + 1]
  /\ Renamed(7) = [profile EXCEPT !.anchor = minted.identity + 1]
<1>1. Names[1] = "inputs" /\ Names[2] = "owner" /\ Names[3] = "anchor" /\ Names[4] = "binding"
  BY DEF Names
<1>2. Renamed(1) = [profile EXCEPT !.inputs = None] BY <1>1 DEF Renamed
<1>3. Renamed(2) = [profile EXCEPT !.owner = None] BY <1>1 DEF Renamed
<1>4. Renamed(3) = [profile EXCEPT !.anchor = None] BY <1>1 DEF Renamed
<1>5. Renamed(4) = [profile EXCEPT !.binding = None] BY <1>1 DEF Renamed
<1>6. Renamed(5) = [profile EXCEPT !.inputs = minted.identity + 1] BY <1>1 DEF Renamed
<1>7. Renamed(6) = [profile EXCEPT !.owner = minted.owner + 1] BY <1>1 DEF Renamed
<1>8. Renamed(7) = [profile EXCEPT !.anchor = minted.identity + 1] BY <1>1 DEF Renamed
<1> QED BY <1>2, <1>3, <1>4, <1>5, <1>6, <1>7, <1>8

LEMMA RenameTyped ==
  ASSUME profile \in Profiles, minted \in [identity : Nat, owner : Nat, state : Nat],
         NEW n \in 1 .. 7
  PROVE  /\ Renamed(n) \in Profiles
         /\ n # 4 => Renamed(n).binding = profile.binding
         /\ n = 4 => Renamed(n).binding = None
         /\ n \notin {1, 5} => Renamed(n).inputs = profile.inputs
         /\ n = 1 => Renamed(n).inputs = None
         /\ n = 5 => Renamed(n).inputs = minted.identity + 1
         /\ n \notin {3, 7} => Renamed(n).anchor = profile.anchor
         /\ n = 3 => Renamed(n).anchor = None
         /\ n = 7 => Renamed(n).anchor = minted.identity + 1
<1>1. None \in Number /\ minted.identity + 1 \in Number /\ minted.owner + 1 \in Number BY DEF Number
<1>2. PICK i \in Number, o \in Number : i = minted.identity + 1 /\ o = minted.owner + 1 BY <1>1
<1>3. CASE n = 1
  <2>1. Renamed(1) = [profile EXCEPT !.inputs = None] BY RenamedIs
  <2> QED BY <1>1, <1>3, <2>1, ProfileTyped
<1>4. CASE n = 2
  <2>1. Renamed(2) = [profile EXCEPT !.owner = None] BY RenamedIs
  <2> QED BY <1>1, <1>4, <2>1, ProfileTyped
<1>5. CASE n = 3
  <2>1. Renamed(3) = [profile EXCEPT !.anchor = None] BY RenamedIs
  <2> QED BY <1>1, <1>5, <2>1, ProfileTyped
<1>6. CASE n = 4
  <2>1. Renamed(4) = [profile EXCEPT !.binding = None] BY RenamedIs
  <2> QED BY <1>1, <1>6, <2>1, ProfileTyped
<1>7. CASE n = 5
  <2>1. Renamed(5) = [profile EXCEPT !.inputs = i] BY <1>2, RenamedIs
  <2> QED BY <1>2, <1>7, <2>1, ProfileTyped
<1>8. CASE n = 6
  <2>1. Renamed(6) = [profile EXCEPT !.owner = o] BY <1>2, RenamedIs
  <2> QED BY <1>2, <1>8, <2>1, ProfileTyped
<1>9. CASE n = 7
  <2>1. Renamed(7) = [profile EXCEPT !.anchor = i] BY <1>2, RenamedIs
  <2> QED BY <1>2, <1>9, <2>1, ProfileTyped
<1>10. n = 1 \/ n = 2 \/ n = 3 \/ n = 4 \/ n = 5 \/ n = 6 \/ n = 7 OBVIOUS
<1> QED BY <1>3, <1>4, <1>5, <1>6, <1>7, <1>8, <1>9, <1>10

LEMMA IdentityReplaced ==
  ASSUME AuthorityInv, Rename
  PROVE  AuthorityInv'
<1>1. /\ UNCHANGED <<host, agent, proved, restoreStage, packages, recorded>>
      /\ op.pc = "renames" /\ Typed /\ profile \in Profiles /\ op \in Calls
      /\ minted \in [identity : Nat, owner : Nat, state : Nat] /\ minted.identity \in Nat
      /\ Replacing /\ Sound(profile) /\ op.cmd \in {"replace", "reset"} /\ op.board \in Board
      /\ \A r \in recorded : r[1] <= minted.identity
  BY DEF Rename, Profile, AuthorityInv, AtWork, Typed, Records
<1>2a. PICK k \in 0 .. 6 : k = op.moved BY <1>1 DEF Replacing
<1>2. PICK n \in 1 .. 7 : n = k + 1 OBVIOUS
<1>2b. n = op.moved + 1 /\ op.moved + 1 \in 1 .. 7 BY <1>2, <1>2a
<1>3. PICK p : p = Renamed(n) OBVIOUS
<1>4. /\ profile' = p /\ p \in Profiles
      /\ n # 4 => p.binding = profile.binding
      /\ n = 4 => p.binding = None
      /\ n \notin {1, 5} => p.inputs = profile.inputs
      /\ n = 1 => p.inputs = None
      /\ n = 5 => p.inputs = minted.identity + 1
      /\ n \notin {3, 7} => p.anchor = profile.anchor
      /\ n = 3 => p.anchor = None
      /\ n = 7 => p.anchor = minted.identity + 1
  <2>1. profile' = p BY <1>1, <1>2b, <1>3 DEF Rename, Profile
  <2> QED BY <1>1, <1>3, <2>1, RenameTyped
<1>5. /\ n \in {2, 3, 4, 5} => profile.inputs = None
      /\ n \in {4, 5, 6, 7} => profile.anchor = None
      /\ n \in {6, 7} => profile.inputs = minted.identity + 1
      /\ n \in {1, 2, 3, 4, 5} => Minted(profile)
  <2>1. /\ k \in 1 .. 4 => profile.inputs = None
        /\ k \in 3 .. 6 => profile.anchor = None
        /\ k \in 5 .. 6 => profile.inputs = minted.identity + 1
        /\ k < 5 => Minted(profile)
    BY <1>1, <1>2a DEF Replacing
  <2>2. /\ n \in {2, 3, 4, 5} => k \in 1 .. 4
        /\ n \in {4, 5, 6, 7} => k \in 3 .. 6
        /\ n \in {6, 7} => k \in 5 .. 6
        /\ n \in {1, 2, 3, 4, 5} => k < 5
    BY <1>2
  <2> QED BY <2>1, <2>2
<1>5a. n = 1 \/ n = 2 \/ n = 3 \/ n = 4 \/ n = 5 \/ n = 6 \/ n = 7 OBVIOUS
<1>6. \A r \in recorded : r[1] # minted.identity + 1
  <2>1. \A r \in recorded : r[1] \in Nat BY <1>1 DEF Typed
  <2> QED BY <1>1, <2>1
<1>7. Sound(p)
  <2>1. OneIdentity(p)
    <3>1. n \in {1, 3, 4, 5} => None \in {p.inputs, p.anchor}
      <4>1. n \in {1, 3} => None \in {p.inputs, p.anchor} BY <1>4
      <4>2. n = 4 => p.inputs = None BY <1>4, <1>5
      <4>3. n = 5 => p.anchor = None BY <1>4, <1>5
      <4> QED BY <4>1, <4>2, <4>3
    <3>2. n = 7 => p.inputs = p.anchor BY <1>2, <1>4, <1>5
    <3>3. n \in {2, 6} => p.inputs = profile.inputs /\ p.anchor = profile.anchor BY <1>4
    <3> QED BY <1>1, <1>5a, <3>1, <3>2, <3>3 DEF OneIdentity, Sound
  <2>2. p.binding \in {None, profile.binding} BY <1>4
  <2>3. n = 4 => p.inputs = None /\ p.anchor = None BY <1>2, <1>4, <1>5
  <2>4. n # 4 /\ p.binding = None => profile.binding = None BY <1>4
  <2>5. \A i \in {p.inputs, p.anchor} : i \in {None, profile.inputs, profile.anchor, minted.identity + 1}
    BY <1>4
  <2>6. RecordKept(p)
    <3> SUFFICES ASSUME NEW r \in recorded, r[1] \in {p.inputs, p.anchor}
                 PROVE  p.binding = Binding(r[1], r[2])
      BY DEF RecordKept
    <3>1. r[1] # None BY <1>1, NothingThere DEF Typed
    <3>2. r[1] \in {profile.inputs, profile.anchor} BY <1>6, <2>5, <3>1
    <3>3. n # 4 BY <2>3, <3>1
    <3> QED BY <1>1, <1>4, <3>2, <3>3 DEF Sound, RecordKept
  <2>7. BindingProved(p) BY <1>1, <2>2 DEF Sound, BindingProved
  <2> QED BY <2>1, <2>6, <2>7 DEF Sound
<1>8. n < 5 => \A i \in {p.inputs, p.anchor} : i # None => i <= minted.identity
  <2>1. n < 5 => p.inputs \in {None, profile.inputs} /\ p.anchor \in {None, profile.anchor} BY <1>4
  <2>2. n < 5 => Minted(profile) BY <1>5
  <2> QED BY <2>1, <2>2 DEF Minted
<1>9. CASE n = 7
  <2>1. Report("ok") /\ minted' = [minted EXCEPT !.identity = @ + 1, !.owner = @ + 1]
    BY <1>1, <1>2b, <1>9 DEF Rename
  <2>2. SameCall /\ op'.pc = "reported" BY <1>1, <2>1, CallReports
  <2>3. /\ minted' \in [identity : Nat, owner : Nat, state : Nat]
        /\ minted'.identity = minted.identity + 1
    BY <1>1, <2>1, MintedMore
  <2>4. p.inputs = minted.identity + 1 /\ p.anchor = minted.identity + 1 BY <1>2, <1>4, <1>5, <1>9
  <2>5. Records'
    <3>1. PICK m \in Nat : m = minted.identity + 1 BY <1>1
    <3>2. Sound(profile)' BY <1>1, <1>4, <1>7 DEF Sound, RecordKept, OneIdentity, BindingProved
    <3>3. (Minted(profile))' BY <1>4, <2>3, <2>4, <3>1 DEF Minted
    <3>4. \A r \in recorded : r[1] <= m
      <4>1. \A r \in recorded : r[1] \in Nat BY <1>1 DEF Typed
      <4> QED BY <1>1, <3>1, <4>1
    <3> QED BY <1>1, <2>2, <2>3, <3>1, <3>2, <3>3, <3>4 DEF Records
  <2> QED BY <1>1, <1>4, <2>2, <2>3, <2>5, ProfileStep DEF SameCall
<1>10. CASE n # 7
  <2>1. op' = [op EXCEPT !.moved = n] /\ UNCHANGED minted
    <3>1. op' = [op EXCEPT !.moved = @ + 1] /\ UNCHANGED minted BY <1>1, <1>2b, <1>10 DEF Rename
    <3> QED BY <1>2b, <3>1
  <2>2. /\ op' \in Calls /\ op'.pc = "renames" /\ op'.moved = n /\ op'.before = op.before
        /\ op'.cmd = op.cmd /\ op'.board = op.board
    <3>1. n \in Nat OBVIOUS
    <3> QED BY <1>1, <2>1, <3>1 DEF Calls
  <2>3. Sound(profile)' BY <1>1, <1>4, <1>7 DEF Sound, RecordKept, OneIdentity, BindingProved
  <2>4. (Sound(op.before) /\ Minted(op.before))'
    BY <1>1, <2>1, <2>2 DEF Replacing, Sound, RecordKept, OneIdentity, BindingProved, Minted
  <2>5. n < 5 => (Minted(profile))'
    <3>1. minted'.identity = minted.identity BY <2>1
    <3> QED BY <1>4, <1>8, <3>1 DEF Minted
  <2>6. /\ n \in 1 .. 4 => p.inputs = None
        /\ n \in 3 .. 6 => p.anchor = None
        /\ n \in 5 .. 6 => p.inputs = minted.identity + 1
    <3>1. n \in {1, 2, 3, 4} => p.inputs = None BY <1>4, <1>5
    <3>2. n \in {3, 4, 5, 6} => p.anchor = None BY <1>4, <1>5
    <3>3. n \in {5, 6} => p.inputs = minted.identity + 1 BY <1>4, <1>5
    <3> QED BY <3>1, <3>2, <3>3
  <2>7. n \in 0 .. 6 BY <1>10
  <2>8. Replacing' BY <1>4, <2>1, <2>2, <2>4, <2>5, <2>6, <2>7 DEF Replacing
  <2>9. Records' BY <1>1, <2>1, <2>2, <2>3, <2>8 DEF Records
  <2> QED BY <1>1, <1>4, <2>1, <2>2, <2>9, ProfileStep
<1> QED BY <1>9, <1>10

\* A step that leaves the identity of the profile and its record, and mints
\* none; and either leaves the command alone or has none among the renames.
LEMMA RecordsStay ==
  ASSUME AuthorityInv, profile'.inputs = profile.inputs, profile'.anchor = profile.anchor,
         profile'.binding = profile.binding, recorded' = recorded, proved \subseteq proved',
         minted'.identity = minted.identity,
         op' = op \/ (op.pc # "renames" /\ op'.pc # "renames")
  PROVE  Records'
<1>1. Sound(profile)'
  <2>1. Sound(profile) BY DEF AuthorityInv, Records
  <2> QED BY <2>1 DEF Sound, RecordKept, OneIdentity, BindingProved
<1>2. \A r \in recorded' : r[1] <= minted'.identity BY DEF AuthorityInv, Records
<1>3. Minted(profile) => (Minted(profile))' BY DEF Minted
<1>4. CASE op.pc # "renames" /\ op'.pc # "renames"
  BY <1>1, <1>2, <1>3, <1>4 DEF AuthorityInv, Records
<1>5. CASE op' = op /\ op.pc = "renames"
  <2>1. Replacing BY <1>5 DEF AuthorityInv, Records
  <2>2. (Sound(op.before) /\ Minted(op.before))'
    BY <1>5, <2>1 DEF Replacing, Sound, RecordKept, OneIdentity, BindingProved, Minted
  <2>3. Replacing' BY <1>3, <1>5, <2>1, <2>2 DEF Replacing
  <2> QED BY <1>1, <1>2, <1>5, <2>3 DEF Records
<1> QED BY <1>4, <1>5

\* Recording what the Host proved of this identity.
LEMMA RecordSound ==
  ASSUME AuthorityInv, op.pc # "renames", op'.pc # "renames",
         NEW b \in Board, profile.inputs # None,
         profile.binding \in {None, Binding(profile.inputs, b)},
         <<profile.inputs, b>> \in proved, Record(b),
         proved' = proved, minted'.identity = minted.identity
  PROVE  /\ Records' /\ profile' \in Profiles /\ recorded' \subseteq Nat \X Board
         /\ profile'.inputs = profile.inputs /\ profile'.binding = Binding(profile.inputs, b)
<1>1. /\ profile \in Profiles /\ recorded \subseteq Nat \X Board /\ minted.identity \in Nat
      /\ Sound(profile) /\ Minted(profile) /\ \A r \in recorded : r[1] <= minted.identity
  BY DEF AuthorityInv, Typed, Records
<1>2. profile.inputs \in Nat BY <1>1 DEF Profiles, Number
<1>3. Binding(profile.inputs, b) \in [identity : Nat, board : Board] BY <1>2 DEF Binding
<1>4. PICK e : e = Binding(profile.inputs, b) OBVIOUS
<1>5. PICK p : p = [profile EXCEPT !.binding = e] OBVIOUS
<1>6. /\ p \in Profiles /\ p.inputs = profile.inputs /\ p.anchor = profile.anchor /\ p.binding = e
  BY <1>1, <1>3, <1>4, <1>5 DEF Profiles
<1>7. profile' = p /\ recorded' = recorded \cup {<<profile.inputs, b>>} BY <1>4, <1>5 DEF Record
<1>8. e.identity = profile.inputs /\ e.board = b BY <1>4 DEF Binding
<1>9. p.binding # None BY <1>3, <1>4, <1>6, NothingThere
<1>10. recorded' \subseteq Nat \X Board BY <1>1, <1>2, <1>7
<1>11. RecordKept(profile)'
  <2> SUFFICES ASSUME NEW r \in recorded', r[1] \in {p.inputs, p.anchor}
               PROVE  p.binding = Binding(r[1], r[2])
    BY <1>7 DEF RecordKept, Binding
  <2>1. CASE r = <<profile.inputs, b>> BY <1>4, <1>6, <2>1
  <2>2. CASE r \in recorded
    <3>1. profile.binding = Binding(r[1], r[2]) BY <1>1, <1>6, <2>2 DEF Sound, RecordKept
    <3>2. r[1] \in Nat /\ r[2] \in Board BY <1>1, <2>2
    <3>3. Binding(r[1], r[2]) \in [identity : Nat, board : Board] BY <3>2 DEF Binding
    <3>4. profile.binding # None BY <3>1, <3>3, NothingThere
    <3> QED BY <1>4, <1>6, <3>1, <3>4
  <2> QED BY <1>7, <2>1, <2>2
<1>12. OneIdentity(profile)' BY <1>1, <1>6, <1>7 DEF Sound, OneIdentity
<1>13. BindingProved(profile)' BY <1>6, <1>7, <1>8 DEF BindingProved
<1>14. (Minted(profile))' BY <1>1, <1>6, <1>7 DEF Minted
<1>15. \A r \in recorded' : r[1] <= minted'.identity BY <1>1, <1>2, <1>7 DEF Minted
<1> QED BY <1>4, <1>6, <1>7, <1>10, <1>11, <1>12, <1>13, <1>14, <1>15 DEF Records, Sound

LEMMA RenameUndone ==
  ASSUME AuthorityInv, RenameFails
  PROVE  AuthorityInv'
<1>1. /\ UNCHANGED <<host, agent, proved, restoreStage, packages, recorded, minted>>
      /\ profile' = op.before /\ Report("failed") /\ op.pc = "renames" /\ op \in Calls
      /\ minted \in [identity : Nat, owner : Nat, state : Nat]
      /\ Replacing /\ op.cmd \in {"replace", "reset"} /\ op.board \in Board
      /\ \A r \in recorded : r[1] <= minted.identity
  BY DEF RenameFails, AuthorityInv, AtWork, Typed, Records
<1>2. SameCall /\ op'.pc = "reported" BY <1>1, CallReports
<1>3. Sound(op.before) /\ Minted(op.before) /\ op.before \in Profiles BY <1>1 DEF Replacing, Calls
<1>4. Sound(profile)' BY <1>1, <1>3 DEF Sound, RecordKept, OneIdentity, BindingProved
<1>5. (Minted(profile))' BY <1>1, <1>3 DEF Minted
<1>6. Records' BY <1>1, <1>2, <1>4, <1>5 DEF Records
<1> QED BY <1>1, <1>2, <1>3, <1>6, ProfileStep DEF SameCall

LEMMA OperatorGone ==
  ASSUME AuthorityInv, OperatorDies
  PROVE  AuthorityInv'
<1>1. /\ UNCHANGED <<host, agent, proved, restoreStage, packages, recorded, profile>>
      /\ op' = Idle /\ profile \in Profiles /\ Sound(profile)
      /\ minted \in [identity : Nat, owner : Nat, state : Nat] /\ minted.identity \in Nat
      /\ \A r \in recorded : r[1] <= minted.identity /\ r[1] \in Nat
      /\ IF op.pc = "renames" THEN Replacing ELSE Minted(profile)
  BY DEF OperatorDies, AuthorityInv, Typed, Records
<1>2. Idle \in Calls /\ Idle.pc = "idle"
  <2>1. EmptyProfile \in Profiles BY DEF EmptyProfile, Profiles, Number
  <2> QED BY <2>1 DEF Idle, Calls
<1>3. Sound(profile)' BY <1>1 DEF Sound, RecordKept, OneIdentity, BindingProved
<1>4. CASE op.pc # "renames"
  <2>1. UNCHANGED minted BY <1>4 DEF OperatorDies
  <2>2. (Minted(profile))' BY <1>1, <1>4, <2>1 DEF Minted
  <2>3. Records' BY <1>1, <1>2, <1>3, <2>1, <2>2 DEF Records
  <2> QED BY <1>1, <1>2, <2>1, <2>3, ProfileStep
<1>5. CASE op.pc = "renames"
  <2>1. minted' = [minted EXCEPT !.identity = @ + 1, !.owner = @ + 1] BY <1>5 DEF OperatorDies
  <2>2. /\ minted' \in [identity : Nat, owner : Nat, state : Nat]
        /\ minted'.identity = minted.identity + 1
    BY <1>1, <2>1, MintedMore
  <2>3. PICK m \in Nat : m = minted.identity BY <1>1
  <2>4. \A i \in {profile.inputs, profile.anchor} : i # None => i <= m + 1
    <3>1. PICK k \in 0 .. 6 : k = op.moved BY <1>1, <1>5 DEF Replacing
    <3>2. CASE k < 5
      <4>1. Minted(profile) BY <1>1, <1>5, <3>1, <3>2 DEF Replacing
      <4>2. profile.inputs \in Number /\ profile.anchor \in Number BY <1>1 DEF Profiles
      <4>3. \A i \in Nat : i <= m => i <= m + 1 OBVIOUS
      <4> QED BY <2>3, <4>1, <4>2, <4>3 DEF Minted, Number
    <3>3. CASE k \in 5 .. 6
      <4>1. profile.inputs = m + 1 /\ profile.anchor = None
        BY <1>1, <1>5, <2>3, <3>1, <3>3 DEF Replacing
      <4> QED BY <4>1
    <3> QED BY <3>2, <3>3
  <2>5. (Minted(profile))' BY <1>1, <2>2, <2>3, <2>4 DEF Minted
  <2>6. \A r \in recorded : r[1] <= m + 1 BY <1>1, <2>3
  <2>7. Records' BY <1>1, <1>2, <1>3, <2>2, <2>3, <2>5, <2>6 DEF Records
  <2> QED BY <1>1, <1>2, <2>2, <2>7, ProfileStep
<1> QED BY <1>4, <1>5

\* Only the command moves, and what was uploaded.
LEMMA CallMoves ==
  ASSUME AuthorityInv, UNCHANGED <<profile, host, packages, agent, minted, recorded, proved>>,
         restoreStage' \in [Board -> Lineages \cup {None}], op' \in Calls,
         op.pc # "renames", op'.pc # "renames",
         AtWork', Decided', Answering', UploadTakenBack'
  PROVE  AuthorityInv'
<1>1. Typed' BY DEF AuthorityInv, Typed
<1>2. Records' BY RecordsStay
<1> QED BY <1>1, <1>2, BoardsStay

LEMMA CommandStops ==
  ASSUME AuthorityInv,
         UNCHANGED <<profile, host, packages, agent, minted, recorded, proved, restoreStage>>,
         op.pc \in {"stage", "refresh", "start agent", "waits"},
         \/ op.cmd = "restore" /\ op' = [op EXCEPT !.pc = "finalize", !.answer = "failed"]
         \/ op.cmd # "restore" /\ (Report("failed") \/ Report("refused"))
  PROVE  AuthorityInv'
<1>1. /\ op \in Calls /\ op.moved = 0 /\ op.board \in Board
      /\ restoreStage \in [Board -> Lineages \cup {None}]
      /\ op.cmd = "restore" => op.lineage # None
  BY DEF AuthorityInv, Typed, AtWork, Decided
<1>2. CASE op.cmd = "restore" /\ op' = [op EXCEPT !.pc = "finalize", !.answer = "failed"]
  <2>1. SameCall /\ op'.pc = "finalize" /\ op'.answer = "failed" BY <1>1, <1>2, CallFails
  <2>2. AtWork' BY <1>1, <1>2, <2>1 DEF AtWork, SameCall
  <2>3. Decided' /\ Answering' /\ UploadTakenBack'
    BY <1>1, <1>2, <2>1 DEF Decided, Answering, UploadTakenBack, SameCall
  <2> QED BY <1>1, <2>1, <2>2, <2>3, CallMoves DEF SameCall
<1>3. CASE op.cmd # "restore" /\ (Report("failed") \/ Report("refused"))
  <2>1. SameCall /\ op'.pc = "reported" /\ op'.answer \in {"failed", "refused"}
    BY <1>1, <1>3, CallReports
  <2>2. AtWork' BY <1>1, <2>1 DEF AtWork, SameCall
  <2>3. Decided' /\ Answering' /\ UploadTakenBack'
    BY <1>3, <2>1 DEF Decided, Answering, UploadTakenBack, SameCall
  <2> QED BY <1>1, <2>1, <2>2, <2>3, CallMoves DEF SameCall
<1> QED BY <1>2, <1>3

LEMMA CommandCut ==
  ASSUME AuthorityInv, LoseAnswer \/ CommandFails
  PROVE  AuthorityInv'
<1>1. Unanswered /\ op.pc \in {"stage", "refresh", "waits"}
      /\ UNCHANGED <<profile, host, packages, agent, minted, recorded, proved, restoreStage>>
  BY DEF LoseAnswer, CommandFails
<1> QED BY <1>1, CommandStops DEF Unanswered

LEMMA InputsStaged ==
  ASSUME AuthorityInv, Stage
  PROVE  AuthorityInv'
<1>1. /\ op \in Calls /\ op.moved = 0 /\ op.board \in Board /\ op.pc = "stage"
      /\ op.cmd \in {"install", "converge"} /\ op.answer = "none"
      /\ restoreStage \in [Board -> Lineages \cup {None}]
      /\ op.lineage # None /\ profile.inputs # None
      /\ profile.binding \in {None, Binding(profile.inputs, op.board)}
  BY DEF AuthorityInv, Typed, AtWork, Decided, Stage
<1>2. UNCHANGED <<profile, host, packages, agent, minted, recorded, proved, restoreStage>>
  BY DEF Stage
<1>3. CASE op.cmd = "install"
  <2>1. SameCall /\ op'.pc = "start agent" /\ op'.answer = "none" BY <1>1, <1>3, CallGoes DEF Stage
  <2>2. AtWork' BY <1>1, <1>3, <2>1 DEF AtWork, SameCall
  <2>3. Decided' BY <1>1, <1>2, <2>1 DEF Decided, SameCall, Binding
  <2>4. Answering' /\ UploadTakenBack' BY <2>1 DEF Answering, UploadTakenBack
  <2> QED BY <1>1, <1>2, <2>1, <2>2, <2>3, <2>4, CallMoves DEF SameCall
<1>4. CASE op.cmd = "converge"
  <2>1. SameCall /\ op'.pc = "reported" BY <1>1, <1>4, CallReports DEF Stage
  <2>2. AtWork' BY <1>1, <2>1 DEF AtWork, SameCall
  <2>3. Decided' /\ Answering' /\ UploadTakenBack'
    BY <1>4, <2>1 DEF Decided, Answering, UploadTakenBack, SameCall
  <2> QED BY <1>1, <1>2, <2>1, <2>2, <2>3, CallMoves DEF SameCall
<1> QED BY <1>1, <1>3, <1>4

LEMMA UploadFinalized ==
  ASSUME AuthorityInv, Finalize
  PROVE  AuthorityInv'
<1>1. /\ op \in Calls /\ op.moved = 0 /\ op.board \in Board /\ op.pc = "finalize"
      /\ op.cmd = "restore" /\ restoreStage \in [Board -> Lineages \cup {None}]
      /\ Answering
  BY DEF AuthorityInv, Typed, AtWork, Finalize
<1>2. UNCHANGED <<profile, host, packages, agent, minted, recorded, proved>> BY DEF Finalize
<1>3. op.answer \in {"none", "ok", "failed", "refused", "cleanup unproven"} BY <1>1 DEF Calls
<1>4. ASSUME SameCall, op'.pc = "reported", op'.answer \in {op.answer, "cleanup unproven"},
             restoreStage' \in [Board -> Lineages \cup {None}],
             op'.answer # "cleanup unproven" => restoreStage'[op.board] = None
      PROVE  AuthorityInv'
  <2>1. AtWork' BY <1>1, <1>4 DEF AtWork, SameCall
  <2>2. Decided' /\ UploadTakenBack' BY <1>4 DEF Decided, UploadTakenBack, SameCall
  <2>3. Answering' BY <1>1, <1>2, <1>4 DEF Answering, SameCall, Established
  <2> QED BY <1>1, <1>2, <1>4, <2>1, <2>2, <2>3, CallMoves DEF SameCall
<1>5. CASE restoreStage' = [restoreStage EXCEPT ![op.board] = StageFinalized] /\ Report(op.answer)
  <2>1. SameCall /\ op'.pc = "reported" /\ op'.answer = op.answer BY <1>1, <1>3, <1>5, CallReports
  <2>2. restoreStage' \in [Board -> Lineages \cup {None}] /\ restoreStage'[op.board] = None
    BY <1>1, <1>5 DEF StageFinalized
  <2> QED BY <1>4, <2>1, <2>2
<1>6. CASE Report("cleanup unproven") /\ UNCHANGED restoreStage
  <2>1. SameCall /\ op'.pc = "reported" /\ op'.answer = "cleanup unproven"
    BY <1>1, <1>6, CallReports
  <2> QED BY <1>1, <1>4, <1>6, <2>1
<1> QED BY <1>5, <1>6 DEF Finalize

LEMMA PackageUploaded ==
  ASSUME AuthorityInv, Upload
  PROVE  AuthorityInv'
<1>1. /\ op \in Calls /\ op.moved = 0 /\ op.board \in Board /\ op.pc = "upload"
      /\ op.cmd = "restore" /\ op.lineage = None /\ op.answer = "none"
      /\ restoreStage \in [Board -> Lineages \cup {None}] /\ packages \subseteq Lineages
  BY DEF AuthorityInv, Typed, AtWork, Upload, Decided
<1>2. UNCHANGED <<profile, host, packages, agent, minted, recorded, proved>> BY DEF Upload
<1>3. CASE Report("refused") /\ UNCHANGED restoreStage
  <2>1. SameCall /\ op'.pc = "reported" /\ op'.answer = "refused" BY <1>1, <1>3, CallReports
  <2>2. AtWork' BY <1>1, <2>1 DEF AtWork, SameCall
  <2>3. Decided' /\ Answering' /\ UploadTakenBack'
    BY <1>1, <2>1 DEF Decided, Answering, UploadTakenBack, SameCall
  <2> QED BY <1>1, <1>2, <1>3, <2>1, <2>2, <2>3, CallMoves DEF SameCall
<1>4. ASSUME NEW package \in packages,
             restoreStage' = [restoreStage EXCEPT ![op.board] = package],
             op' = [op EXCEPT !.pc = "refresh", !.lineage = package]
      PROVE  AuthorityInv'
  <2>1. package \in Lineages BY <1>1
  <2>2. /\ op' \in Calls /\ op'.pc = "refresh" /\ op'.lineage = package /\ op'.cmd = "restore"
        /\ op'.board = op.board /\ op'.answer = "none" /\ op'.moved = 0
    BY <1>1, <1>4, <2>1 DEF Calls
  <2>3. restoreStage' \in [Board -> Lineages \cup {None}] BY <1>1, <1>4, <2>1
  <2>4. AtWork' BY <1>1, <2>2 DEF AtWork
  <2>5. Decided' /\ Answering' /\ UploadTakenBack'
    BY <2>1, <2>2, NothingThere DEF Decided, Answering, UploadTakenBack
  <2> QED BY <1>1, <1>2, <2>2, <2>3, <2>4, <2>5, CallMoves
<1> QED BY <1>3, <1>4 DEF Upload

\* A command ends, and may record what it proved on the way.
LEMMA CommandAnswered ==
  ASSUME AuthorityInv, Answered
  PROVE  AuthorityInv'
<1>1. /\ op \in Calls /\ op.moved = 0 /\ op.board \in Board /\ op.pc = "answered"
      /\ op.cmd \in {"install", "backup", "restore", "reset"} /\ profile \in Profiles
      /\ restoreStage \in [Board -> Lineages \cup {None}] /\ packages \subseteq Lineages
      /\ minted \in [identity : Nat, owner : Nat, state : Nat]
      /\ agent \in [Board -> Agents \cup {None}] /\ host \in [Board -> Hosts]
      /\ op.cmd # "reset" => op.lineage # None
      /\ op.cmd = "install" =>
           profile.inputs # None /\ profile.binding \in {None, Binding(profile.inputs, op.board)}
      /\ Answering /\ Sound(profile) /\ Minted(profile)
      /\ \A r \in recorded : r[1] <= minted.identity
  BY DEF AuthorityInv, Typed, AtWork, Answered, Decided, Records
<1>2. UNCHANGED <<host, packages, agent, minted, proved, restoreStage>> BY DEF Answered
<1>3. op.answer \in {"none", "ok", "failed", "refused", "cleanup unproven"} BY <1>1 DEF Calls
<1>4. CASE op.cmd = "restore"
  <2>1. Goto("finalize") /\ UNCHANGED <<profile, recorded>> BY <1>4 DEF Answered
  <2>2. SameCall /\ op'.pc = "finalize" /\ op'.answer = op.answer BY <1>1, <2>1, CallGoes
  <2>3. AtWork' BY <1>1, <1>4, <2>2 DEF AtWork, SameCall
  <2>4. Decided' /\ UploadTakenBack' BY <1>1, <1>4, <2>2 DEF Decided, UploadTakenBack, SameCall
  <2>5. Answering' BY <1>1, <1>2, <1>4, <2>2 DEF Answering, SameCall, Established
  <2> QED BY <1>1, <1>2, <2>1, <2>2, <2>3, <2>4, <2>5, CallMoves DEF SameCall
<1>5. CASE op.cmd = "reset" /\ op.answer = "ok"
  <2>1. op' = [op EXCEPT !.pc = "renames", !.before = profile] /\ UNCHANGED <<profile, recorded>>
    BY <1>5 DEF Answered
  <2>2. /\ op' \in Calls /\ op'.pc = "renames" /\ op'.before = profile /\ op'.cmd = "reset"
        /\ op'.board = op.board /\ op'.moved = 0
    BY <1>1, <1>5, <2>1 DEF Calls
  <2>3. Sound(profile)' /\ (Minted(profile))'
    BY <1>1, <1>2, <2>1 DEF Sound, RecordKept, OneIdentity, BindingProved, Minted
  <2>4. (Sound(op.before) /\ Minted(op.before))'
    BY <1>1, <1>2, <2>1, <2>2 DEF Sound, RecordKept, OneIdentity, BindingProved, Minted
  <2>5. Replacing'
    <3>1. op'.moved \in 0 .. 6 BY <2>2
    <3> QED BY <2>2, <2>3, <2>4, <3>1 DEF Replacing
  <2>6. Records' BY <1>1, <1>2, <2>1, <2>2, <2>3, <2>5 DEF Records
  <2> QED BY <1>1, <1>2, <2>1, <2>2, <2>6, ProfileStep
<1>6. CASE op.cmd = "install" /\ op.answer = "ok" /\ RecordsDelivery(op.decision)
  <2>1. Report(op.answer) /\ Record(op.board) BY <1>6 DEF Answered, Confirmed
  <2>2. SameCall /\ op'.pc = "reported" /\ op'.answer = "ok" BY <1>1, <1>3, <1>6, <2>1, CallReports
  <2>3. <<profile.inputs, op.board>> \in proved BY <1>1, <1>6 DEF Answering
  <2>4. Records' /\ profile' \in Profiles /\ recorded' \subseteq Nat \X Board
    <3>1. op.pc # "renames" /\ op'.pc # "renames" BY <1>1, <2>2
    <3>2. minted'.identity = minted.identity BY <1>2
    <3>3. profile.inputs # None /\ profile.binding \in {None, Binding(profile.inputs, op.board)}
      BY <1>1, <1>6
    <3> QED BY <1>1, <1>2, <2>1, <2>3, <3>1, <3>2, <3>3, RecordSound
  <2>5. Typed' BY <1>1, <1>2, <2>2, <2>4 DEF Typed, SameCall
  <2>6. AtWork' BY <1>1, <2>2 DEF AtWork, SameCall
  <2>7. Decided' /\ UploadTakenBack' BY <1>6, <2>2 DEF Decided, UploadTakenBack, SameCall
  <2>8. Answering' BY <1>1, <1>2, <1>6, <2>2 DEF Answering, SameCall, Established
  <2> QED BY <1>2, <2>4, <2>5, <2>6, <2>7, <2>8, BoardsStay
<1>7. CASE /\ op.cmd # "restore" /\ ~(op.cmd = "reset" /\ op.answer = "ok")
           /\ ~(op.cmd = "install" /\ op.answer = "ok" /\ RecordsDelivery(op.decision))
  <2>1. Report(op.answer) /\ UNCHANGED <<profile, recorded>> BY <1>7 DEF Answered, Confirmed
  <2>2. SameCall /\ op'.pc = "reported" /\ op'.answer = op.answer BY <1>1, <1>3, <2>1, CallReports
  <2>3. AtWork' BY <1>1, <2>2 DEF AtWork, SameCall
  <2>4. Decided' /\ UploadTakenBack' BY <1>7, <2>2 DEF Decided, UploadTakenBack, SameCall
  <2>5. Answering' BY <1>1, <1>2, <2>2 DEF Answering, SameCall, Established
  <2> QED BY <1>1, <1>2, <2>1, <2>2, <2>3, <2>4, <2>5, CallMoves DEF SameCall
<1> QED BY <1>4, <1>5, <1>6, <1>7

\* What a situation an operation goes on in says of the board and the profile.
LEMMA SituationIs ==
  ASSUME AuthorityInv, NEW b \in Board, NEW d,
         d = Decide(host[b], b, profile.owner), profile.inputs # None,
         d \in {"first install", "continue", "adopt delivery"}
  PROVE  /\ profile.binding \in {None, Binding(profile.inputs, b)}
         /\ d # "first install" => Established(host[b]) # None
         /\ d = "adopt delivery" => <<profile.inputs, b>> \in proved
<1>1. Working(b) BY DEF AuthorityInv
<1>2. host[b].marker = host[b].anchor BY DEF Decide
<1>3. CASE profile.binding # None
  <2>1. profile.binding = Binding(profile.inputs, b) /\ host[b].marker # None /\ d = "continue"
    BY <1>2, <1>3 DEF Decide
  <2> QED BY <1>2, <2>1 DEF Established
<1>4. CASE profile.binding = None
  <2>1. CASE host[b].marker = None
    <3>1. d = "first install" BY <1>2, <1>4, <2>1 DEF Decide
    <3> QED BY <1>4, <3>1
  <2>2. CASE host[b].marker # None
    <3>1. d = "adopt delivery" /\ host[b].identity = profile.inputs BY <1>2, <1>4, <2>2 DEF Decide
    <3>2. Established(host[b]) # None BY <1>2, <2>2 DEF Established
    <3>3. <<profile.inputs, b>> \in proved BY <1>1, <3>1, <3>2 DEF Working
    <3> QED BY <1>4, <3>2, <3>3
  <2> QED BY <2>1, <2>2
<1> QED BY <1>3, <1>4

LEMMA SituationObserved ==
  ASSUME AuthorityInv, Observe
  PROVE  AuthorityInv'
<1> DEFINE h == host[op.board]
           decision == Decide(h, op.board, profile.owner)
           fresh == op.cmd = "install" /\ decision = "first install"
<1>1. /\ op \in Calls /\ op.moved = 0 /\ op.board \in Board /\ op.pc = "observe"
      /\ op.cmd \in {"install", "converge", "trust", "backup"} /\ op.answer = "none"
      /\ profile \in Profiles /\ host \in [Board -> Hosts]
      /\ restoreStage \in [Board -> Lineages \cup {None}] /\ packages \subseteq Lineages
      /\ minted \in [identity : Nat, owner : Nat, state : Nat]
      /\ agent \in [Board -> Agents \cup {None}] /\ recorded \subseteq Nat \X Board
  BY DEF AuthorityInv, Typed, AtWork, Observe
<1>2. UNCHANGED <<host, restoreStage, packages, agent, proved>> BY DEF Observe
<1>3. CASE profile.inputs = None \/ ~Proceeds(decision)
  <2>1. Report("refused") /\ UNCHANGED <<profile, recorded, minted>> BY <1>3 DEF Observe
  <2>2. SameCall /\ op'.pc = "reported" /\ op'.answer = "refused" BY <1>1, <2>1, CallReports
  <2>3. AtWork' BY <1>1, <2>2 DEF AtWork, SameCall
  <2>4. Decided' /\ Answering' /\ UploadTakenBack'
    BY <1>1, <2>2 DEF Decided, Answering, UploadTakenBack, SameCall
  <2> QED BY <1>1, <1>2, <2>1, <2>2, <2>3, <2>4, CallMoves DEF SameCall
<1>4. CASE profile.inputs # None /\ Proceeds(decision)
  <2>1. PICK d : d = decision OBVIOUS
  <2>2. /\ d \in {"first install", "continue", "adopt delivery"}
        /\ d = "first install" => op.cmd = "install"
    BY <1>1, <1>4, <2>1 DEF Proceeds, HostEstablished
  <2>3. /\ profile.binding \in {None, Binding(profile.inputs, op.board)}
        /\ d # "first install" => Established(h) # None
        /\ d = "adopt delivery" => <<profile.inputs, op.board>> \in proved
    BY <1>1, <1>4, <2>1, <2>2, SituationIs
  <2>4. profile.owner \in Nat
    <3>1. profile.owner # None BY <1>4 DEF Observe
    <3> QED BY <1>1, <3>1 DEF Profiles, Number
  <2>5. minted' = [minted EXCEPT !.state = IF fresh THEN @ + 1 ELSE @] BY <1>4 DEF Observe
  <2>6. /\ minted' \in [identity : Nat, owner : Nat, state : Nat]
        /\ minted'.identity = minted.identity
    <3>1. CASE fresh
      <4>1. minted' = [minted EXCEPT !.state = @ + 1] BY <2>5, <3>1
      <4> QED BY <1>1, <4>1, MintedMore
    <3>2. CASE ~fresh
      <4>1. minted' = minted BY <1>1, <2>5, <3>2
      <4> QED BY <1>1, <4>1
    <3> QED BY <3>1, <3>2
  <2>7. PICK l : l = IF fresh THEN Lineage(profile.owner, minted'.state) ELSE Established(h) OBVIOUS
  <2>8. l \in Lineages
    <3>1. PICK s \in Nat : s = minted'.state BY <2>6
    <3>2. Lineage(profile.owner, s) \in Lineages BY <2>4, <3>1 DEF Lineage, Lineages
    <3>3. Established(h) \in Lineages \cup {None} BY <1>1 DEF Established, Hosts
    <3>4. CASE fresh BY <2>7, <3>1, <3>2, <3>4
    <3>5. CASE ~fresh
      <4>1. d # "first install" BY <2>1, <2>2, <3>5
      <4> QED BY <2>3, <2>7, <3>3, <3>5, <4>1
    <3> QED BY <3>4, <3>5
  <2>9. PICK pc : pc = IF op.cmd = "trust" THEN "reported" ELSE After[op.cmd] OBVIOUS
  <2>10. /\ pc \in {"reported", "stage", "start agent"}
         /\ pc = "reported" <=> op.cmd = "trust"
         /\ pc = "start agent" <=> op.cmd = "backup"
         /\ pc = "stage" => op.cmd \in {"install", "converge"}
    <3>1. CASE op.cmd = "install" BY <2>9, <3>1 DEF After
    <3>2. CASE op.cmd = "converge" BY <2>9, <3>2 DEF After
    <3>3. CASE op.cmd = "trust" BY <2>9, <3>3
    <3>4. CASE op.cmd = "backup"
      <4>1. After["backup"] = "start agent" BY DEF After
      <4>2. pc = "start agent" BY <2>9, <3>4, <4>1
      <4> QED BY <3>4, <4>2
    <3> QED BY <1>1, <3>1, <3>2, <3>3, <3>4
  <2>11. PICK a \in {"ok", "none"} : a = IF op.cmd = "trust" THEN "ok" ELSE op.answer BY <1>1
  <2>12. op' = [op EXCEPT !.pc = pc, !.answer = a, !.decision = d, !.lineage = l]
    <3>1. op' = [op EXCEPT
               !.pc = IF op.cmd = "trust" THEN "reported" ELSE After[op.cmd],
               !.answer = IF op.cmd = "trust" THEN "ok" ELSE @,
               !.decision = decision,
               !.lineage = IF fresh THEN Lineage(profile.owner, minted'.state) ELSE Established(h)]
      BY <1>4 DEF Observe
    <3> HIDE DEF decision, fresh, h
    <3> QED BY <2>1, <2>7, <2>9, <2>11, <3>1
  <2>13. /\ op' \in Calls /\ op'.pc = pc /\ op'.answer = a /\ op'.lineage = l
         /\ op'.cmd = op.cmd /\ op'.board = op.board /\ op'.moved = 0
    BY <1>1, <2>2, <2>8, <2>10, <2>11, <2>12 DEF Calls
  <2>14. /\ Records' /\ profile' \in Profiles /\ recorded' \subseteq Nat \X Board
         /\ profile'.inputs = profile.inputs
         /\ profile'.binding \in {None, Binding(profile.inputs, op.board)}
    <3>0. op.pc # "renames" /\ op'.pc # "renames" BY <1>1, <2>10, <2>13
    <3>1. CASE RecordsOnProof(decision)
      <4>1. Record(op.board) BY <1>4, <3>1 DEF Observe
      <4>2. <<profile.inputs, op.board>> \in proved BY <2>1, <2>3, <3>1 DEF RecordsOnProof
      <4> HIDE DEF decision, fresh, h
      <4> QED BY <1>1, <1>2, <1>4, <2>3, <2>6, <3>0, <4>1, <4>2, RecordSound
    <3>2. CASE ~RecordsOnProof(decision)
      <4>1. UNCHANGED <<profile, recorded>> BY <1>4, <3>2 DEF Observe
      <4>2. Records' BY <1>2, <2>6, <3>0, <4>1, RecordsStay
      <4> QED BY <1>1, <2>3, <4>1, <4>2
    <3> QED BY <3>1, <3>2
  <2>15. Typed' BY <1>1, <1>2, <2>6, <2>13, <2>14 DEF Typed
  <2>16. AtWork'
    <3>1. pc # "reported" => a = "none" BY <1>1, <2>10, <2>11
    <3> QED BY <1>1, <2>10, <2>13, <3>1 DEF AtWork
  <2>17. Decided' BY <1>4, <2>8, <2>10, <2>13, <2>14, NothingThere DEF Decided, Binding
  <2>18. Answering' /\ UploadTakenBack' BY <1>1, <2>10, <2>13 DEF Answering, UploadTakenBack
  <2> QED BY <1>2, <2>14, <2>15, <2>16, <2>17, <2>18, BoardsStay
<1> QED BY <1>3, <1>4

(***************************************************************************)
(* What is written on a board.                                             *)
(***************************************************************************)
LEMMA HostWritten ==
  ASSUME Typed, NEW b \in Board, NEW h \in Hosts, SetHost(b, h)
  PROVE  /\ host' \in [Board -> Hosts] /\ host'[b] = h
         /\ \A c \in Board : c # b => host'[c] = host[c]
         /\ proved \subseteq proved'
         /\ Established(h) # None => <<h.identity, b>> \in proved'
BY DEF Typed, SetHost

\* A step that writes to one board and leaves no agent at work there but one
\* that says so.
LEMMA BoardMoves ==
  ASSUME AuthorityInv, NEW b \in Board,
         \A c \in Board \ {b} : host'[c] = host[c] /\ agent'[c] = agent[c],
         proved \subseteq proved', Working(b)',
         Typed', Records', AtWork', Decided', Answering', UploadTakenBack'
  PROVE  AuthorityInv'
<1>1. ASSUME NEW c \in Board, c # b PROVE Working(c)'
  <2>1. Working(c) BY DEF AuthorityInv
  <2> QED BY <1>1, <2>1, WorkingStays
<1>2. \A c \in Board : Working(c)' BY <1>1
<1> QED BY <1>2 DEF AuthorityInv

LEMMA AgentStarted ==
  ASSUME AuthorityInv, StartAgent
  PROVE  AuthorityInv'
<1>0. PICK b \in Board : b = op.board BY DEF AuthorityInv, AtWork, StartAgent
<1>1. /\ op \in Calls /\ op.moved = 0 /\ op.pc = "start agent"
      /\ op.cmd \in {"install", "backup", "restore", "reset"} /\ op.answer = "none"
      /\ profile \in Profiles /\ host \in [Board -> Hosts]
      /\ restoreStage \in [Board -> Lineages \cup {None}] /\ packages \subseteq Lineages
      /\ minted \in [identity : Nat, owner : Nat, state : Nat]
      /\ agent \in [Board -> Agents \cup {None}] /\ recorded \subseteq Nat \X Board
      /\ op.cmd # "reset" => op.lineage # None
      /\ op.cmd = "install" =>
           profile.inputs # None /\ profile.binding \in {None, Binding(profile.inputs, b)}
      /\ Working(b)
  BY <1>0 DEF AuthorityInv, Typed, AtWork, StartAgent, Decided
<1>2. UNCHANGED <<profile, host, restoreStage, packages, minted, recorded, proved>> BY DEF StartAgent
<1>3. CASE agent[b] = None /\ Prepared(b)
  <2>1. agent' = [agent EXCEPT ![b] =
               [kind |-> op.cmd, at |-> FirstAgentStep[op.cmd], inputs |-> Inputs]] /\ Goto("waits")
    BY <1>0, <1>3 DEF StartAgent
  <2>2. SameCall /\ op'.pc = "waits" /\ op'.answer = "none" BY <1>1, <2>1, CallGoes
  <2>3. PICK i : i = Inputs OBVIOUS
  <2>4. i \in Staged /\ i.lineage = op.lineage /\ Inputs' = i
    <3>1. profile.inputs \in Number /\ op.lineage \in Lineages \cup {None}
      BY <1>1 DEF Profiles, Calls
    <3>2. Inputs' = Inputs BY <1>2, <2>2 DEF Inputs, SameCall
    <3> QED BY <2>3, <3>1, <3>2 DEF Inputs, Staged
  <2>5. PICK at : at = FirstAgentStep[op.cmd] OBVIOUS
  <2>6. /\ op.cmd = "install" <=> at = "begin"
        /\ op.cmd = "backup" <=> at = "capture"
        /\ op.cmd = "restore" <=> at = "database"
        /\ op.cmd = "reset" <=> at = "deployment"
        /\ at \in {"begin", "capture", "database", "deployment"}
    <3>1. CASE op.cmd = "install" BY <2>5, <3>1 DEF FirstAgentStep
    <3>2. CASE op.cmd = "backup" BY <2>5, <3>2 DEF FirstAgentStep
    <3>3. CASE op.cmd = "restore" BY <2>5, <3>3 DEF FirstAgentStep
    <3>4. CASE op.cmd = "reset" BY <2>5, <3>4 DEF FirstAgentStep
    <3> QED BY <1>1, <3>1, <3>2, <3>3, <3>4
  <2>7. PICK a : a = [kind |-> op.cmd, at |-> at, inputs |-> i] OBVIOUS
  <2>8. a \in Agents /\ a.kind = op.cmd /\ a.at = at /\ a.inputs = i
    BY <1>1, <2>4, <2>6, <2>7 DEF Agents
  <2>9. agent' = [agent EXCEPT ![b] = a] BY <2>1, <2>3, <2>5, <2>7
  <2>10. /\ agent' \in [Board -> Agents \cup {None}] /\ agent'[b] = a /\ a # None
         /\ \A c \in Board \ {b} : agent'[c] = agent[c]
    BY <1>1, <2>8, <2>9, NothingThere
  <2>11. Typed' BY <1>1, <1>2, <2>2, <2>10 DEF AuthorityInv, Typed, SameCall
  <2>12. Records' BY <1>1, <1>2, <2>2, RecordsStay
  <2>13. AtWork' BY <1>0, <1>1, <2>2 DEF AtWork, SameCall
  <2>14. Decided' /\ UploadTakenBack' BY <1>0, <1>1, <1>2, <2>2 DEF Decided, UploadTakenBack, SameCall, Binding
  <2>15. Answering' BY <1>0, <1>1, <2>2, <2>4, <2>8, <2>10 DEF Answering, SameCall
  <2>16. Working(b)'
    <3>1. (Established(host[b]))' = Established(host[b]) BY <1>2 DEF Established
    <3>2. host'[b] = host[b] /\ proved' = proved BY <1>2
    <3> QED BY <1>1, <2>4, <2>6, <2>8, <2>10, <3>1, <3>2 DEF Working
  <2> QED BY <1>1, <1>2, <2>10, <2>11, <2>12, <2>13, <2>14, <2>15, <2>16, BoardMoves
<1>4. CASE ~(agent[b] = None /\ Prepared(b))
  <2>1. IF op.cmd = "restore" THEN op' = [op EXCEPT !.pc = "finalize", !.answer = "failed"]
        ELSE Report("refused")
    BY <1>0, <1>4 DEF StartAgent
  <2>2. UNCHANGED agent BY <1>0, <1>4 DEF StartAgent
  <2> QED BY <1>1, <1>2, <2>1, <2>2, CommandStops
<1> QED BY <1>3, <1>4

LEMMA HostRefreshed ==
  ASSUME AuthorityInv, Refresh
  PROVE  AuthorityInv'
<1>0. PICK b \in Board : b = op.board BY DEF AuthorityInv, AtWork, Refresh
<1>1. /\ op \in Calls /\ op.moved = 0 /\ op.pc = "refresh"
      /\ op.cmd = "restore" /\ op.answer = "none" /\ Typed
      /\ profile \in Profiles /\ host \in [Board -> Hosts]
      /\ restoreStage \in [Board -> Lineages \cup {None}] /\ packages \subseteq Lineages
      /\ minted \in [identity : Nat, owner : Nat, state : Nat]
      /\ agent \in [Board -> Agents \cup {None}] /\ recorded \subseteq Nat \X Board
      /\ op.lineage # None /\ Working(b)
  BY <1>0 DEF AuthorityInv, Typed, AtWork, Refresh, Decided
<1>2. UNCHANGED <<restoreStage, packages, agent, minted, recorded>> /\ Goto("start agent")
  BY DEF Refresh
<1>3. SameCall /\ op'.pc = "start agent" /\ op'.answer = "none" BY <1>1, <1>2, CallGoes
<1>4. op.lineage \in Lineages /\ op.lineage.owner \in Nat BY <1>1 DEF Calls, Lineages
<1>5. PICK p : p = [profile EXCEPT !.owner = op.lineage.owner] OBVIOUS
<1>6. /\ p \in Profiles /\ p.inputs = profile.inputs /\ p.anchor = profile.anchor
      /\ p.binding = profile.binding
  BY <1>1, <1>4, <1>5 DEF Profiles, Number
<1>7. profile' = p BY <1>5 DEF Refresh
<1>8. PICK d : d = [owner |-> op.lineage.owner, names |-> profile.inputs] OBVIOUS
<1>9. PICK t : t = [lineage |-> op.lineage, pending |-> FALSE] OBVIOUS
<1>10. PICK h : h = [host[b] EXCEPT !.directory = d, !.ticket = t] OBVIOUS
<1>11. d \in [owner : Nat, names : Number] /\ t \in [lineage : Lineages \cup {None}, pending : BOOLEAN]
  BY <1>1, <1>4, <1>8, <1>9 DEF Profiles
<1>12. /\ h \in Hosts /\ h.marker = host[b].marker /\ h.anchor = host[b].anchor
       /\ h.identity = host[b].identity /\ h.journal = host[b].journal
  <2>1. host[b] \in Hosts BY <1>1
  <2> QED BY <1>10, <1>11, <2>1 DEF Hosts
<1>13. SetHost(b, h) BY <1>0, <1>8, <1>9, <1>10 DEF Refresh
<1>14. /\ host' \in [Board -> Hosts] /\ host'[b] = h
       /\ \A c \in Board : c # b => host'[c] = host[c]
       /\ proved \subseteq proved'
  <2> QED BY <1>1, <1>12, <1>13, HostWritten
<1>15. Typed' BY <1>1, <1>2, <1>3, <1>6, <1>7, <1>14 DEF Typed, SameCall
<1>16. Records' BY <1>1, <1>2, <1>3, <1>6, <1>7, <1>14, RecordsStay
<1>17. AtWork' BY <1>0, <1>1, <1>3 DEF AtWork, SameCall
<1>18. Decided' /\ UploadTakenBack' /\ Answering'
  BY <1>1, <1>3 DEF Decided, UploadTakenBack, Answering, SameCall
<1>19. Established(h) = Established(host[b]) BY <1>12 DEF Established
<1>20. Working(b)'
  <2>1. agent'[b] = agent[b] BY <1>2
  <2>2. (Established(host[b]))' = Established(host[b]) BY <1>14, <1>19 DEF Established
  <2> QED BY <1>1, <1>12, <1>14, <2>1, <2>2 DEF Working
<1> QED BY <1>1, <1>2, <1>14, <1>15, <1>16, <1>17, <1>18, <1>20, BoardMoves

(***************************************************************************)
(* The steps of the agents on the boards.                                  *)
(***************************************************************************)
LEMMA AgentAt ==
  ASSUME AuthorityInv, NEW b \in Board, agent[b] # None,
         NEW at \in {"begin", "inputs", "start", "capture", "database", "anchor", "prove",
                     "deployment", "authority"},
         Steps(b, at)
  PROVE  /\ op' = op /\ agent' \in [Board -> Agents \cup {None}]
         /\ agent'[b] # None /\ agent'[b].kind = agent[b].kind /\ agent'[b].at = at
         /\ agent'[b].inputs = agent[b].inputs
         /\ \A c \in Board \ {b} : agent'[c] = agent[c]
<1>1. agent \in [Board -> Agents \cup {None}] BY DEF AuthorityInv, Typed
<1>2. agent[b] \in Agents BY <1>1
<1>3. PICK a : a = [agent[b] EXCEPT !.at = at] OBVIOUS
<1>4. a \in Agents /\ a.kind = agent[b].kind /\ a.at = at /\ a.inputs = agent[b].inputs
  BY <1>2, <1>3 DEF Agents
<1>5. agent' = [agent EXCEPT ![b] = a] /\ op' = op BY <1>3 DEF Steps
<1> QED BY <1>1, <1>4, <1>5, NothingThere

LEMMA AgentSteps ==
  ASSUME AuthorityInv, NEW b \in Board, agent[b] # None,
         NEW at \in {"begin", "inputs", "start", "capture", "database", "anchor", "prove",
                     "deployment", "authority"},
         Steps(b, at), UNCHANGED <<profile, restoreStage, packages, minted, recorded>>,
         host' \in [Board -> Hosts], \A c \in Board : c # b => host'[c] = host[c],
         proved \subseteq proved', Working(b)'
  PROVE  AuthorityInv'
<1>1. /\ op' = op /\ agent' \in [Board -> Agents \cup {None}]
      /\ agent'[b] # None /\ agent'[b].kind = agent[b].kind
      /\ agent'[b].inputs = agent[b].inputs
      /\ \A c \in Board \ {b} : agent'[c] = agent[c]
  BY AgentAt
<1>2. Typed' BY <1>1 DEF AuthorityInv, Typed
<1>3. Records' BY <1>1, RecordsStay
<1>4. AtWork' BY <1>1 DEF AuthorityInv, AtWork
<1>5. Decided' /\ UploadTakenBack' BY <1>1 DEF AuthorityInv, Decided, UploadTakenBack, Binding
<1>6. Answering'
  <2>1. AtWork /\ Answering BY DEF AuthorityInv
  <2>2. Inputs' = Inputs BY <1>1 DEF Inputs
  <2>3. op.pc = "waits" =>
          agent'[op.board] # None /\ agent'[op.board].kind = op.cmd
          /\ agent'[op.board].inputs = Inputs
    BY <1>1, <2>1 DEF AtWork, Answering
  <2>4. op.pc \in {"answered", "finalize", "reported"} /\ op.answer = "ok"
        /\ op.cmd \in {"install", "backup", "restore"} =>
          /\ agent'[op.board] = None /\ op.lineage # None
          /\ Established(host[op.board]) = op.lineage /\ host'[op.board] = host[op.board]
          /\ op.cmd = "backup" => op.lineage \in packages
    BY <1>1, <2>1 DEF AtWork, Answering
  <2>5. op.pc = "answered" /\ op.answer = "ok" /\ op.cmd = "install" =>
          <<profile.inputs, op.board>> \in proved'
    BY <2>1 DEF Answering
  <2>6. op.pc \in {"answered", "finalize", "reported"} /\ op.answer = "ok"
        /\ op.cmd \in {"install", "backup", "restore"} =>
          (Established(host[op.board]))' = op.lineage
    BY <1>1, <2>4 DEF Established
  <2> QED BY <1>1, <2>2, <2>3, <2>4, <2>5, <2>6 DEF Answering
<1> QED BY <1>1, <1>2, <1>3, <1>4, <1>5, <1>6, BoardMoves

LEMMA EndsAt ==
  ASSUME AuthorityInv, NEW b \in Board, agent[b] # None, NEW answer \in {"ok", "failed"},
         Ends(b, answer)
  PROVE  /\ agent' \in [Board -> Agents \cup {None}] /\ agent'[b] = None
         /\ \A c \in Board \ {b} : agent'[c] = agent[c]
         /\ op' \in Calls
         /\ \/ op' = op /\ ~(op.board = b /\ op.pc = "waits")
            \/ /\ op.board = b /\ op.pc = "waits" /\ op'.pc = "answered" /\ op'.answer = answer
               /\ op'.cmd = op.cmd /\ op'.board = op.board /\ op'.decision = op.decision
               /\ op'.lineage = op.lineage /\ op'.moved = op.moved
<1>1. agent \in [Board -> Agents \cup {None}] /\ op \in Calls BY DEF AuthorityInv, Typed
<1>2. CASE op.board = b /\ op.pc = "waits"
  <2>1. op' = [op EXCEPT !.pc = "answered", !.answer = answer] BY <1>2 DEF Ends
  <2>2. /\ op' \in Calls /\ op'.pc = "answered" /\ op'.answer = answer
        /\ op'.cmd = op.cmd /\ op'.board = op.board /\ op'.decision = op.decision
        /\ op'.lineage = op.lineage /\ op'.moved = op.moved
    BY <1>1, <2>1 DEF Calls
  <2> QED BY <1>1, <1>2, <2>2 DEF Ends
<1>3. CASE ~(op.board = b /\ op.pc = "waits") BY <1>1, <1>3 DEF Ends
<1> QED BY <1>2, <1>3

\* An agent that ends well leaves the board as its command is told.
LEMMA AgentEnds ==
  ASSUME AuthorityInv, NEW b \in Board, agent[b] # None, NEW answer \in {"ok", "failed"},
         Ends(b, answer), UNCHANGED <<profile, minted, recorded>>,
         restoreStage' \in [Board -> Lineages \cup {None}],
         \A c \in Board : restoreStage'[c] \in {None, restoreStage[c]},
         packages \subseteq packages', packages' \subseteq Lineages,
         host' \in [Board -> Hosts], \A c \in Board : c # b => host'[c] = host[c],
         proved \subseteq proved', 
         (Established(host[b]))' # None => <<host'[b].identity, b>> \in proved',
         host'[b].journal # None /\ host'[b].journal.completed =>
           host'[b].identity = host'[b].journal.inputs.identity,
         answer = "ok" /\ agent[b].kind # "reset" =>
           (Established(host[b]))' = agent[b].inputs.lineage,
         answer = "ok" /\ agent[b].kind = "backup" => agent[b].inputs.lineage \in packages',
         answer = "ok" /\ agent[b].kind = "install" => <<agent[b].inputs.identity, b>> \in proved'
  PROVE  AuthorityInv'
<1>1. /\ agent' \in [Board -> Agents \cup {None}] /\ agent'[b] = None
      /\ \A c \in Board \ {b} : agent'[c] = agent[c]
      /\ op' \in Calls
  BY EndsAt
<1>2. Working(b)' BY <1>1 DEF Working
<1>3. Typed' BY <1>1 DEF AuthorityInv, Typed
<1>4. AtWork /\ Decided /\ Answering /\ UploadTakenBack BY DEF AuthorityInv
<1>5. CASE op' = op /\ ~(op.board = b /\ op.pc = "waits")
  <2>1. Records' BY <1>5, RecordsStay
  <2>2. AtWork' BY <1>4, <1>5 DEF AtWork
  <2>3. Decided' BY <1>4, <1>5 DEF Decided, Binding
  <2>4. UploadTakenBack' BY <1>4, <1>5 DEF UploadTakenBack, AtWork
  <2>5. Answering'
    <3>1. Inputs' = Inputs BY <1>5 DEF Inputs
    <3>2. op.pc = "waits" =>
            agent'[op.board] # None /\ agent'[op.board].kind = op.cmd
            /\ agent'[op.board].inputs = Inputs
      BY <1>1, <1>4, <1>5 DEF AtWork, Answering
    <3>3. op.pc \in {"answered", "finalize", "reported"} /\ op.answer = "ok"
          /\ op.cmd \in {"install", "backup", "restore"} =>
            /\ agent'[op.board] = None /\ op.lineage # None
            /\ Established(host[op.board]) = op.lineage /\ host'[op.board] = host[op.board]
            /\ op.cmd = "backup" => op.lineage \in packages'
      BY <1>1, <1>4 DEF AtWork, Answering
    <3>4. op.pc = "answered" /\ op.answer = "ok" /\ op.cmd = "install" =>
            <<profile.inputs, op.board>> \in proved'
      BY <1>4 DEF Answering
    <3>5. op.pc \in {"answered", "finalize", "reported"} /\ op.answer = "ok"
          /\ op.cmd \in {"install", "backup", "restore"} =>
            (Established(host[op.board]))' = op.lineage
      BY <1>5, <3>3 DEF Established
    <3> QED BY <1>5, <3>1, <3>2, <3>3, <3>4, <3>5 DEF Answering
  <2> QED BY <1>1, <1>2, <1>3, <2>1, <2>2, <2>3, <2>4, <2>5, BoardMoves
<1>6. CASE /\ op.board = b /\ op.pc = "waits" /\ op'.pc = "answered" /\ op'.answer = answer
           /\ op'.cmd = op.cmd /\ op'.board = op.board /\ op'.decision = op.decision
           /\ op'.lineage = op.lineage /\ op'.moved = op.moved
  <2>1. op.pc # "renames" /\ op'.pc # "renames" BY <1>6
  <2>2. Records' BY <2>1, RecordsStay
  <2>3. AtWork' BY <1>4, <1>6 DEF AtWork
  <2>4. Decided' BY <1>4, <1>6 DEF Decided, Binding
  <2>5. UploadTakenBack' BY <1>6 DEF UploadTakenBack
  <2>6. agent[b].kind = op.cmd /\ agent[b].inputs = Inputs BY <1>4, <1>6 DEF Answering
  <2>7. Inputs.lineage = op.lineage /\ Inputs.identity = profile.inputs BY DEF Inputs
  <2>8. op.cmd # "reset" => op.lineage # None BY <1>4, <1>6 DEF Decided
  <2>9. Answering' BY <1>1, <1>6, <2>6, <2>7, <2>8 DEF Answering
  <2> QED BY <1>1, <1>2, <1>3, <2>2, <2>3, <2>4, <2>5, <2>9, BoardMoves
<1> QED BY <1>5, <1>6, EndsAt

LEMMA AgentIs ==
  ASSUME AuthorityInv, NEW b \in Board, agent[b] # None
  PROVE  /\ agent[b] \in Agents /\ agent[b].inputs \in Staged /\ host[b] \in Hosts /\ Typed
         /\ host \in [Board -> Hosts] /\ packages \subseteq Lineages
         /\ restoreStage \in [Board -> Lineages \cup {None}] /\ Working(b)
BY DEF AuthorityInv, Typed, Agents

LEMMA InstallBegins ==
  ASSUME AuthorityInv, NEW b \in Board, Begin(b)
  PROVE  AuthorityInv'
<1> DEFINE a == agent[b]
           h == host[b]
<1>1. /\ a # None /\ a.at = "begin" /\ a.kind = "install" /\ a.inputs \in Staged /\ Typed
      /\ h \in Hosts /\ host \in [Board -> Hosts] /\ a.inputs.lineage # None
      /\ UNCHANGED <<profile, restoreStage, packages, minted, recorded>>
      /\ restoreStage \in [Board -> Lineages \cup {None}] /\ packages \subseteq Lineages
      /\ Working(b)
  <2>1. a # None /\ a.at = "begin" BY DEF Begin
  <2>2. Working(b) BY DEF AuthorityInv
  <2>3. a.kind = "install" /\ a.inputs.lineage # None BY <2>1, <2>2 DEF Working
  <2> QED BY <2>1, <2>3, AgentIs DEF Begin, AgentOnly
<1>2. CASE h.journal = None /\ h = EmptyHost
  <2>1. PICK j : j = [inputs |-> a.inputs, completed |-> FALSE] OBVIOUS
  <2>2. PICK n : n = [h EXCEPT !.journal = j] OBVIOUS
  <2>3. j \in [inputs : Staged, completed : BOOLEAN] /\ j.inputs = a.inputs /\ j.completed = FALSE
    BY <1>1, <2>1
  <2>4. SetHost(b, n) /\ Steps(b, "inputs") BY <1>2, <2>1, <2>2 DEF Begin
  <2>5. n \in Hosts /\ n.journal = j /\ n.marker = None /\ n.anchor = None
    <3>1. h.marker = None /\ h.anchor = None BY <1>2 DEF EmptyHost
    <3> HIDE DEF h
    <3> QED BY <1>1, <2>2, <2>3, <3>1 DEF Hosts
  <2>6. /\ host' \in [Board -> Hosts] /\ host'[b] = n
        /\ \A c \in Board : c # b => host'[c] = host[c]
        /\ proved \subseteq proved'
    BY <1>1, <2>4, <2>5, HostWritten
  <2>7. /\ agent'[b] # None /\ agent'[b].kind = a.kind /\ agent'[b].at = "inputs"
        /\ agent'[b].inputs = a.inputs
    BY <1>1, <2>4, AgentAt
  <2>8. Working(b)' BY <1>1, <2>3, <2>5, <2>6, <2>7, NothingThere DEF Working, Established
  <2> QED BY <1>1, <2>4, <2>6, <2>8, AgentSteps
<1>3. CASE /\ ~(h.journal = None /\ h = EmptyHost)
           /\ h.journal # None /\ h.journal.inputs = a.inputs /\ ~h.journal.completed
  <2>1. UNCHANGED <<host, proved>> /\ Steps(b, "inputs") BY <1>3 DEF Begin
  <2>2. /\ agent'[b] # None /\ agent'[b].kind = a.kind /\ agent'[b].at = "inputs"
        /\ agent'[b].inputs = a.inputs
    BY <1>1, <2>1, AgentAt
  <2>3. Working(b)' BY <1>1, <1>3, <2>1, <2>2 DEF Working, Established
  <2> QED BY <1>1, <2>1, <2>3, AgentSteps
<1>4. CASE /\ ~(h.journal = None /\ h = EmptyHost)
           /\ h.journal # None /\ h.journal.inputs = a.inputs /\ h.journal.completed
  <2>1. UNCHANGED <<host, proved>>
        /\ Ends(b, IF Established(h) = a.inputs.lineage THEN "ok" ELSE "failed")
    BY <1>4 DEF Begin
  <2>2. PICK answer \in {"ok", "failed"} :
          answer = IF Established(h) = a.inputs.lineage THEN "ok" ELSE "failed"
    OBVIOUS
  <2>3. Ends(b, answer) BY <2>1, <2>2
  <2>4. (Established(host[b]))' = Established(h) BY <2>1 DEF Established
  <2>5. h.identity = a.inputs.identity BY <1>1, <1>4 DEF Working
  <2>6. answer = "ok" => Established(h) = a.inputs.lineage /\ <<h.identity, b>> \in proved
    BY <1>1, <2>2 DEF Working
  <2>7. (Established(host[b]))' # None => <<host'[b].identity, b>> \in proved'
    BY <1>1, <2>1, <2>4 DEF Working
  <2>8. host'[b].journal # None /\ host'[b].journal.completed =>
           host'[b].identity = host'[b].journal.inputs.identity
    BY <1>1, <2>1 DEF Working
  <2> HIDE DEF h
  <2> QED BY <1>1, <2>1, <2>3, <2>4, <2>5, <2>6, <2>7, <2>8, AgentEnds
<1>5. CASE /\ ~(h.journal = None /\ h = EmptyHost)
           /\ ~(h.journal # None /\ h.journal.inputs = a.inputs)
  <2>1. UNCHANGED <<host, proved>> /\ Ends(b, "failed") BY <1>5 DEF Begin
  <2>2. (Established(host[b]))' = Established(h) BY <2>1 DEF Established
  <2>3. (Established(host[b]))' # None => <<host'[b].identity, b>> \in proved'
    BY <1>1, <2>1, <2>2 DEF Working
  <2>4. host'[b].journal # None /\ host'[b].journal.completed =>
           host'[b].identity = host'[b].journal.inputs.identity
    BY <1>1, <2>1 DEF Working
  <2> QED BY <1>1, <2>1, <2>3, <2>4, AgentEnds
<1> QED BY <1>2, <1>3, <1>4, <1>5

LEMMA InputsInstalled ==
  ASSUME AuthorityInv, NEW b \in Board, InstallInputs(b)
  PROVE  AuthorityInv'
<1> DEFINE a == agent[b]
           h == host[b]
<1>1. /\ a # None /\ a.at = "inputs" /\ a.kind = "install" /\ a.inputs \in Staged /\ Typed
      /\ h \in Hosts /\ host \in [Board -> Hosts] /\ a.inputs.lineage # None
      /\ UNCHANGED <<profile, restoreStage, packages, minted, recorded>>
      /\ h.journal # None /\ h.journal.inputs = a.inputs
  <2>1. a # None /\ a.at = "inputs" BY DEF InstallInputs
  <2>2. Working(b) BY DEF AuthorityInv
  <2>3. /\ a.kind = "install" /\ a.inputs.lineage # None
        /\ h.journal # None /\ h.journal.inputs = a.inputs
    BY <2>1, <2>2 DEF Working
  <2> QED BY <2>1, <2>3, AgentIs DEF InstallInputs, AgentOnly
<1>2. /\ a.inputs.lineage \in Lineages /\ a.inputs.lineage.owner \in Nat
      /\ a.inputs.identity \in Number /\ a.inputs.pending \in BOOLEAN
  BY <1>1 DEF Staged, Lineages
<1>3. PICK i, d, t : /\ i = a.inputs.identity
                     /\ d = [owner |-> a.inputs.lineage.owner, names |-> a.inputs.identity]
                     /\ t = [lineage |-> a.inputs.lineage, pending |-> a.inputs.pending]
  OBVIOUS
<1>4. i \in Number /\ d \in [owner : Nat, names : Number]
      /\ t \in [lineage : Lineages \cup {None}, pending : BOOLEAN]
  BY <1>2, <1>3
<1>5. PICK n : n = [h EXCEPT !.identity = i, !.directory = d, !.ticket = t] OBVIOUS
<1>6. n \in Hosts /\ n.identity = i /\ n.journal = h.journal
  <2> HIDE DEF h
  <2> QED BY <1>1, <1>4, <1>5 DEF Hosts
<1>7. SetHost(b, n) /\ Steps(b, "start") BY <1>3, <1>5 DEF InstallInputs
<1>8. /\ host' \in [Board -> Hosts] /\ host'[b] = n
      /\ \A c \in Board : c # b => host'[c] = host[c]
      /\ proved \subseteq proved'
      /\ Established(n) # None => <<n.identity, b>> \in proved'
  BY <1>1, <1>6, <1>7, HostWritten
<1>9. /\ agent'[b] # None /\ agent'[b].kind = a.kind /\ agent'[b].at = "start"
      /\ agent'[b].inputs = a.inputs
  BY <1>1, <1>7, AgentAt
<1>10. Working(b)'
  <2>1. (Established(host[b]))' = Established(n) BY <1>8 DEF Established
  <2> HIDE DEF h
  <2> QED BY <1>1, <1>3, <1>6, <1>8, <1>9, <2>1 DEF Working
<1> QED BY <1>1, <1>7, <1>8, <1>10, AgentSteps

\* What the Hub leaves is a board like the one it started on, with the
\* Authority it found, if it found one.
LEMMA HubLeaves ==
  ASSUME NEW g \in Hosts, NEW h \in HubStarts(g)
  PROVE  /\ h \in Hosts /\ h.identity = g.identity /\ h.journal = g.journal
         /\ Established(g) # None => h = g
<1>1. CASE g.marker = None /\ g.anchor = None /\ g.ticket # None /\ g.ticket.pending
  <2>1. PICK l : l = g.ticket.lineage OBVIOUS
  <2>2. l \in Lineages \cup {None}
    <3>1. g.ticket \in [lineage : Lineages \cup {None}, pending : BOOLEAN] BY <1>1 DEF Hosts
    <3> QED BY <2>1, <3>1
  <2>3. \/ h = [g EXCEPT !.marker = l, !.anchor = l, !.ticket = None]
        \/ h = [g EXCEPT !.marker = l] \/ h = [g EXCEPT !.anchor = l]
    BY <1>1, <2>1 DEF HubStarts
  <2>4. CASE h = [g EXCEPT !.marker = l, !.anchor = l, !.ticket = None]
    BY <1>1, <2>2, <2>4 DEF Hosts, Established
  <2>5. CASE h = [g EXCEPT !.marker = l] BY <1>1, <2>2, <2>5 DEF Hosts, Established
  <2>6. CASE h = [g EXCEPT !.anchor = l] BY <1>1, <2>2, <2>6 DEF Hosts, Established
  <2> QED BY <2>3, <2>4, <2>5, <2>6
<1>2. CASE ~(g.marker = None /\ g.anchor = None /\ g.ticket # None /\ g.ticket.pending)
  BY <1>2 DEF HubStarts
<1> QED BY <1>1, <1>2

LEMMA InstallStarted ==
  ASSUME AuthorityInv, NEW b \in Board, InstallStarts(b)
  PROVE  AuthorityInv'
<1> DEFINE a == agent[b]
<1>1. /\ a # None /\ a.at = "start" /\ a.kind = "install" /\ a.inputs \in Staged /\ Typed
      /\ host[b] \in Hosts /\ a.inputs.lineage # None
      /\ host[b].journal # None /\ host[b].journal.inputs = a.inputs
      /\ host[b].identity = a.inputs.identity
      /\ restoreStage \in [Board -> Lineages \cup {None}] /\ packages \subseteq Lineages
  <2>1. a # None /\ a.at = "start" BY DEF InstallStarts
  <2>2. Working(b) BY DEF AuthorityInv
  <2>3. /\ a.kind = "install" /\ a.inputs.lineage # None
        /\ host[b].journal # None /\ host[b].journal.inputs = a.inputs
        /\ host[b].identity = a.inputs.identity
    BY <2>1, <2>2 DEF Working
  <2> QED BY <2>1, <2>3, AgentIs
<1>2. PICK g : g = [host[b] EXCEPT !.installed = TRUE] OBVIOUS
<1>3. g \in Hosts /\ g.journal = host[b].journal /\ g.identity = host[b].identity
  BY <1>1, <1>2 DEF Hosts
<1>4. PICK h \in HubStarts(g) :
        LET ready == Established(h) = a.inputs.lineage IN
        /\ SetHost(b, [h EXCEPT !.journal.completed = ready])
        /\ Ends(b, IF ready THEN "ok" ELSE "failed")
        /\ UNCHANGED <<profile, restoreStage, packages, minted, recorded>>
  BY <1>2 DEF InstallStarts
<1>5. PICK ready \in BOOLEAN : ready = (Established(h) = a.inputs.lineage) OBVIOUS
<1>6. PICK answer \in {"ok", "failed"} : answer = IF ready THEN "ok" ELSE "failed" OBVIOUS
<1>7. h \in Hosts /\ h.identity = a.inputs.identity /\ h.journal = host[b].journal
  BY <1>1, <1>3, <1>4, HubLeaves
<1>8. PICK n : n = [h EXCEPT !.journal.completed = ready] OBVIOUS
<1>9. SetHost(b, n) /\ Ends(b, answer) BY <1>4, <1>5, <1>6, <1>8
<1>10. /\ n \in Hosts /\ n.marker = h.marker /\ n.anchor = h.anchor /\ n.identity = h.identity
       /\ n.journal.inputs = a.inputs
  <2>1. h.journal \in [inputs : Staged, completed : BOOLEAN] BY <1>1, <1>7 DEF Hosts
  <2>2. PICK j : j = [h.journal EXCEPT !.completed = ready] OBVIOUS
  <2>3. j \in [inputs : Staged, completed : BOOLEAN] /\ j.inputs = h.journal.inputs BY <2>1, <2>2
  <2>4. n = [h EXCEPT !.journal = j] BY <1>7, <1>8, <2>2 DEF Hosts
  <2> QED BY <1>1, <1>7, <2>3, <2>4 DEF Hosts
<1>11. /\ host' \in [Board -> Hosts] /\ host'[b] = n
       /\ \A c \in Board : c # b => host'[c] = host[c]
       /\ proved \subseteq proved'
       /\ Established(n) # None => <<n.identity, b>> \in proved'
  BY <1>1, <1>9, <1>10, HostWritten
<1>12. (Established(host[b]))' = Established(n) /\ Established(n) = Established(h)
  BY <1>10, <1>11 DEF Established
<1>13. answer = "ok" => Established(n) = a.inputs.lineage BY <1>5, <1>6, <1>12
<1>14. answer = "ok" => <<a.inputs.identity, b>> \in proved'
  BY <1>1, <1>7, <1>10, <1>11, <1>13
<1>15. host'[b].identity = host'[b].journal.inputs.identity BY <1>7, <1>10, <1>11
<1> QED BY <1>1, <1>4, <1>9, <1>11, <1>12, <1>13, <1>14, <1>15, AgentEnds

\* A board nothing was written to, whose agent ends.
LEMMA AgentReads ==
  ASSUME AuthorityInv, NEW b \in Board, agent[b] # None, NEW answer \in {"ok", "failed"},
         Ends(b, answer), UNCHANGED <<host, proved, profile, restoreStage, minted, recorded>>,
         packages \subseteq packages', packages' \subseteq Lineages,
         agent[b].kind # "install" \/ answer = "failed",
         answer = "ok" /\ agent[b].kind # "reset" => Established(host[b]) = agent[b].inputs.lineage,
         answer = "ok" /\ agent[b].kind = "backup" => agent[b].inputs.lineage \in packages'
  PROVE  AuthorityInv'
<1>1. host \in [Board -> Hosts] /\ restoreStage \in [Board -> Lineages \cup {None}] /\ Working(b)
  BY AgentIs
<1>2. (Established(host[b]))' = Established(host[b]) BY DEF Established
<1>3. /\ Established(host[b]) # None => <<host[b].identity, b>> \in proved
      /\ host[b].journal # None /\ host[b].journal.completed =>
           host[b].identity = host[b].journal.inputs.identity
  BY <1>1 DEF Working
<1> QED BY <1>1, <1>2, <1>3, AgentEnds

LEMMA PackageCaptured ==
  ASSUME AuthorityInv, NEW b \in Board, Capture(b)
  PROVE  AuthorityInv'
<1>1. /\ agent[b] # None /\ agent[b].at = "capture" /\ agent[b].kind = "backup"
      /\ agent[b].inputs.lineage # None /\ agent[b].inputs \in Staged /\ packages \subseteq Lineages
  <2>1. agent[b] # None /\ agent[b].at = "capture" BY DEF Capture
  <2>2. Working(b) BY DEF AuthorityInv
  <2>3. agent[b].kind = "backup" BY <2>1, <2>2 DEF Working
  <2>4. agent[b].inputs.lineage # None BY <2>1, <2>2, <2>3 DEF Working
  <2> QED BY <2>1, <2>3, <2>4, AgentIs
<1>2. agent[b].inputs.lineage \in Lineages BY <1>1 DEF Staged
<1>3. UNCHANGED <<host, proved, profile, restoreStage, minted, recorded>> BY DEF Capture
<1>4. CASE Capturable(b)
  <2>1. packages' = packages \cup {agent[b].inputs.lineage} /\ Ends(b, "ok")
    BY <1>4 DEF Capture
  <2>2. Established(host[b]) = agent[b].inputs.lineage BY <1>4 DEF Capturable
  <2>3. /\ packages \subseteq packages' /\ packages' \subseteq Lineages
        /\ agent[b].inputs.lineage \in packages'
    BY <1>1, <1>2, <2>1
  <2> QED BY <1>1, <1>3, <2>1, <2>2, <2>3, AgentReads
<1>5. CASE ~Capturable(b)
  <2>1. packages' = packages /\ Ends(b, "failed") BY <1>5 DEF Capture
  <2> QED BY <1>1, <1>3, <2>1, AgentReads
<1> QED BY <1>4, <1>5

LEMMA RestoreProved ==
  ASSUME AuthorityInv, NEW b \in Board, Prove(b)
  PROVE  AuthorityInv'
<1>1. agent[b] # None /\ agent[b].kind = "restore" /\ packages \subseteq Lineages
  <2>1. agent[b] # None /\ agent[b].at = "prove" BY DEF Prove
  <2>2. Working(b) BY DEF AuthorityInv
  <2>3. agent[b].kind = "restore" BY <2>1, <2>2 DEF Working
  <2> QED BY <2>1, <2>3, AgentIs
<1>2. UNCHANGED <<host, proved, profile, restoreStage, minted, recorded, packages>>
  BY DEF Prove, AgentOnly
<1>3. CASE Restored(b)
  <2>1. Ends(b, "ok") /\ Established(host[b]) = agent[b].inputs.lineage
    BY <1>3 DEF Prove, Restored
  <2> QED BY <1>1, <1>2, <2>1, AgentReads
<1>4. CASE ~Restored(b)
  <2>1. Ends(b, "failed") BY <1>4 DEF Prove
  <2> QED BY <1>1, <1>2, <2>1, AgentReads
<1> QED BY <1>3, <1>4

\* An agent that restores or removes writes a board, and goes on.
LEMMA BoardRewritten ==
  ASSUME AuthorityInv, NEW b \in Board, agent[b] # None, NEW n \in Hosts,
         n.journal \in {None, host[b].journal}, n.identity = host[b].identity,
         NEW at \in {"anchor", "prove", "authority"},
         agent[b].kind = "restore" <=> at \in {"anchor", "prove"},
         agent[b].kind = "reset" <=> at = "authority",
         SetHost(b, n), Steps(b, at), UNCHANGED <<profile, restoreStage, packages, minted, recorded>>
  PROVE  AuthorityInv'
<1>1. Typed /\ host \in [Board -> Hosts] /\ Working(b) BY AgentIs
<1>2. /\ host' \in [Board -> Hosts] /\ host'[b] = n
      /\ \A c \in Board : c # b => host'[c] = host[c]
      /\ proved \subseteq proved'
      /\ Established(n) # None => <<n.identity, b>> \in proved'
  BY <1>1, HostWritten
<1>3. /\ agent'[b] # None /\ agent'[b].kind = agent[b].kind /\ agent'[b].at = at
      /\ agent'[b].inputs = agent[b].inputs
  BY AgentAt
<1>4. Working(b)'
  <2>1. (Established(host[b]))' = Established(n) BY <1>2 DEF Established
  <2>2. n.journal # None /\ n.journal.completed => n.identity = n.journal.inputs.identity
    BY <1>1 DEF Working
  <2>3. agent[b].kind # "reset" => agent[b].inputs.lineage # None BY <1>1 DEF Working
  <2> QED BY <1>2, <1>3, <2>1, <2>2, <2>3 DEF Working
<1> QED BY <1>2, <1>4, AgentSteps

LEMMA PackageReplaces ==
  ASSUME AuthorityInv, NEW b \in Board, RestoreDatabase(b) \/ RestoreAnchor(b)
  PROVE  AuthorityInv'
<1>1. /\ agent[b] # None /\ agent[b].kind = "restore" /\ packages \subseteq Lineages
      /\ host[b] \in Hosts /\ restoreStage[b] \in Lineages \cup {None}
  <2>1. agent[b] # None /\ agent[b].at \in {"database", "anchor"}
    BY DEF RestoreDatabase, RestoreAnchor, Replaces
  <2>2. Working(b) BY DEF AuthorityInv
  <2>3. agent[b].kind = "restore" BY <2>1, <2>2 DEF Working
  <2> QED BY <2>1, <2>3, AgentIs
<1>2. UNCHANGED <<profile, restoreStage, minted, recorded, packages>>
  BY DEF RestoreDatabase, RestoreAnchor, Replaces, AgentOnly
<1>3. CASE restoreStage[b] = None
  <2>1. Ends(b, "failed") /\ UNCHANGED <<host, proved>>
    BY <1>3 DEF RestoreDatabase, RestoreAnchor, Replaces
  <2> QED BY <1>1, <1>2, <2>1, AgentReads
<1>4. CASE restoreStage[b] # None /\ RestoreDatabase(b)
  <2>1. PICK n : n = [host[b] EXCEPT !.marker = restoreStage[b]] OBVIOUS
  <2>2. SetHost(b, n) /\ Steps(b, "anchor") BY <1>4, <2>1 DEF RestoreDatabase, Replaces
  <2>3. n \in Hosts /\ n.journal = host[b].journal /\ n.identity = host[b].identity
    BY <1>1, <2>1 DEF Hosts
  <2> QED BY <1>1, <1>2, <2>2, <2>3, BoardRewritten
<1>5. CASE restoreStage[b] # None /\ RestoreAnchor(b)
  <2>1. PICK n : n = [host[b] EXCEPT !.anchor = restoreStage[b]] OBVIOUS
  <2>2. SetHost(b, n) /\ Steps(b, "prove") BY <1>5, <2>1 DEF RestoreAnchor, Replaces
  <2>3. n \in Hosts /\ n.journal = host[b].journal /\ n.identity = host[b].identity
    BY <1>1, <2>1 DEF Hosts
  <2> QED BY <1>1, <1>2, <2>2, <2>3, BoardRewritten
<1> QED BY <1>3, <1>4, <1>5

LEMMA DeploymentRemoved ==
  ASSUME AuthorityInv, NEW b \in Board, ResetDeployment(b)
  PROVE  AuthorityInv'
<1>1. agent[b] # None /\ agent[b].kind = "reset" /\ host[b] \in Hosts
  <2>1. agent[b] # None /\ agent[b].at = "deployment" BY DEF ResetDeployment
  <2>2. Working(b) BY DEF AuthorityInv
  <2>3. agent[b].kind = "reset" BY <2>1, <2>2 DEF Working
  <2> QED BY <2>1, <2>3, AgentIs
<1>2. PICK n : n = [host[b] EXCEPT !.directory = None, !.installed = FALSE] OBVIOUS
<1>3. SetHost(b, n) /\ Steps(b, "authority")
      /\ UNCHANGED <<profile, restoreStage, minted, recorded, packages>>
  BY <1>2 DEF ResetDeployment, AgentOnly
<1>4. n \in Hosts /\ n.journal = host[b].journal /\ n.identity = host[b].identity
  BY <1>1, <1>2 DEF Hosts
<1> QED BY <1>1, <1>3, <1>4, BoardRewritten

\* What a removal leaves, halfway or at its end.
LEMMA BoardCleared ==
  ASSUME AuthorityInv, NEW b \in Board, agent[b] # None, agent[b].kind = "reset",
         NEW answer \in {"ok", "failed"}, Ends(b, answer),
         NEW n \in Hosts, n = EmptyHost \/ (n.journal \in {None, host[b].journal} /\ n.identity = host[b].identity),
         SetHost(b, n), UNCHANGED <<profile, packages, minted, recorded>>,
         restoreStage' \in [Board -> Lineages \cup {None}],
         \A c \in Board : restoreStage'[c] \in {None, restoreStage[c]}
  PROVE  AuthorityInv'
<1>1. Typed /\ Working(b) /\ packages \subseteq Lineages BY AgentIs
<1>2. /\ host' \in [Board -> Hosts] /\ host'[b] = n
      /\ \A c \in Board : c # b => host'[c] = host[c]
      /\ proved \subseteq proved'
      /\ Established(n) # None => <<n.identity, b>> \in proved'
  BY <1>1, HostWritten
<1>3. (Established(host[b]))' = Established(n) BY <1>2 DEF Established
<1>4. n.journal # None /\ n.journal.completed => n.identity = n.journal.inputs.identity
  BY <1>1 DEF Working, EmptyHost
<1> QED BY <1>1, <1>2, <1>3, <1>4, AgentEnds

LEMMA AuthorityRemoved ==
  ASSUME AuthorityInv, NEW b \in Board, ResetAuthority(b)
  PROVE  AuthorityInv'
<1>1. agent[b] # None /\ agent[b].kind = "reset" /\ restoreStage \in [Board -> Lineages \cup {None}]
  <2>1. agent[b] # None /\ agent[b].at = "authority" BY DEF ResetAuthority
  <2>2. Working(b) BY DEF AuthorityInv
  <2>3. agent[b].kind = "reset" BY <2>1, <2>2 DEF Working
  <2> QED BY <2>1, <2>3, AgentIs
<1>2. SetHost(b, EmptyHost) /\ Ends(b, "ok") /\ UNCHANGED <<profile, packages, minted, recorded>>
      /\ restoreStage' = [restoreStage EXCEPT ![b] = None]
  BY DEF ResetAuthority
<1>3. /\ restoreStage' \in [Board -> Lineages \cup {None}]
      /\ \A c \in Board : restoreStage'[c] \in {None, restoreStage[c]}
  BY <1>1, <1>2
<1>4. EmptyHost \in Hosts BY DEF EmptyHost, Hosts, Number
<1> QED BY <1>1, <1>2, <1>3, <1>4, BoardCleared

LEMMA AgentStopped ==
  ASSUME AuthorityInv, NEW b \in Board, AgentStops(b)
  PROVE  AuthorityInv'
<1>1. /\ agent[b] # None /\ Ends(b, "failed")
      /\ UNCHANGED <<profile, restoreStage, packages, minted, recorded>>
      /\ restoreStage \in [Board -> Lineages \cup {None}] /\ host[b] \in Hosts
      /\ packages \subseteq Lineages
  BY AgentIs DEF AgentStops
<1>2. CASE UNCHANGED <<host, proved>> BY <1>1, <1>2, AgentReads
<1>3. ASSUME agent[b].at = "authority", NEW gone \in SUBSET {"marker", "anchor", "ticket", "journal"},
             SetHost(b, [f \in DOMAIN EmptyHost |-> IF f \in gone THEN None ELSE host[b][f]])
      PROVE  AuthorityInv'
  <2>1. PICK n : n = [f \in DOMAIN EmptyHost |-> IF f \in gone THEN None ELSE host[b][f]] OBVIOUS
  <2>2. DOMAIN EmptyHost =
          {"marker", "anchor", "ticket", "journal", "identity", "directory", "installed"}
    BY DEF EmptyHost
  <2>3. /\ n = [f \in {"marker", "anchor", "ticket", "journal", "identity", "directory", "installed"}
                  |-> n[f]]
        /\ n["marker"] \in {None, host[b].marker} /\ n["anchor"] \in {None, host[b].anchor}
        /\ n["ticket"] \in {None, host[b].ticket} /\ n["journal"] \in {None, host[b].journal}
        /\ n["identity"] = host[b].identity /\ n["directory"] = host[b].directory
        /\ n["installed"] = host[b].installed
    BY <2>1, <2>2
  <2>4. n \in Hosts
    <3>1. PICK m : m = [marker |-> n["marker"], anchor |-> n["anchor"], ticket |-> n["ticket"],
                        journal |-> n["journal"], identity |-> n["identity"],
                        directory |-> n["directory"], installed |-> n["installed"]]
      OBVIOUS
    <3>2. m \in Hosts BY <1>1, <2>3, <3>1 DEF Hosts
    <3>3. n = m BY <2>3, <3>1
    <3> QED BY <3>2, <3>3
  <2>5. agent[b].kind = "reset"
    <3>1. Working(b) BY DEF AuthorityInv
    <3> QED BY <1>1, <1>3, <3>1 DEF Working
  <2>6. SetHost(b, n) BY <1>3, <2>1
  <2> QED BY <1>1, <2>3, <2>4, <2>5, <2>6, BoardCleared
<1> QED BY <1>2, <1>3 DEF AgentStops

LEMMA OthersStage ==
  ASSUME AuthorityInv, NEW b \in Board, OtherStages(b)
  PROVE  AuthorityInv'
<1>1. /\ UNCHANGED <<profile, host, packages, op, agent, minted, recorded, proved>>
      /\ op.pc = "waits" /\ op \in Calls
      /\ packages \subseteq Lineages /\ restoreStage \in [Board -> Lineages \cup {None}]
  BY DEF OtherStages, AuthorityInv, Typed
<1>2. restoreStage' \in [Board -> Lineages \cup {None}]
  <2>1. PICK package \in packages \cup {None} : restoreStage' = [restoreStage EXCEPT ![b] = package]
    BY DEF OtherStages
  <2> QED BY <1>1, <2>1
<1>3. AtWork' BY <1>1 DEF AuthorityInv, AtWork
<1>4. Decided' BY <1>1 DEF AuthorityInv, Decided, Binding
<1>5. Answering'
  <2>1. Inputs' = Inputs BY <1>1 DEF Inputs
  <2> QED BY <1>1, <2>1 DEF AuthorityInv, Answering
<1>6. UploadTakenBack' BY <1>1 DEF UploadTakenBack
<1> QED BY <1>1, <1>2, <1>3, <1>4, <1>5, <1>6, CallMoves

LEMMA HostRebooted ==
  ASSUME AuthorityInv, NEW b \in Board, HostReboots(b)
  PROVE  AuthorityInv'
<1>1. /\ UNCHANGED <<profile, restoreStage, packages, minted, recorded>>
      /\ restoreStage \in [Board -> Lineages \cup {None}] /\ host[b] \in Hosts /\ Typed
      /\ packages \subseteq Lineages /\ Working(b) /\ host \in [Board -> Hosts]
      /\ agent \in [Board -> Agents \cup {None}]
  BY DEF HostReboots, AuthorityInv, Typed
<1>2. PICK h \in IF host[b].installed THEN HubStarts(host[b]) ELSE {host[b]} : SetHost(b, h)
  BY DEF HostReboots
<1>3. /\ h \in Hosts /\ h.identity = host[b].identity /\ h.journal = host[b].journal
      /\ Established(host[b]) # None => h = host[b]
  BY <1>1, <1>2, HubLeaves
<1>4. /\ host' \in [Board -> Hosts] /\ host'[b] = h
      /\ \A c \in Board : c # b => host'[c] = host[c]
      /\ proved \subseteq proved'
      /\ Established(h) # None => <<h.identity, b>> \in proved'
  BY <1>1, <1>2, <1>3, HostWritten
<1>5. (Established(host[b]))' = Established(h) BY <1>4 DEF Established
<1>6. /\ (Established(host[b]))' # None => <<host'[b].identity, b>> \in proved'
      /\ host'[b].journal # None /\ host'[b].journal.completed =>
           host'[b].identity = host'[b].journal.inputs.identity
  BY <1>1, <1>3, <1>4, <1>5 DEF Working
<1>7. CASE agent[b] # None
  <2>1. Ends(b, "failed") BY <1>7 DEF HostReboots
  <2> QED BY <1>1, <1>4, <1>6, <1>7, <2>1, AgentEnds
<1>8. CASE agent[b] = None
  <2>1. UNCHANGED <<agent, op>> BY <1>8 DEF HostReboots
  <2>2. Working(b)' BY <1>6, <1>8, <2>1 DEF Working
  <2>3. Typed' BY <1>1, <1>4, <2>1 DEF Typed
  <2>4. Records' BY <1>1, <1>4, <2>1, RecordsStay
  <2>5. AtWork' BY <2>1 DEF AuthorityInv, AtWork
  <2>6. Decided' /\ UploadTakenBack'
    BY <1>1, <2>1 DEF AuthorityInv, Decided, UploadTakenBack, Binding
  <2>7. Answering'
    <3>1. Answering /\ AtWork BY DEF AuthorityInv
    <3>2. Inputs' = Inputs BY <1>1, <2>1 DEF Inputs
    <3>3. op.pc \in {"answered", "finalize", "reported"} /\ op.answer = "ok"
          /\ op.cmd \in {"install", "backup", "restore"} =>
            /\ op.board \in Board /\ op.lineage # None
            /\ Established(host[op.board]) = op.lineage
      BY <3>1 DEF AtWork, Answering
    <3>4. op.pc \in {"answered", "finalize", "reported"} /\ op.answer = "ok"
          /\ op.cmd \in {"install", "backup", "restore"} => host'[op.board] = host[op.board]
      <4>1. CASE op.board = b BY <1>3, <1>4, <3>3, <4>1
      <4>2. CASE op.board # b BY <1>4, <3>3, <4>2
      <4> QED BY <4>1, <4>2
    <3>5. op.pc \in {"answered", "finalize", "reported"} /\ op.answer = "ok"
          /\ op.cmd \in {"install", "backup", "restore"} =>
            (Established(host[op.board]))' = op.lineage
      BY <2>1, <3>3, <3>4 DEF Established
    <3>6. op.pc = "answered" /\ op.answer = "ok" /\ op.cmd = "install" =>
            <<profile.inputs, op.board>> \in proved'
      BY <1>4, <3>1 DEF Answering
    <3> QED BY <1>1, <2>1, <3>1, <3>2, <3>5, <3>6 DEF Answering
  <2> QED BY <1>4, <2>1, <2>2, <2>3, <2>4, <2>5, <2>6, <2>7, BoardMoves
<1> QED BY <1>7, <1>8

(***************************************************************************)
(* The theorems.                                                           *)
(***************************************************************************)
LEMMA AuthorityStep ==
  ASSUME AuthorityInv, [Next]_vars
  PROVE  AuthorityInv'
<1>1. CASE UNCHANGED vars
  <2>1. UNCHANGED <<profile, host, restoreStage, packages, op, agent, minted, recorded, proved>>
    BY <1>1 DEF vars
  <2>2. Typed' BY <2>1 DEF AuthorityInv, Typed
  <2>3. Records' BY <2>1, RecordsStay
  <2>4. AtWork' /\ Decided' /\ UploadTakenBack'
    BY <2>1 DEF AuthorityInv, AtWork, Decided, UploadTakenBack, Binding
  <2>5. Answering'
    <3>1. Inputs' = Inputs BY <2>1 DEF Inputs
    <3> QED BY <2>1, <3>1 DEF AuthorityInv, Answering, Established
  <2> QED BY <2>1, <2>2, <2>3, <2>4, <2>5, BoardsStay
<1>2. CASE OperatorNext
  <2>1. CASE \E cmd \in DOMAIN FirstStep, b \in Board : Command(cmd, b) BY <2>1, CommandBegins
  <2>2. CASE InitInputs \/ InitAnchor \/ InitOwner \/ ObserveMintsOwner BY <2>2, InputsMade
  <2>3. CASE Rename BY <2>3, IdentityReplaced
  <2>4. CASE RenameFails BY <2>4, RenameUndone
  <2>5. CASE Observe BY <2>5, SituationObserved
  <2>6. CASE Stage BY <2>6, InputsStaged
  <2>7. CASE StartAgent BY <2>7, AgentStarted
  <2>8. CASE LoseAnswer \/ CommandFails BY <2>8, CommandCut
  <2>9. CASE Answered BY <2>9, CommandAnswered
  <2>10. CASE Upload BY <2>10, PackageUploaded
  <2>11. CASE Refresh BY <2>11, HostRefreshed
  <2>12. CASE Finalize BY <2>12, UploadFinalized
  <2>13. CASE OperatorDies BY <2>13, OperatorGone
  <2> QED BY <1>2, <2>1, <2>2, <2>3, <2>4, <2>5, <2>6, <2>7, <2>8, <2>9, <2>10, <2>11, <2>12, <2>13
        DEF OperatorNext
<1>3. ASSUME NEW b \in Board, AgentNext(b) PROVE AuthorityInv'
  <2>1. CASE Begin(b) BY <2>1, InstallBegins
  <2>2. CASE InstallInputs(b) BY <2>2, InputsInstalled
  <2>3. CASE InstallStarts(b) BY <2>3, InstallStarted
  <2>4. CASE Capture(b) BY <2>4, PackageCaptured
  <2>5. CASE RestoreDatabase(b) \/ RestoreAnchor(b) BY <2>5, PackageReplaces
  <2>6. CASE Prove(b) BY <2>6, RestoreProved
  <2>7. CASE ResetDeployment(b) BY <2>7, DeploymentRemoved
  <2>8. CASE ResetAuthority(b) BY <2>8, AuthorityRemoved
  <2>9. CASE AgentStops(b) BY <2>9, AgentStopped
  <2>10. CASE OtherStages(b) BY <2>10, OthersStage
  <2>11. CASE HostReboots(b) BY <2>11, HostRebooted
  <2> QED BY <1>3, <2>1, <2>2, <2>3, <2>4, <2>5, <2>6, <2>7, <2>8, <2>9, <2>10, <2>11
        DEF AgentNext
<1> QED BY <1>1, <1>2, <1>3 DEF Next

\* The inductive invariant of the commands and the agents.
THEOREM AuthorityHolds == Spec => []AuthorityInv
<1>1. Init => AuthorityInv BY AuthorityInit
<1>2. AuthorityInv /\ [Next]_vars => AuthorityInv' BY AuthorityStep
<1> QED BY <1>1, <1>2, PTL DEF Spec

\* A profile only records a board that had an Authority established under the
\* identity it records, whichever command recorded it and wherever it was cut.
THEOREM RecordIsProved == Spec => []RecordedWasEstablished
<1>1. AuthorityInv => RecordedWasEstablished
  BY DEF AuthorityInv, Records, Sound, BindingProved, RecordedWasEstablished
<1> QED BY <1>1, AuthorityHolds, PTL

\* Success that is reported of an install, a backup or a restore is what the
\* board holds, for as long as it is the last thing that was reported.
THEOREM ReportIsTrue == Spec => []EvidenceIsOfAWhole
<1>1. AuthorityInv => EvidenceIsOfAWhole BY DEF AuthorityInv, Answering, EvidenceIsOfAWhole
<1> QED BY <1>1, AuthorityHolds, PTL

\* A restore that uploaded the private package leaves none behind, or says so.
THEOREM UploadIsTakenBack == Spec => []UploadTakenBack
<1>1. AuthorityInv => UploadTakenBack BY DEF AuthorityInv
<1> QED BY <1>1, AuthorityHolds, PTL

\* An identity that was recorded on one board is handed to no other, but by
\* the restore that is about the board it names.
THEOREM IdentityStays == Spec => RecordedIdentityStays
<1>1. ASSUME AuthorityInv, [Next]_vars,
             NEW identity \in 1 .. MaxMinted, NEW b \in Board,
             <<identity, b>> \in handed' \ handed, op.cmd # "restore",
             NEW other \in Board \ {b}, <<identity, other>> \in recorded
      PROVE  FALSE
  <2>1. Stage
    <3>1. UNCHANGED handed \/ Stage \/ Refresh
      <4>1. CASE UNCHANGED vars BY <4>1 DEF vars
      <4>2. CASE OperatorNext
        BY <4>2 DEF OperatorNext, Command, InitInputs, InitAnchor, InitOwner, Profile, Rename, RenameFails,
          Observe, ObserveMintsOwner, StartAgent, LoseAnswer, Answered, Upload, CommandFails, Finalize,
          OperatorDies
      <4>3. ASSUME NEW c \in Board, AgentNext(c) PROVE UNCHANGED handed
        BY <4>3 DEF AgentNext, Begin, InstallInputs, InstallStarts, Capture, RestoreDatabase,
          RestoreAnchor, Replaces, Prove, ResetDeployment, ResetAuthority, AgentStops, OtherStages,
          HostReboots, AgentOnly
      <4> QED BY <1>1, <4>1, <4>2, <4>3 DEF Next
    <3>2. Refresh => op.cmd = "restore" BY <1>1 DEF AuthorityInv, AtWork, Refresh
    <3> QED BY <1>1, <3>1, <3>2
  <2>2. identity = profile.inputs /\ b = op.board BY <1>1, <2>1 DEF Stage, Hands
  <2>3. /\ profile.binding \in {None, Binding(identity, b)}
        /\ Sound(profile) /\ recorded \subseteq Nat \X Board
    BY <1>1, <2>1, <2>2 DEF Stage, AuthorityInv, Decided, Records, Typed
  <2>4. profile.binding = Binding(identity, other)
    BY <1>1, <2>2, <2>3 DEF Sound, RecordKept
  <2>5. Binding(identity, other) \in [identity : Nat, board : Board]
    BY <1>1, <2>3 DEF Binding
  <2>6. profile.binding # None BY <2>4, <2>5, NothingThere
  <2>7. Binding(identity, other) = Binding(identity, b) BY <2>3, <2>4, <2>6
  <2> QED BY <1>1, <2>7 DEF Binding
<1>2. AuthorityInv /\ [Next]_vars =>
        [\A identity \in 1 .. MaxMinted, b \in Board :
           <<identity, b>> \in handed' \ handed /\ op.cmd # "restore" =>
             \A other \in Board \ {b} : <<identity, other>> \notin recorded]_vars
  BY <1>1
<1> QED BY <1>2, AuthorityHolds, PTL DEF Spec, RecordedIdentityStays
=============================================================================
