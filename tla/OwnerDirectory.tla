--------------------------- MODULE OwnerDirectory ---------------------------
(***************************************************************************)
(* The Owner material of a workstation and the signed directory it issues   *)
(* for the Host that serves it (owner_domain_assets.py, with the calls of   *)
(* host_layer.py and controller.py): seven private files, each replaced     *)
(* atomically and none with another.                                        *)
(*                                                                         *)
(* Devices keep the directory they last saw.  A directory is its generation *)
(* and its revision on the line of that generation, the endpoint it names,  *)
(* the contract it is written in, and bytes no two issues share.  What a    *)
(* deploy does on the Host around the delivery is ReleaseTransaction, and   *)
(* a restore there HostAuthority: each one step here.                       *)
(***************************************************************************)
EXTENDS Naturals

CONSTANTS
  Keeper,       \* workstations; the material of one may be copied to another
  Lead,         \* the one whose operator runs a failed command again
  None,
  Half,         \* the first of two files that belong together
  Port,         \* endpoints the Host may be given
  MaxGeneration,
  MaxEra,       \* bound: how often certificate and directory run out
  MaxContract,  \* bound: how often the directory's contract grows a field
  MaxIssued,    \* bound: directories issued
  MaxCommands,  \* bound: commands other than the Lead's deliveries
  MaxFaults, Faults

VARIABLES
  keys,         \* keeper -> its Owner root, signer and TLS leaf
  directory,    \* keeper -> the directory it issued or adopted last
  litter,       \* keepers with the rest of an interrupted write beside the material
  port,         \* the endpoint the Host is to have
  era, contract,
  hub,          \* what the Host established, serves, and was handed
  package,      \* the one Owner Authority backup
  call,         \* the command of each keeper
  issued, commands, faults,
  shown         \* history: the directories devices may hold

vars == <<keys, directory, litter, port, era, contract, hub, package, call, issued, commands, faults,
          shown>>
outside == <<port, era, contract>>

NoKeys == [root |-> None, signer |-> None, certificate |-> None, key |-> None]
Resting == [pc |-> "idle", restores |-> FALSE, generation |-> 0, served |-> None, before |-> None]

\* A new Host, or one in the field with the keeper of its material.
Init ==
  /\ port \in Port /\ era = 1 /\ contract = 1 /\ package = None
  /\ litter = {} /\ commands = 0 /\ faults = 0
  /\ call = [k \in Keeper |-> Resting]
  /\ \/ /\ keys = [k \in Keeper |-> NoKeys] /\ directory = [k \in Keeper |-> None]
        /\ hub = [owner |-> None, generation |-> 0, directory |-> None, leaf |-> None]
        /\ issued = 0 /\ shown = {}
     \/ \E g \in 1..MaxGeneration :
          LET doc == [generation |-> g, revision |-> 1, port |-> port, era |-> 1, contract |-> 1, id |-> 1] IN
          /\ keys = [k \in Keeper |-> IF k # Lead THEN NoKeys ELSE
               [root |-> Lead, signer |-> 1, certificate |-> 1, key |-> 1]]
          /\ directory = [k \in Keeper |-> IF k = Lead THEN doc ELSE None]
          /\ hub = [owner |-> Lead, generation |-> g, directory |-> doc, leaf |-> 1]
          /\ issued = 1 /\ shown = {doc}

Fault(f) == f \in Faults /\ faults < MaxFaults /\ faults' = faults + 1

At(k, pc) == call[k].pc = pc
Goto(k, pc) == call' = [call EXCEPT ![k].pc = pc]
Fails(k) == call' = [call EXCEPT ![k] = Resting]

\* Nothing locks the material; two commands at a time are a fault.
Alone == \A k \in Keeper : At(k, "idle")
Holders == {k \in Keeper : keys[k].root \in Keeper}

Readable(doc) == doc # None /\ doc.contract = contract
Behind(doc) ==
  \E s \in shown : s # doc /\ s.generation = doc.generation /\ s.revision >= doc.revision

-----------------------------------------------------------------------------
\* An install, a deploy or a convergence: it asks the Host first.
Begin(k) ==
  /\ At(k, "idle") /\ (Alone \/ "meanwhile" \in Faults)
  /\ IF k = Lead THEN UNCHANGED commands ELSE commands < MaxCommands /\ commands' = commands + 1
  /\ Goto(k, "observe")
  /\ UNCHANGED <<keys, directory, litter, outside, hub, package, issued, faults, shown>>

\* A Host that holds nothing is rendered at 1; one that has established an
\* Authority at exactly that, and only by the Owner that established it.
Observe(k) ==
  /\ At(k, "observe")
  /\ IF hub.owner \notin {None, keys[k].root} THEN Fails(k)
     ELSE call' = [call EXCEPT ![k].pc = "root",
            ![k].generation = IF hub.owner = None THEN 1 ELSE hub.generation,
            ![k].served = IF hub.owner = None THEN None ELSE hub.directory]
  /\ UNCHANGED <<keys, directory, litter, outside, hub, package, issued, commands, faults, shown>>

\* A backup carries the material with the Host's state.
Backup(k) ==
  /\ Alone /\ hub.owner = keys[k].root /\ hub.owner # None /\ directory[k] # None
  /\ commands < MaxCommands /\ commands' = commands + 1
  /\ package' = [generation |-> hub.generation, keys |-> keys[k], directory |-> directory[k]]
  /\ UNCHANGED <<keys, directory, litter, outside, hub, call, issued, faults, shown>>

\* A restore brings the material where there is none, and renders for what the
\* Host will hold: it does not ask what the Host serves.
Restore(k) ==
  /\ At(k, "idle") /\ (Alone \/ "meanwhile" \in Faults) /\ package # None
  /\ commands < MaxCommands /\ commands' = commands + 1
  /\ IF keys[k] = NoKeys
     THEN /\ Behind(package.directory) => "stale_restore" \in Faults
          /\ keys' = [keys EXCEPT ![k] = package.keys]
          /\ directory' = [directory EXCEPT ![k] = package.directory]
     ELSE /\ keys[k].root = package.keys.root
          /\ (directory[k] # None /\ Behind(directory[k])) => "stale_restore" \in Faults
          /\ UNCHANGED <<keys, directory>>
  /\ call' = [call EXCEPT ![k] = [Resting EXCEPT
       !.pc = "root", !.restores = TRUE, !.generation = package.generation]]
  /\ UNCHANGED <<litter, outside, hub, package, issued, faults, shown>>

-----------------------------------------------------------------------------
\* The material, one file after the other.

Present(k) == {f \in DOMAIN keys[k] : keys[k][f] # None}

\* Something is there and its root is not whole, or there is a file too many.
Unsafe(k) ==
  \/ k \in litter
  \/ keys[k].root = Half
  \/ (Present(k) # {} \/ directory[k] # None) /\ keys[k].root = None

MakeRoot(k) ==
  /\ At(k, "root")
  /\ \/ Unsafe(k) /\ Fails(k) /\ UNCHANGED keys
     \/ ~Unsafe(k) /\ keys[k].root = None
        /\ keys' = [keys EXCEPT ![k].root = Half] /\ Goto(k, "root certificate")
     \/ ~Unsafe(k) /\ keys[k].root # None /\ Goto(k, "signer") /\ UNCHANGED keys
  /\ UNCHANGED <<directory, litter, outside, hub, package, issued, commands, faults, shown>>

CertifyRoot(k) ==
  /\ At(k, "root certificate")
  /\ keys' = [keys EXCEPT ![k].root = k] /\ Goto(k, "signer")
  /\ UNCHANGED <<directory, litter, outside, hub, package, issued, commands, faults, shown>>

MakeSigner(k) ==
  /\ At(k, "signer")
  /\ \/ keys[k].signer = Half /\ Fails(k) /\ UNCHANGED keys
     \/ keys[k].signer = None
        /\ keys' = [keys EXCEPT ![k].signer = Half] /\ Goto(k, "signer certificate")
     \/ keys[k].signer \notin {None, Half} /\ Goto(k, "leaf") /\ UNCHANGED keys
  /\ UNCHANGED <<directory, litter, outside, hub, package, issued, commands, faults, shown>>

CertifySigner(k) ==
  /\ At(k, "signer certificate")
  /\ keys' = [keys EXCEPT ![k].signer = 1] /\ Goto(k, "leaf")
  /\ UNCHANGED <<directory, litter, outside, hub, package, issued, commands, faults, shown>>

\* The leaf is renewed below the same root when it has run out: its certificate
\* first, then the key the certificate is of.
Mismatched(k) == keys[k].certificate # keys[k].key

MakeLeaf(k) ==
  /\ At(k, "leaf")
  /\ \/ Mismatched(k) /\ Fails(k) /\ UNCHANGED keys
     \/ ~Mismatched(k) /\ keys[k].key = era /\ Goto(k, "adopt") /\ UNCHANGED keys
     \/ ~Mismatched(k) /\ keys[k].key # era
        /\ keys' = [keys EXCEPT ![k].certificate = era] /\ Goto(k, "leaf key")
  /\ UNCHANGED <<directory, litter, outside, hub, package, issued, commands, faults, shown>>

WriteLeafKey(k) ==
  /\ At(k, "leaf key")
  /\ keys' = [keys EXCEPT ![k].key = era] /\ Goto(k, "adopt")
  /\ UNCHANGED <<directory, litter, outside, hub, package, issued, commands, faults, shown>>

-----------------------------------------------------------------------------
\* The directory.

\* A newer one issued here and not delivered yet is kept.
Newer(k) ==
  /\ Readable(directory[k]) /\ directory[k].generation = call[k].generation
  /\ directory[k].revision > call[k].served.revision

AdoptAlways(k) ==
  LET served == call[k].served IN
  /\ At(k, "adopt")
  /\ \/ served = None /\ Goto(k, "issue") /\ UNCHANGED directory
     \/ /\ served # None /\ ~(Readable(served) /\ served.generation = call[k].generation)
        /\ Fails(k) /\ UNCHANGED directory
     \/ /\ Readable(served) /\ served.generation = call[k].generation
        /\ directory' = [directory EXCEPT ![k] = served]
        /\ Goto(k, "issue")
  /\ UNCHANGED <<keys, litter, outside, hub, package, issued, commands, faults, shown>>
Adopt(k) ==
  LET served == call[k].served IN
  /\ At(k, "adopt")
  /\ \/ served = None /\ Goto(k, "issue") /\ UNCHANGED directory
     \/ /\ served # None /\ ~(Readable(served) /\ served.generation = call[k].generation)
        /\ Fails(k) /\ UNCHANGED directory
     \/ /\ Readable(served) /\ served.generation = call[k].generation
        /\ directory' = [directory EXCEPT ![k] = IF Newer(k) THEN @ ELSE served]
        /\ Goto(k, "issue")
  /\ UNCHANGED <<keys, litter, outside, hub, package, issued, commands, faults, shown>>

\* One that cannot be read any more still has a revision to continue from.
Revision(k) ==
  IF directory[k] = None THEN 1
  ELSE IF Readable(directory[k]) /\ directory[k].generation # call[k].generation THEN 1
  ELSE directory[k].revision + 1

Current(doc, generation) ==
  Readable(doc) /\ doc.generation = generation /\ doc.port = port /\ doc.era = era

Issue(k) ==
  /\ At(k, "issue")
  /\ \/ Current(directory[k], call[k].generation) /\ UNCHANGED <<directory, issued>>
     \/ /\ ~Current(directory[k], call[k].generation) /\ issued < MaxIssued
        /\ issued' = issued + 1
        /\ directory' = [directory EXCEPT ![k] =
             [generation |-> call[k].generation, revision |-> Revision(k), port |-> port,
              era |-> era, contract |-> contract, id |-> issued + 1]]
  /\ Goto(k, "deliver")
  /\ UNCHANGED <<keys, litter, outside, hub, package, commands, faults, shown>>

\* The Host layer carries directory and leaf; an empty Hub establishes the
\* Authority it is offered.
Deliver(k) ==
  /\ At(k, "deliver")
  /\ hub' = [owner |-> IF hub.owner = None THEN keys[k].root ELSE hub.owner,
             generation |-> IF hub.owner = None THEN call[k].generation ELSE hub.generation,
             directory |-> directory[k], leaf |-> keys[k].key]
  /\ shown' = shown \cup {directory[k]}
  /\ call' = [call EXCEPT ![k].pc = "gate", ![k].before = hub]
  /\ UNCHANGED <<keys, directory, litter, outside, package, issued, commands, faults>>

Commit(k) ==
  /\ At(k, "gate")
  /\ hub' = [hub EXCEPT !.generation = IF call[k].restores THEN call[k].generation ELSE @]
  /\ Fails(k)
  /\ UNCHANGED <<keys, directory, litter, outside, package, issued, commands, faults, shown>>

\* A failed deploy puts the Host layer back, with the directory it served.
GateFails(k) ==
  /\ At(k, "gate") /\ call[k].before.directory # None /\ Fault("gate_fails")
  /\ Holders = {k} \/ "fails_elsewhere" \in Faults
  /\ hub' = [hub EXCEPT !.directory = call[k].before.directory, !.leaf = call[k].before.leaf]
  /\ Fails(k)
  /\ UNCHANGED <<keys, directory, litter, outside, package, issued, commands, shown>>

-----------------------------------------------------------------------------
\* A file under its temporary name is one too many.
Writing == {"root", "root certificate", "signer", "signer certificate", "leaf", "leaf key", "adopt", "issue"}

Dies(k) ==
  /\ ~At(k, "idle") /\ Fault("dies")
  /\ Fails(k)
  /\ litter' \in {litter} \cup (IF call[k].pc \in Writing THEN {litter \cup {k}} ELSE {})
  /\ UNCHANGED <<keys, directory, outside, hub, package, issued, commands, shown>>

MaterialLost(k) ==
  /\ At(k, "idle") /\ keys[k] # NoKeys /\ package # None /\ Fault("material_lost")
  /\ keys' = [keys EXCEPT ![k] = NoKeys] /\ directory' = [directory EXCEPT ![k] = None]
  /\ litter' = litter \ {k}
  /\ UNCHANGED <<outside, hub, package, call, issued, commands, shown>>

\* The operator moves the Host, time passes, a newer Ops is used.
Moves ==
  /\ Alone
  /\ \/ port' \in Port \ {port} /\ commands < MaxCommands /\ commands' = commands + 1
        /\ UNCHANGED <<era, contract>>
     \/ era < MaxEra /\ era' = era + 1 /\ UNCHANGED <<port, contract, commands>>
     \/ contract < MaxContract /\ contract' = contract + 1 /\ UNCHANGED <<port, era, commands>>
  /\ UNCHANGED <<keys, directory, litter, hub, package, call, issued, faults, shown>>

Proceed(k) ==
  \/ Observe(k) \/ MakeRoot(k) \/ CertifyRoot(k) \/ MakeSigner(k) \/ CertifySigner(k)
  \/ MakeLeaf(k) \/ WriteLeafKey(k) \/ Adopt(k) \/ Issue(k) \/ Deliver(k) \/ Commit(k)

Next ==
  \/ \E k \in Keeper :
       \/ Begin(k) \/ Restore(k) \/ Backup(k) \/ Proceed(k) \/ GateFails(k) \/ Dies(k) \/ MaterialLost(k)
  \/ Moves

-----------------------------------------------------------------------------
\* A revision of a generation is one document, for every device that ever saw
\* it; and no command has the Host serve an older one, but to undo its own.
OneDocument ==
  \A a, b \in shown : a.generation = b.generation /\ a.revision = b.revision => a = b
OnlyUndone ==
  hub.directory \notin {None, hub'.directory} /\ hub.directory.generation = hub'.directory.generation =>
    \/ hub'.directory.revision > hub.directory.revision
    \/ \E k \in Keeper : At(k, "gate") /\ hub'.directory = call[k].before.directory

Delivered ==
  /\ hub.directory # None /\ Current(hub.directory, hub.generation)
  /\ hub.leaf = era

\* What the code refuses for a person to look at: material cut short in the
\* middle, a directory whose contract has grown since, copies that disagree.
Refused ==
  \/ Unsafe(Lead) \/ keys[Lead].signer = Half \/ (Mismatched(Lead) /\ At(Lead, "idle"))
  \/ hub.owner \notin {None, keys[Lead].root}
  \/ hub.directory # None /\ ~(Readable(hub.directory) /\ hub.directory.generation = hub.generation)
  \/ issued = MaxIssued
=============================================================================
