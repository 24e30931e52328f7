------------------------------ MODULE HostLink ------------------------------
(***************************************************************************)
(* How a workstation reaches a Host it knows by name: the key it trusts     *)
(* under that name and trust-host-key, which changes it (host_keys.py,      *)
(* controller.py); the links an address may lie on (endpoints.py); the one  *)
(* a session settles on (transport.py), and the release that is only        *)
(* uploaded over a cable (release_transaction.py).                          *)
(*                                                                         *)
(* Meanwhile cables are pulled, boards swapped behind a name, leases given  *)
(* to other machines, and records age out of the resolver.                  *)
(***************************************************************************)
EXTENDS Naturals, FiniteSets

CONSTANTS
  Operator,     \* people on the one workstation
  Lead,         \* the one who keeps at it
  None,
  This, Name,   \* the Host's name, and all names the known_hosts file knows
  Key,          \* the keys of boards and of other machines
  Interface,    \* the workstation's interfaces
  Kind,         \* interface -> "wired", "wireless" or "unknown"
  Reaches,      \* interface -> the addresses inside its networks
  HostAddress,  \* addresses this Host may have
  LinkLocal,    \* those every interface claims to reach
  Lies,         \* address -> the interface that really leads to it
  KnownHosts,   \* what the file may say to begin with
  MaxTurns,     \* bound: what the surroundings do, and commands of the others
  MaxFaults,    \* bound: faults of all kinds
  Faults        \* the faults of this instance

VARIABLES
  profile,      \* a literal address for a name, and whether uploads need a wire
  up,           \* the interfaces that are connected
  board,        \* the key of the board that bears the name
  at,           \* address -> the key of whoever answers there, or None
  offered,      \* the addresses the resolver has for the name
  known,        \* the known_hosts file: a set of lines
  cmd,          \* the commands
  turns, faults

vars == <<profile, up, board, at, offered, known, cmd, turns, faults>>
around == <<profile, up, board, at, offered>>

Ready == [pc |-> "idle", replace |-> None, apply |-> FALSE, key |-> None, matched |-> {},
          endpoint |-> None, published |-> {}, report |-> None, over |-> None, left |-> 0]

Init ==
  /\ profile \in [required : BOOLEAN, literal : BOOLEAN]
  /\ up = Interface
  /\ board \in Key
  /\ at = [a \in HostAddress |-> board]
  /\ offered \in IF profile.literal THEN {{a} : a \in HostAddress} ELSE {HostAddress, HostAddress \ LinkLocal}
  /\ known \in KnownHosts
  /\ cmd = [o \in Operator |-> Ready] /\ turns = 0 /\ faults = 0

Turn == turns < MaxTurns /\ turns' = turns + 1
Fault(f) == f \in Faults /\ faults < MaxFaults /\ faults' = faults + 1
To(o, pc) == cmd' = [cmd EXCEPT ![o].pc = pc]
Ends(o) == cmd' = [cmd EXCEPT ![o] = Ready]

-----------------------------------------------------------------------------
\* The surroundings.

Swap(k) ==
  /\ k # board /\ Turn
  /\ board' = k /\ at' = [a \in HostAddress |-> IF at[a] = board THEN k ELSE at[a]]
  /\ UNCHANGED <<profile, up, offered, known, cmd, faults>>

\* The Host gets or loses an address, or another machine answers there.
Moves(a, who) ==
  /\ who # at[a] /\ Turn
  /\ at' = [at EXCEPT ![a] = who]
  /\ UNCHANGED <<profile, up, board, offered, known, cmd, faults>>

Plug(i) ==
  /\ Turn
  /\ up' = IF i \in up THEN up \ {i} ELSE up \cup {i}
  /\ UNCHANGED <<profile, board, at, offered, known, cmd, faults>>

\* An announcement arrives, or ages out of the resolver's cache.
Ages(a) ==
  /\ ~profile.literal /\ Turn
  /\ offered' = IF a \in offered THEN offered \ {a} ELSE offered \cup {a}
  /\ UNCHANGED <<profile, up, board, at, known, cmd, faults>>

-----------------------------------------------------------------------------
\* endpoints.py: an address, and the best local interface that reaches it.

Rank(link) == CASE link = "wired" -> 0 [] link = "unknown" -> 1 [] link = "wireless" -> 2

Claims(a) == {i \in up : a \in Reaches[i]}
Endpoint(a) ==
  IF Claims(a) = {} THEN [address |-> a, interface |-> None, link |-> "unknown"]
  ELSE LET owner == CHOOSE i \in Claims(a) : \A j \in Claims(a) : Rank(Kind[i]) <= Rank(Kind[j])
       IN [address |-> a, interface |-> owner, link |-> Kind[owner]]
Ranked(addresses) == {Endpoint(a) : a \in addresses}
Better(e, f) == Rank(e.link) < Rank(f.link)

\* Only the way to a link-local address is ambiguous, so only that is forced;
\* for any other, the routing table knows the interface.
BindInterface(e) == IF e.address \in LinkLocal THEN e.interface ELSE None

LeavesBy(e) == IF BindInterface(e) = None THEN Lies[e.address] ELSE BindInterface(e)
Hears(e) ==
  IF LeavesBy(e) = Lies[e.address] /\ LeavesBy(e) \in up THEN at[e.address] ELSE None

Trusted(n) == {line.key : line \in {l \in known : n \in l.names}}

\* The probe is SSH itself: an answer from a machine with another key is none.
Answers(e) == Hears(e) # None /\ Hears(e) \in Trusted(This)

\* The best that answers; among equals, whichever the resolver named first.
FirstReachable(es) ==
  LET answering == {e \in es : Answers(e)}
      best == {e \in answering : \A f \in answering : ~Better(f, e)} IN
  IF best = {} THEN {None} ELSE best

-----------------------------------------------------------------------------
\* trust-host-key.  It reads the key outside the strict transport, and without
\* binding: from a link-local address an answer may come or not.

Silent(a) ==
  \/ at[a] = None \/ Lies[a] \notin up
  \/ a \in LinkLocal /\ \E i \in Claims(a) : i # Lies[a]
Speaks(a) == at[a] # None /\ Lies[a] \in up
Presented ==
  {at[a] : a \in {b \in offered : Speaks(b) /\
     \A c \in offered : Better(Endpoint(c), Endpoint(b)) => Silent(c)}}
  \cup {k \in {None} : \A a \in offered : Silent(a)}

Changing == \E o \in Operator : cmd[o].pc \in {"scan", "look", "match", "write"}

\* Nothing keeps two of these commands apart; an instance may grant that.
Begin(o, replace, apply) ==
  /\ cmd[o].pc = "idle" /\ (~Changing \/ "trusts_meanwhile" \in Faults)
  /\ cmd' = [cmd EXCEPT ![o] = [Ready EXCEPT !.pc = "scan", !.replace = replace, !.apply = apply]]

TrustHostKey(o, replace, apply) ==
  Turn /\ Begin(o, replace, apply) /\ UNCHANGED <<around, known, faults>>
\* As the operator does who reads the fingerprint on the Host itself.
Confirm(o) ==
  Trusted(This) # {board} /\ Begin(o, board, TRUE) /\ UNCHANGED <<around, known, turns, faults>>

Scan(o) ==
  /\ cmd[o].pc = "scan"
  /\ \E k \in Presented :
       IF k = None THEN Ends(o) ELSE cmd' = [cmd EXCEPT ![o].pc = "look", ![o].key = k]
  /\ UNCHANGED <<around, known, turns, faults>>

Matching(file) == {line \in file : This \in line.names}
Plain(lines) == \A line \in lines : ~line.pattern

\* What is recorded decides: exactly this key, nothing to do; another, and the
\* operator has to have named the new one.
Replaces(o, recorded) == recorded # {} /\ cmd[o].key \notin {line.key : line \in recorded}
Named(o) == cmd[o].replace = cmd[o].key
Writes(o, recorded) ==
  /\ Plain(recorded)
  /\ ~(Cardinality(recorded) = 1 /\ ~Replaces(o, recorded))
  /\ cmd[o].apply
  /\ Replaces(o, recorded) => Named(o)

Look(o) ==
  /\ cmd[o].pc = "look"
  /\ IF Writes(o, Matching(known)) THEN To(o, "match") ELSE Ends(o)
  /\ UNCHANGED <<around, known, turns, faults>>

\* Writing looks again for the lines of this name, then reads the file.
Match(o) ==
  /\ cmd[o].pc = "match"
  /\ IF Plain(Matching(known)) THEN cmd' = [cmd EXCEPT ![o].pc = "write", ![o].matched = Matching(known)]
     ELSE Ends(o)
  /\ UNCHANGED <<around, known, turns, faults>>

\* Mutant: a line shared with another Host goes as a whole.
KeptUnshared(matched) == known \ matched

\* The lines of other names stay, a line shared with them loses this one.
Kept(matched) ==
  (known \ matched) \cup
  {[line EXCEPT !.names = @ \ {This}] : line \in {l \in known \cap matched : l.names # {This}}}
Write(o) ==
  /\ cmd[o].pc = "write"
  /\ known' = Kept(cmd[o].matched) \cup {[names |-> {This}, key |-> cmd[o].key, pattern |-> FALSE]}
  /\ Ends(o)
  /\ UNCHANGED <<around, turns, faults>>

-----------------------------------------------------------------------------
\* The session of a release: one link, chosen when it is first used.

\* Sessions share nothing, so that those of one operator are all there is to see.
StartRelease(o) ==
  /\ cmd[o].pc = "idle" /\ Turn
  /\ cmd' = [cmd EXCEPT ![o] = [Ready EXCEPT !.pc = "resolve", !.left = 2]]
  /\ UNCHANGED <<around, known, faults>>

Resolve(o) ==
  /\ cmd[o].pc = "resolve"
  /\ \E e \in FirstReachable(Ranked(offered)) :
       cmd' = [cmd EXCEPT ![o].pc = "ask", ![o].endpoint = e]
  /\ UNCHANGED <<around, known, turns, faults>>

OverWire(e) == e # None /\ e.link = "wired"

\* A Host not on the wire is asked for its addresses, unless the operator gave
\* one; a Host that cannot say leaves the choice as it is.
AskHost(o) ==
  /\ cmd[o].pc = "ask"
  /\ LET e == cmd[o].endpoint IN
     \/ /\ IF e = None \/ OverWire(e) \/ profile.literal \/ ~Answers(e)
           THEN To(o, "gate")
           ELSE cmd' = [cmd EXCEPT ![o].pc = "prefer",
                                   ![o].published = {a \in HostAddress : at[a] = Hears(e)}]
        /\ UNCHANGED faults
     \/ e # None /\ To(o, "gate") /\ Fault("ask_fails")
  /\ UNCHANGED <<around, known, turns>>

\* Nothing but the wire is worth changing a working choice for.
PreferWired(o) ==
  /\ cmd[o].pc = "prefer"
  /\ \E e \in FirstReachable({f \in Ranked(cmd[o].published) : OverWire(f)}) :
       cmd' = [cmd EXCEPT ![o].pc = "gate", ![o].published = {},
                          ![o].endpoint = IF e = None THEN @ ELSE e]
  /\ UNCHANGED <<around, known, turns, faults>>

\* Before anything is sealed: what the link is, and whether it will do.
Gate(o) ==
  /\ cmd[o].pc = "gate"
  /\ IF profile.required /\ ~OverWire(cmd[o].endpoint) THEN Ends(o)
     ELSE cmd' = [cmd EXCEPT ![o].pc = "upload", ![o].report = cmd[o].endpoint]
  /\ UNCHANGED <<around, known, turns, faults>>

\* Mutant: the name is resolved again for every call.
TargetAnew(o) == FirstReachable(Ranked(offered)) \ {None}

\* The endpoints a call may take: the one chosen, or whatever the name means.
Target(o) ==
  IF cmd[o].endpoint # None THEN {cmd[o].endpoint}
  ELSE {[address |-> a, interface |-> None, link |-> "unknown"] : a \in offered}

Fails(e) == ~Answers(e) \/ (BindInterface(e) = None /\ Silent(e.address))

\* Guards, uploads and resumptions of the upload: each is a call of its own.
Upload(o) ==
  /\ cmd[o].pc = "upload" /\ cmd[o].left > 0
  /\ \/ \E e \in Target(o) :
          /\ Answers(e)
          /\ cmd' = [cmd EXCEPT ![o].left = @ - 1,
                                 ![o].over = [interface |-> LeavesBy(e), endpoint |-> e]]
     \/ (Target(o) = {} \/ \E e \in Target(o) : Fails(e)) /\ Ends(o)
  /\ UNCHANGED <<around, known, turns, faults>>

\* What follows is of the release transaction, and not of the link.
Uploaded(o) ==
  /\ cmd[o].pc = "upload" /\ cmd[o].left = 0
  /\ Ends(o)
  /\ UNCHANGED <<around, known, turns, faults>>

OperatorDies(o) ==
  /\ cmd[o].pc # "idle" /\ Fault("operator_dies")
  /\ Ends(o)
  /\ UNCHANGED <<around, known, turns>>

-----------------------------------------------------------------------------
Proceed(o) ==
  \/ Scan(o) \/ Look(o) \/ Match(o) \/ Write(o)
  \/ Resolve(o) \/ AskHost(o) \/ PreferWired(o) \/ Gate(o) \/ Upload(o) \/ Uploaded(o)

Next ==
  \/ \E k \in Key : Swap(k)
  \/ \E a \in HostAddress : Ages(a) \/ \E who \in Key \cup {None} : Moves(a, who)
  \/ \E i \in Interface : Plug(i)
  \/ \E o \in Operator \ {Lead}, replace \in Key \cup {None}, apply \in BOOLEAN :
       TrustHostKey(o, replace, apply)
  \/ \E o \in Operator : Proceed(o) \/ OperatorDies(o)
  \/ Confirm(Lead) \/ StartRelease(Lead)

-----------------------------------------------------------------------------
\* What a name is trusted for changes for this one only, to one key, and from
\* another key only if the operator named the new one.
TrustNamed ==
  \A n \in Name : Trusted(n)' # Trusted(n) =>
    /\ n = This
    /\ \E o \in Operator : cmd[o].pc = "write" /\ Trusted(n)' = {cmd[o].key} /\
         (cmd[o].key \in Trusted(n) \/ Trusted(n) = {} \/ cmd[o].replace = cmd[o].key)

\* Every call of an upload leaves by the interface that was reported, a wired
\* one where the profile asks for it.
OverReported ==
  \A o \in Operator : cmd[o].over # None =>
    /\ cmd[o].report # None => cmd[o].over.endpoint = cmd[o].report
    /\ profile.required => Kind[cmd[o].over.interface] = "wired"

\* The board is the one machine trusted, or it is not the one that answers, or
\* the file holds a policy this command leaves to a person.
Trusts == Trusted(This) = {board}
Obstructed == Presented # {board} \/ ~Plain(Matching(known))
=============================================================================
