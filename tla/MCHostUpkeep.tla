---------------------------- MODULE MCHostUpkeep ----------------------------
EXTENDS HostUpkeep, TLC

CONSTANTS o1, o2, r1, r2

FirstSlotsDef == {<<"token", 1>>, <<"token", 2>>, <<"llm", 2>>}
SlotsDef == FirstSlotsDef \cup {<<"token", 3>>, <<"pair", 1>>, <<"voice", 2>>}

MaxFaultsDef == [source |-> 2, kernel |-> 1, credentials |-> 1, board |-> 1,
                  artifacts |-> 1, owner |-> 1, link |-> 1]

\* nats-server, uv, and node with two of its executables.
LinksDef == 1 :> 1 @@ 2 :> 1 @@ 3 :> 2

\* Two releases with an object in common; only the second selects a model.
ObjectsDef == r1 :> {1, 2} @@ r2 :> {2, 3}
SelectsDef == r1 :> {} @@ r2 :> {1}

\* One unit of every Host, two of Hosts that run a model, the message bus.
UnitDef == [agent |-> [component |-> "agent", capability |-> None],
            llm   |-> [component |-> "models", capability |-> "llm"],
            laya  |-> [component |-> "models", capability |-> "laya"],
            nats  |-> [component |-> "platform", capability |-> None]]
DependencyDef == {{}, {"agent"}, {"llm"}, {"nats"}, {"agent", "llm"}, {"typo"}}
ClaimDef == [llm_api |-> [component |-> "models", units |-> {"llm"}],
             spare   |-> [component |-> "models", units |-> {}],
             token   |-> [component |-> "models", units |-> {"llm", "laya"}]]
UnderDef == {<<"lib", "lib">>, <<"lib/models", "lib">>, <<"lib/models", "lib/models">>,
             <<"opt", "opt">>}

\* A cable to the Host, the Wi-Fi both are on, a VPN; every connected interface
\* claims the link-local address, which lies at the end of the cable.
KindDef == [wire |-> "wired", wifi |-> "wireless", tunnel |-> "unknown"]
ReachesDef == [wire |-> {"local"}, wifi |-> {"local", "lan"}, tunnel |-> {"vpn"}]
LiesDef == [local |-> "wire", lan |-> "wifi", vpn |-> "tunnel"]

\* No file; a line shared with another Host beside one of its own with another
\* key; a pattern.
Line(names, key) == [names |-> names, key |-> key, pattern |-> FALSE]
Shared == Line({"pi5", "rk"}, 1)
KnownHostsDef == {{}, {Shared, Line({"pi5"}, 2)}, {[Shared EXCEPT !.pattern = TRUE]}}
=============================================================================
