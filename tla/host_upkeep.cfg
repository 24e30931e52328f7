SPECIFICATION Spec
CONSTANTS
  Machine = {"source", "kernel", "credentials", "board", "artifacts", "owner", "selection", "link"}
  o1 = o1
  o2 = o2
  r1 = r1
  r2 = r2
  Operator = {o1, o2}
  Lead = o1
  None = None
  Uncounted = Uncounted
  MaxFaults <- MaxFaultsDef
  Faults = {"rename_fails", "start_fails", "stop_fails", "step_fails", "remove_fails",
            "operator_dies", "machine_reboots", "ask_fails", "quiesce_fails", "agent_dies",
            "upload_fails", "agent_stops", "script_stops", "session_drops", "transfer_breaks", "gate_fails", "dies",
            "material_lost"}
  Root = {"bootstrap", "hub"}
  MaxEpoch = 2
  MaxAside = 2
  Schema = {1, 2}
  CountedFrom = 2
  MaxSelections = 2
  MaxTurns = 2
  Class = {"token", "llm", "pair", "voice"}
  File = {1, 2, 3}
  Provider = {"llm", "voice"}
  Slots <- SlotsDef
  InstalledFiles = {{1, 2, 3}, {1, 3}}
  FirstSlots <- FirstSlotsDef
  MaxEdits = 2
  Artifacts = 3
  Wheel = 2
  Links <- LinksDef
  Service = {"avahi"}
  Release = {r1, r2}
  Goal = r2
  Objects <- ObjectsDef
  Model = {1}
  Selects <- SelectsDef
  MaxDeploys = 1
  Half = Half
  Port = {1, 2}
  MaxGeneration = 2
  MaxEra = 2
  MaxContract = 2
  MaxIssued = 4
  MaxCommands = 2
  Capability = {"llm", "laya"}
  Component = {"agent", "models"}
  Platform = "platform"
  Unit <- UnitDef
  Targets = {"target"}
  Dependency <- DependencyDef
  Claim <- ClaimDef
  Extra = "models"
  Tasked = "laya"
  Local = "llm"
  Cleared = {"lib"}
  Path = {"lib", "lib/models", "opt"}
  Under <- UnderDef
  This = "pi5"
  Name = {"pi5", "rk"}
  Key = {1, 2}
  Interface = {"wire", "wifi", "tunnel"}
  Kind <- KindDef
  Reaches <- ReachesDef
  HostAddress = {"local", "lan", "vpn"}
  LinkLocal = {"local"}
  Lies <- LiesDef
  KnownHosts <- KnownHostsDef
INVARIANTS
  SourceStateKept
  FoundationBacked
  SelectionStarts
  UploadKeepsLink
PROPERTIES
  SetAsideWarranted
  RotationKept
  ModelsKept
  DirectoryLineKept
  TrustNamed
  UpkeepEnds
CHECK_DEADLOCK FALSE
