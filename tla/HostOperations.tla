--------------------------- MODULE HostOperations ---------------------------
(***************************************************************************)
(* Every operation the console offers: what a Host must be able to do       *)
(* (console/catalog.py), what its plan declares (plans.py), and what the    *)
(* handler then does to the Host (host_controller.py and what it calls).    *)
(* The three are written independently in the code, and so they are here.   *)
(*                                                                         *)
(* The parameters of a request are the set of its switches that are on.     *)
(* Texts, numbers and paths are left out, except two choices that decide    *)
(* what happens: "forward-only" and the sub-operation of `debug`; `resume` and     *)
(* the numbers to forget change neither a plan nor what is touched.         *)
(***************************************************************************)
EXTENDS FiniteSets

-----------------------------------------------------------------------------
\* The catalog: capability, switches, and the switch that turns a rehearsal
\* into a mutation.

Entry(needs, switches, gate) == [needs |-> needs, switches |-> switches, gate |-> gate]

ObserveEntries ==
  [op \in {"status", "doctor", "app-ready", "diagnose", "logs"} |->
     Entry(op, IF op = "logs" THEN {"since"} ELSE {}, "always")]

DebugChoices == {"prepare", "validate", "status", "web-start", "web-stop", "web-restart",
                 "web-status", "commissioning-code"}

LifecycleEntries ==
  [op \in {"start", "stop", "restart", "service-restart", "commissioning-code", "debug"} |->
     CASE op \in {"start", "stop", "restart"} -> Entry("lifecycle", {"dry_run"}, "unless_dry_run")
       [] op = "service-restart" -> Entry(op, {"dry_run"}, "unless_dry_run")
       [] op = "commissioning-code" -> Entry(op, {}, "always")
       [] op = "debug" -> Entry(op, DebugChoices, "always")]

ReleaseEntries ==
  [op \in {"provision", "init-inputs", "install", "deploy", "rollback"} |->
     CASE op \in {"provision", "rollback"} -> Entry(op, {"apply"}, "apply")
       [] op = "init-inputs" -> Entry(op, {"new_identity"}, "always")
       [] op = "install" -> Entry(op, {"reset_existing", "wipe", "apply"}, "apply")
       [] op = "deploy" -> Entry(op, {"forward-only", "activate"}, "activate")]

AuthorityEntries ==
  [op \in {"restore", "authority-restore", "controller-reset", "backup", "authority-backup", "reset",
           "kernel-schema-reset"} |->
     CASE op \in {"backup", "authority-backup"} -> Entry(op, {}, "always")
       [] op = "reset" -> Entry(op, {"wipe", "apply"}, "apply")
       [] op \in {"restore", "authority-restore", "controller-reset", "kernel-schema-reset"} ->
            Entry(op, {"apply"}, "apply")]

Operation ==
  DOMAIN ObserveEntries \cup DOMAIN LifecycleEntries \cup DOMAIN ReleaseEntries
    \cup DOMAIN AuthorityEntries
Catalog ==
  [op \in Operation |->
     CASE op \in DOMAIN ObserveEntries -> ObserveEntries[op]
       [] op \in DOMAIN LifecycleEntries -> LifecycleEntries[op]
       [] op \in DOMAIN ReleaseEntries -> ReleaseEntries[op]
       [] op \in DOMAIN AuthorityEntries -> AuthorityEntries[op]]

\* coerce_parameters: what the operation never declared is refused, and a
\* switch the Host has no capability for may not be on.  `debug` takes one
\* choice of many.
Coerced(op, params, capabilities) ==
  /\ params \subseteq Catalog[op].switches
  /\ "since" \in params => "log-history" \in capabilities
  /\ op = "debug" => Cardinality(params) = 1

Applies(op, params) ==
  CASE Catalog[op].gate = "always" -> TRUE
    [] Catalog[op].gate = "unless_dry_run" -> "dry_run" \notin params
    [] OTHER -> Catalog[op].gate \in params

-----------------------------------------------------------------------------
\* The plans: how far an operation can be walked back and what it touches.

Plan(destructive, touches) == [destructive |-> destructive, touches |-> touches]
If(condition, level) == IF condition THEN level ELSE "none"
Also(condition, kinds) == IF condition THEN kinds ELSE {}

ObservePlan(op, params) == Plan("none", {})

LifecyclePlan(op, params) ==
  CASE op = "commissioning-code" -> Plan("none", {"secret"})
    [] op = "debug" -> Plan("none", Also("prepare" \in params, {"config"}))
    [] OTHER -> Plan("reversible", {"lifecycle"})

ReleasePlan(op, params) ==
  CASE op = "provision" -> Plan("none", {"config"})
    [] op = "init-inputs" ->
         Plan(If("new_identity" \in params, "irreversible"), {"secret", "config"})
    [] op = "install" ->
         Plan(If("wipe" \in params, "irreversible"),
              {"code", "config", "secret", "schema", "lifecycle"} \cup Also("wipe" \in params, {"data"}))
    [] op \in {"deploy", "rollback"} -> Plan("reversible", {"code", "lifecycle"})

AuthorityPlan(op, params) ==
  LET applied == "apply" \in params IN
  CASE op \in {"backup", "authority-backup"} -> Plan("none", {"data"})
    [] op = "restore" -> Plan("irreversible", {"data", "lifecycle"})
    [] op = "authority-restore" ->
         Plan(If(applied, "reversible"), {"config", "data", "lifecycle"})
    [] op = "kernel-schema-reset" ->
         Plan(If(applied, "irreversible"), {"schema", "data", "lifecycle"})
    [] op = "controller-reset" -> Plan("irreversible", {"secret"})
    [] op = "reset" ->
         Plan("irreversible",
              {"code", "config", "secret", "lifecycle"} \cup Also("wipe" \in params, {"data"}))

PlanOf(op, params) ==
  CASE op \in DOMAIN ObserveEntries -> ObservePlan(op, params)
    [] op \in DOMAIN LifecycleEntries -> LifecyclePlan(op, params)
    [] op \in DOMAIN ReleaseEntries -> ReleasePlan(op, params)
    [] op \in DOMAIN AuthorityEntries -> AuthorityPlan(op, params)

\* required_confirmation: read off the plan of these exact parameters.
RequiredConfirmation(op, params) ==
  IF ~Applies(op, params) THEN "none"
  ELSE IF PlanOf(op, params).destructive = "irreversible" THEN "typed-host-id"
  ELSE IF PlanOf(op, params).touches # {} THEN "acknowledge" ELSE "none"

-----------------------------------------------------------------------------
\* What a Host can do: its composition of supervisor, packages, state.

SourceCapabilities ==
  {"status", "doctor", "app-ready", "lifecycle", "logs", "commissioning-code", "debug", "reset",
   "kernel-schema-reset", "service-restart", "provision", "backup", "restore"}

ProductCapabilities ==
  (SourceCapabilities \ {"debug"}) \cup
  {"log-history", "init-inputs", "converge-inputs", "repair-credentials", "install", "deploy",
   "rollback", "authority-backup", "authority-restore", "controller-reset", "diagnose",
   "trust-host-key", "trust-host-delivery", "ssh-config", "bring-up"}

Capabilities(kind) ==
  CASE kind = "product" -> ProductCapabilities
    [] kind = "source" -> SourceCapabilities
    [] OTHER -> {}

\* HostController asks the composed adapter again, and for more than the
\* catalog names where the parameters call for it.
Requires(op, params) ==
  {Catalog[op].needs} \cup Also("since" \in params, {"log-history"})

-----------------------------------------------------------------------------
\* What the handlers do to a Host of each kind when they run to their end, and
\* whether it can be walked back.

Effect(kinds, final) == [kinds |-> kinds, final |-> final]
Nil == Effect({}, FALSE)

\* A source run prepares and migrates its state on every start.
LifecycleEffect(op, params, kind) ==
  IF "dry_run" \in params THEN Nil
  ELSE CASE op \in {"start", "restart"} /\ kind = "source" ->
              Effect({"config", "secret", "schema", "lifecycle"}, FALSE)
         [] op = "commissioning-code" -> Effect({"secret"}, FALSE)
         [] OTHER -> Effect({"lifecycle"}, FALSE)

DebugEffect(params) ==
  CASE params \subseteq {"validate", "status", "web-status"} -> Nil
    [] params = {"prepare"} -> Effect({"config", "secret"}, FALSE)
    [] params = {"commissioning-code"} -> Effect({"secret"}, FALSE)
    [] OTHER -> Effect({"lifecycle"}, FALSE)

\* Mutant: either half of a clean reinstall is taken for both.
InstallEffectHalf(params) ==
  IF "apply" \notin params THEN Nil
  ELSE IF "reset_existing" \in params
  THEN Effect({"code", "config", "secret", "schema", "lifecycle", "data"}, TRUE)
  ELSE Effect({"code", "config", "secret", "schema", "lifecycle"}, FALSE)

\* A clean reinstall asks for both halves and refuses either alone.
InstallEffect(params) ==
  IF "apply" \notin params \/ ~("wipe" \in params <=> "reset_existing" \in params) THEN Nil
  ELSE IF "reset_existing" \in params
  THEN Effect({"code", "config", "secret", "schema", "lifecycle", "data"}, TRUE)
  ELSE Effect({"code", "config", "secret", "schema", "lifecycle"}, FALSE)

\* Without `activate` the candidate is still uploaded, built and retained on
\* the Host; with it, missing credentials and the Host layer are delivered too.
DeployEffect(params) ==
  IF "activate" \in params
  THEN Effect({"code", "config", "secret", "lifecycle"}, "forward-only" \in params)
  ELSE Effect({"code"}, FALSE)

\* Replacing an authority or wiping a namespace has no way back; a Host's own
\* authority package does.
AuthorityEffect(op, params) ==
  IF op \in {"backup", "authority-backup"} \/ "apply" \notin params THEN Nil
  ELSE CASE op = "restore" -> Effect({"data", "lifecycle"}, TRUE)
         [] op = "authority-restore" -> Effect({"config", "data", "lifecycle"}, FALSE)
         [] op = "kernel-schema-reset" -> Effect({"schema", "data", "lifecycle"}, TRUE)
         [] op = "controller-reset" -> Effect({"secret"}, TRUE)
         [] op = "reset" ->
              Effect({"code", "config", "secret", "lifecycle"} \cup Also("wipe" \in params, {"data"}),
                     TRUE)

EffectOf(op, params, kind) ==
  CASE op \in DOMAIN ObserveEntries -> Nil
    [] op = "debug" -> DebugEffect(params)
    [] op \in DOMAIN LifecycleEntries \ {"debug"} -> LifecycleEffect(op, params, kind)
    [] op = "provision" -> Effect(Also("apply" \in params, {"config"}), FALSE)
    [] op = "init-inputs" -> Effect({"secret", "config"}, "new_identity" \in params)
    [] op = "install" -> InstallEffect(params)
    [] op = "deploy" -> DeployEffect(params)
    [] op = "rollback" -> Effect(Also("apply" \in params, {"code", "lifecycle"}), FALSE)
    [] op \in DOMAIN AuthorityEntries -> AuthorityEffect(op, params)

\* The verdict of an operation that ran to its end.
Outcome(op, params) ==
  IF op \in {"status", "doctor", "app-ready", "logs"} THEN "observed"
  ELSE IF Applies(op, params) THEN "applied" ELSE "planned"
=============================================================================
