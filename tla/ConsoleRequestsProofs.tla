----------------------- MODULE ConsoleRequestsProofs -----------------------
(***************************************************************************)
(* ChangesAreConfirmed is an invariant of ConsoleRequests for any number of *)
(* Hosts, requests and edits of a profile, every operation and every set of *)
(* switches.  The catalog, the plans and the effects are compared group by  *)
(* group (EffectsAreWarranted); ConsoleInv carries what was asked from the  *)
(* request to the end of its run.  The console's requests are runs of       *)
(* RunStore (RequestsImplementRuns).                                        *)
(***************************************************************************)
EXTENDS ConsoleRequests, TLAPS

-----------------------------------------------------------------------------
(***************************************************************************)
(* The catalog: what is asked before an operation runs, and what it does.   *)
(***************************************************************************)
LEMMA GroupsApart ==
  ASSUME NEW op
  PROVE  /\ op \in DOMAIN ObserveEntries <=> op \in {"status", "doctor", "app-ready", "diagnose", "logs"}
         /\ op \in DOMAIN LifecycleEntries <=>
              op \in {"start", "stop", "restart", "service-restart", "commissioning-code", "debug"}
         /\ op \in DOMAIN ReleaseEntries <=>
              op \in {"provision", "init-inputs", "install", "deploy", "rollback"}
         /\ op \in DOMAIN AuthorityEntries <=>
              op \in {"restore", "authority-restore", "controller-reset", "backup", "authority-backup",
                      "reset", "kernel-schema-reset"}
BY DEF ObserveEntries, LifecycleEntries, ReleaseEntries, AuthorityEntries

LEMMA ObserveGates ==
  ASSUME NEW op \in DOMAIN ObserveEntries
  PROVE  op \in Operation /\ Catalog[op].gate = "always"
<1>1. op \notin DOMAIN LifecycleEntries /\ op \notin DOMAIN ReleaseEntries /\ op \notin DOMAIN AuthorityEntries
  BY GroupsApart
<1>2. op \in Operation BY DEF Operation
<1>3. Catalog[op] = ObserveEntries[op] BY <1>1, <1>2 DEF Catalog
<1> QED BY <1>2, <1>3 DEF ObserveEntries, Entry

LEMMA LifecycleGates ==
  ASSUME NEW op \in DOMAIN LifecycleEntries
  PROVE  /\ op \in Operation
         /\ op \in {"start", "stop", "restart", "service-restart"} => Catalog[op].gate = "unless_dry_run"
         /\ op \in {"commissioning-code", "debug"} => Catalog[op].gate = "always"
<1>1. op \notin DOMAIN ObserveEntries /\ op \notin DOMAIN ReleaseEntries /\ op \notin DOMAIN AuthorityEntries
  BY GroupsApart
<1>2. op \in Operation BY DEF Operation
<1>3. Catalog[op] = LifecycleEntries[op] BY <1>1, <1>2 DEF Catalog
<1>4. op \in {"start", "stop", "restart", "service-restart", "commissioning-code", "debug"}
  BY GroupsApart
<1>5. CASE op \in {"start", "stop", "restart"}
  <2>1. LifecycleEntries[op] = Entry("lifecycle", {"dry_run"}, "unless_dry_run")
    BY <1>5 DEF LifecycleEntries
  <2>2. LifecycleEntries[op].gate = "unless_dry_run" BY <2>1 DEF Entry
  <2>3. op \notin {"commissioning-code", "debug"} BY <1>5
  <2> QED BY <1>2, <1>3, <2>2, <2>3
<1>6. CASE op = "service-restart"
  <2>1. LifecycleEntries[op] = Entry(op, {"dry_run"}, "unless_dry_run")
    BY <1>6 DEF LifecycleEntries
  <2>2. LifecycleEntries[op].gate = "unless_dry_run" BY <2>1 DEF Entry
  <2>3. op \notin {"commissioning-code", "debug"} BY <1>6
  <2> QED BY <1>2, <1>3, <2>2, <2>3
<1>7. CASE op = "commissioning-code" BY <1>2, <1>3, <1>7 DEF LifecycleEntries, Entry
<1>8. CASE op = "debug" BY <1>2, <1>3, <1>8 DEF LifecycleEntries, Entry
<1> QED BY <1>4, <1>5, <1>6, <1>7, <1>8

LEMMA ReleaseGates ==
  ASSUME NEW op \in DOMAIN ReleaseEntries
  PROVE  /\ op \in Operation
         /\ op \in {"provision", "rollback", "install"} => Catalog[op].gate = "apply"
         /\ op = "init-inputs" => Catalog[op].gate = "always"
         /\ op = "deploy" => Catalog[op].gate = "activate"
<1>1. op \notin DOMAIN ObserveEntries /\ op \notin DOMAIN LifecycleEntries /\ op \notin DOMAIN AuthorityEntries
  BY GroupsApart
<1>2. op \in Operation BY DEF Operation
<1>3. Catalog[op] = ReleaseEntries[op] BY <1>1, <1>2 DEF Catalog
<1> QED BY <1>2, <1>3 DEF ReleaseEntries, Entry

LEMMA AuthorityGates ==
  ASSUME NEW op \in DOMAIN AuthorityEntries
  PROVE  /\ op \in Operation
         /\ op \in {"backup", "authority-backup"} => Catalog[op].gate = "always"
         /\ op \notin {"backup", "authority-backup"} => Catalog[op].gate = "apply"
<1>1. op \notin DOMAIN ObserveEntries /\ op \notin DOMAIN LifecycleEntries /\ op \notin DOMAIN ReleaseEntries
  BY GroupsApart
<1>2. op \in Operation BY DEF Operation
<1>3. Catalog[op] = AuthorityEntries[op] BY <1>1, <1>2 DEF Catalog
<1> QED BY <1>2, <1>3 DEF AuthorityEntries, Entry

\* What is asked is one of three, and it is "none" only for what is rehearsed
\* or touches nothing.
LEMMA AskedLevels ==
  ASSUME NEW op, NEW params
  PROVE  /\ RequiredConfirmation(op, params) \in {"none", "acknowledge", "typed-host-id"}
         /\ Applies(op, params) =>
              /\ PlanOf(op, params).touches # {} => RequiredConfirmation(op, params) # "none"
              /\ PlanOf(op, params).destructive = "irreversible" =>
                   RequiredConfirmation(op, params) = "typed-host-id"
BY DEF RequiredConfirmation

\* What must have been asked before an effect.
Warranted(op, params, effect) ==
  LET required == RequiredConfirmation(op, params)
      q == [op |-> op, params |-> params] IN
  /\ effect # Nil => required # "none" \/ Unasked(q)
  /\ effect.final => required = "typed-host-id" \/ DeclaredBack(q)

LEMMA NilIsWarranted ==
  ASSUME NEW op, NEW params
  PROVE  Warranted(op, params, Nil)
BY DEF Warranted, Nil, Effect

LEMMA ObserveWarranted ==
  ASSUME NEW op \in DOMAIN ObserveEntries, NEW params, NEW kind
  PROVE  Warranted(op, params, EffectOf(op, params, kind))
<1>1. op # "debug" /\ op \notin DOMAIN LifecycleEntries /\ op \notin DOMAIN AuthorityEntries
      /\ op \notin {"provision", "init-inputs", "install", "deploy", "rollback"}
  BY GroupsApart
<1>2. EffectOf(op, params, kind) = Nil BY <1>1 DEF EffectOf
<1> QED BY <1>2, NilIsWarranted

LEMMA LifecycleWarranted ==
  ASSUME NEW op \in DOMAIN LifecycleEntries, NEW params, NEW kind
  PROVE  Warranted(op, params, EffectOf(op, params, kind))
<1> DEFINE effect == EffectOf(op, params, kind)
<1>1. /\ op \notin DOMAIN ObserveEntries /\ op \notin DOMAIN ReleaseEntries
      /\ op \notin DOMAIN AuthorityEntries
      /\ op \notin {"provision", "init-inputs", "install", "deploy", "rollback"}
  BY GroupsApart
<1>2. PlanOf(op, params) = LifecyclePlan(op, params) BY <1>1 DEF PlanOf
<1>3. op \in {"start", "stop", "restart", "service-restart", "commissioning-code", "debug"}
  BY GroupsApart
<1>4. CASE op = "debug"
  <2>1. effect = DebugEffect(params) BY <1>1, <1>4 DEF EffectOf
  <2>2. Applies(op, params) BY <1>4, LifecycleGates DEF Applies
  <2>3. CASE params # {"prepare"}
    <3>1. Unasked([op |-> op, params |-> params]) BY <1>4, <2>3 DEF Unasked
    <3>2. ~ effect.final
      <4>1. effect \in {Nil, Effect({"config", "secret"}, FALSE), Effect({"secret"}, FALSE),
                        Effect({"lifecycle"}, FALSE)}
        BY <2>1 DEF DebugEffect
      <4> QED BY <4>1 DEF Nil, Effect
    <3> QED BY <3>1, <3>2 DEF Warranted
  <2>4. CASE params = {"prepare"}
    <3>1. PlanOf(op, params).touches = {"config"}
      BY <1>2, <1>4, <2>4 DEF LifecyclePlan, Plan, Also
    <3>2. ~ effect.final
      <4>1. effect \in {Nil, Effect({"config", "secret"}, FALSE), Effect({"secret"}, FALSE),
                        Effect({"lifecycle"}, FALSE)}
        BY <2>1 DEF DebugEffect
      <4> QED BY <4>1 DEF Nil, Effect
    <3> QED BY <2>2, <3>1, <3>2, AskedLevels DEF Warranted
  <2> QED BY <2>3, <2>4
<1>5. CASE op # "debug"
  <2>1. effect = LifecycleEffect(op, params, kind) BY <1>1, <1>5 DEF EffectOf
  <2>2. ~ effect.final
    <3>1. effect \in {Nil, Effect({"config", "secret", "schema", "lifecycle"}, FALSE),
                      Effect({"secret"}, FALSE), Effect({"lifecycle"}, FALSE)}
      BY <2>1 DEF LifecycleEffect
    <3> QED BY <3>1 DEF Nil, Effect
  <2>3. CASE "dry_run" \in params
    <3>1. effect = Nil BY <2>1, <2>3 DEF LifecycleEffect
    <3> QED BY <3>1, NilIsWarranted
  <2>4. CASE "dry_run" \notin params
    <3>1. Applies(op, params)
      <4>1. CASE op = "commissioning-code" BY <4>1, LifecycleGates DEF Applies
      <4>2. CASE op \in {"start", "stop", "restart", "service-restart"}
        <5>1. Catalog[op].gate = "unless_dry_run" BY <4>2, LifecycleGates
        <5> QED BY <5>1, <2>4 DEF Applies
      <4> QED BY <1>3, <1>5, <4>1, <4>2
    <3>2. PlanOf(op, params).touches # {}
      <4>1. CASE op = "commissioning-code"
        <5>1. PlanOf(op, params).touches = {"secret"} BY <1>2, <4>1 DEF LifecyclePlan, Plan
        <5> QED BY <5>1
      <4>2. CASE op # "commissioning-code"
        <5>1. PlanOf(op, params).touches = {"lifecycle"} BY <1>2, <1>5, <4>2 DEF LifecyclePlan, Plan
        <5> QED BY <5>1
      <4> QED BY <4>1, <4>2
    <3> QED BY <2>2, <3>1, <3>2, AskedLevels DEF Warranted
  <2> QED BY <2>3, <2>4
<1> QED BY <1>4, <1>5

\* The two sides of a flag, for the provers that do not take it as a value.
LEMMA FinalOf ==
  ASSUME NEW kinds, NEW final \in BOOLEAN, Effect(kinds, final).final
  PROVE  final
<1>1. CASE final = FALSE
  <2>1. Effect(kinds, final) = [kinds |-> kinds, final |-> FALSE] BY <1>1 DEF Effect
  <2> QED BY <2>1
<1> QED BY <1>1

LEMMA ReleaseWarranted ==
  ASSUME NEW op \in DOMAIN ReleaseEntries, NEW params, NEW kind
  PROVE  Warranted(op, params, EffectOf(op, params, kind))
<1> DEFINE effect == EffectOf(op, params, kind)
<1>1. /\ op \notin DOMAIN ObserveEntries /\ op \notin DOMAIN LifecycleEntries
      /\ op \notin DOMAIN AuthorityEntries /\ op # "debug"
  BY GroupsApart
<1>2. PlanOf(op, params) = ReleasePlan(op, params) BY <1>1 DEF PlanOf
<1>3. op \in {"provision", "init-inputs", "install", "deploy", "rollback"}
  BY GroupsApart
<1>4. CASE op \in {"provision", "rollback"}
  <2>1. effect \in {Effect(Also("apply" \in params, {"config"}), FALSE),
                    Effect(Also("apply" \in params, {"code", "lifecycle"}), FALSE)}
    BY <1>1, <1>4 DEF EffectOf
  <2>2. ~ effect.final BY <2>1 DEF Effect
  <2>3. CASE "apply" \notin params
    <3>1. effect = Nil BY <2>1, <2>3 DEF Nil, Also
    <3> QED BY <3>1, NilIsWarranted
  <2>4. CASE "apply" \in params
    <3>1. Applies(op, params)
      <4>1. Catalog[op].gate = "apply" BY <1>4, ReleaseGates
      <4> QED BY <4>1, <2>4 DEF Applies
    <3>2. PlanOf(op, params).touches \in {{"config"}, {"code", "lifecycle"}}
      BY <1>2, <1>4 DEF ReleasePlan, Plan
    <3> QED BY <2>2, <3>1, <3>2, AskedLevels DEF Warranted
  <2> QED BY <2>3, <2>4
<1>5. CASE op = "init-inputs"
  <2>1. effect = Effect({"secret", "config"}, "new_identity" \in params)
    BY <1>1, <1>5 DEF EffectOf
  <2>2. PlanOf(op, params) = Plan(If("new_identity" \in params, "irreversible"), {"secret", "config"})
    BY <1>2, <1>5 DEF ReleasePlan
  <2>3. /\ PlanOf(op, params).touches # {}
        /\ "new_identity" \in params => PlanOf(op, params).destructive = "irreversible"
    <3>1. PlanOf(op, params).touches = {"secret", "config"} BY <2>2 DEF Plan
    <3>2. PlanOf(op, params).destructive = If("new_identity" \in params, "irreversible")
      BY <2>2 DEF Plan
    <3> QED BY <3>1, <3>2 DEF If
  <2>4. Applies(op, params) BY <1>5, ReleaseGates DEF Applies
  <2>5. effect.final => "new_identity" \in params
    <3>1. ("new_identity" \in params) \in BOOLEAN OBVIOUS
    <3> QED BY <2>1, <3>1, FinalOf, Zenon
  <2> QED BY <2>3, <2>4, <2>5, AskedLevels DEF Warranted
<1>6. CASE op = "install"
  <2>1. effect = InstallEffect(params) BY <1>1, <1>6 DEF EffectOf
  <2>2. CASE "apply" \notin params \/ ~("wipe" \in params <=> "reset_existing" \in params)
    <3>1. effect = Nil BY <2>1, <2>2 DEF InstallEffect
    <3> QED BY <3>1, NilIsWarranted
  <2>3. CASE "apply" \in params /\ ("wipe" \in params <=> "reset_existing" \in params)
    <3>1. Applies(op, params)
      <4>1. Catalog[op].gate = "apply" BY <1>6, ReleaseGates
      <4> QED BY <4>1, <2>3 DEF Applies
    <3>2. effect.final => "wipe" \in params
      <4>1. "reset_existing" \notin params =>
               effect = Effect({"code", "config", "secret", "schema", "lifecycle"}, FALSE)
        BY <2>1, <2>3 DEF InstallEffect
      <4> QED BY <2>3, <4>1 DEF Effect
    <3>3. PlanOf(op, params) =
            Plan(If("wipe" \in params, "irreversible"),
                 {"code", "config", "secret", "schema", "lifecycle"} \cup Also("wipe" \in params, {"data"}))
      BY <1>2, <1>6 DEF ReleasePlan
    <3>4. PlanOf(op, params).touches # {}
      <4>1. "code" \in PlanOf(op, params).touches BY <3>3 DEF Plan
      <4> QED BY <4>1
    <3>5. "wipe" \in params => PlanOf(op, params).destructive = "irreversible"
      BY <3>3 DEF Plan, If
    <3> QED BY <3>1, <3>2, <3>4, <3>5, AskedLevels DEF Warranted
  <2> QED BY <2>2, <2>3
<1>7. CASE op = "deploy"
  <2> DEFINE q == [op |-> op, params |-> params]
  <2>1. effect = DeployEffect(params) BY <1>1, <1>7 DEF EffectOf
  <2>2. CASE "activate" \notin params
    <3>1. Unasked(q) BY <1>7, <2>2 DEF Unasked
    <3>2. effect = Effect({"code"}, FALSE) BY <2>1, <2>2 DEF DeployEffect
    <3>3. ~ effect.final BY <3>2 DEF Effect
    <3> QED BY <3>1, <3>3 DEF Warranted
  <2>3. CASE "activate" \in params
    <3>1. Applies(op, params)
      <4>1. Catalog[op].gate = "activate" BY <1>7, ReleaseGates
      <4> QED BY <4>1, <2>3 DEF Applies
    <3>2. PlanOf(op, params).touches # {}
      <4>1. PlanOf(op, params).touches = {"code", "lifecycle"}
        BY <1>2, <1>7 DEF ReleasePlan, Plan
      <4> QED BY <4>1
    <3>3. effect.final => "forward-only" \in params
      <4>1. effect = Effect({"code", "config", "secret", "lifecycle"}, "forward-only" \in params)
        BY <2>1, <2>3 DEF DeployEffect
      <4>2. ("forward-only" \in params) \in BOOLEAN OBVIOUS
      <4> QED BY <4>1, <4>2, FinalOf, Zenon
    <3>4. "forward-only" \in params => DeclaredBack(q) BY <1>7 DEF DeclaredBack
    <3> QED BY <3>1, <3>2, <3>3, <3>4, AskedLevels DEF Warranted
  <2> QED BY <2>2, <2>3
<1> QED BY <1>3, <1>4, <1>5, <1>6, <1>7

LEMMA AuthorityWarranted ==
  ASSUME NEW op \in DOMAIN AuthorityEntries, NEW params, NEW kind
  PROVE  Warranted(op, params, EffectOf(op, params, kind))
<1> DEFINE effect == EffectOf(op, params, kind)
<1>1. /\ op \notin DOMAIN ObserveEntries /\ op \notin DOMAIN LifecycleEntries
      /\ op \notin DOMAIN ReleaseEntries /\ op # "debug"
      /\ op \notin {"provision", "init-inputs", "install", "deploy", "rollback"}
  BY GroupsApart
<1>2. PlanOf(op, params) = AuthorityPlan(op, params) BY <1>1 DEF PlanOf
<1>3. effect = AuthorityEffect(op, params) BY <1>1 DEF EffectOf
<1>4. op \in {"restore", "authority-restore", "controller-reset", "backup", "authority-backup",
              "reset", "kernel-schema-reset"}
  BY GroupsApart
<1>5. CASE op \in {"backup", "authority-backup"} \/ "apply" \notin params
  <2>1. effect = Nil BY <1>3, <1>5 DEF AuthorityEffect
  <2> QED BY <2>1, NilIsWarranted
<1>6. CASE op \notin {"backup", "authority-backup"} /\ "apply" \in params
  <2>1. Applies(op, params)
    <3>1. Catalog[op].gate = "apply" BY <1>6, AuthorityGates
    <3> QED BY <3>1, <1>6 DEF Applies
  <2>2. CASE op = "authority-restore"
    <3>1. effect = Effect({"config", "data", "lifecycle"}, FALSE)
      BY <1>3, <1>6, <2>2 DEF AuthorityEffect
    <3>2. ~ effect.final BY <3>1 DEF Effect
    <3>3. PlanOf(op, params) = Plan(If("apply" \in params, "reversible"), {"config", "data", "lifecycle"})
      BY <1>2, <2>2 DEF AuthorityPlan
    <3>4. PlanOf(op, params).touches # {}
      <4>1. PlanOf(op, params).touches = {"config", "data", "lifecycle"} BY <3>3 DEF Plan
      <4> QED BY <4>1
    <3> QED BY <2>1, <3>2, <3>4, AskedLevels DEF Warranted
  <2>3. CASE op # "authority-restore"
    <3>1. PlanOf(op, params).destructive = "irreversible"
      <4>1. CASE op = "restore"
        <5>1. PlanOf(op, params) = Plan("irreversible", {"data", "lifecycle"})
          BY <1>2, <4>1 DEF AuthorityPlan
        <5> QED BY <5>1 DEF Plan
      <4>2. CASE op = "kernel-schema-reset"
        <5>1. PlanOf(op, params) =
                Plan(If("apply" \in params, "irreversible"), {"schema", "data", "lifecycle"})
          BY <1>2, <4>2 DEF AuthorityPlan
        <5> QED BY <1>6, <5>1 DEF Plan, If
      <4>3. CASE op = "controller-reset"
        <5>1. PlanOf(op, params) = Plan("irreversible", {"secret"})
          BY <1>2, <4>3 DEF AuthorityPlan
        <5> QED BY <5>1 DEF Plan
      <4>4. CASE op = "reset"
        <5>1. PlanOf(op, params) =
                Plan("irreversible",
                     {"code", "config", "secret", "lifecycle"} \cup Also("wipe" \in params, {"data"}))
          BY <1>2, <4>4 DEF AuthorityPlan
        <5> QED BY <5>1 DEF Plan
      <4> QED BY <1>4, <1>6, <2>3, <4>1, <4>2, <4>3, <4>4
    <3>2. RequiredConfirmation(op, params) = "typed-host-id" BY <2>1, <3>1, AskedLevels
    <3> QED BY <3>2 DEF Warranted
  <2> QED BY <2>2, <2>3
<1> QED BY <1>5, <1>6

\* Every effect of every operation on a Host of any kind was asked for.
LEMMA EffectsAreWarranted ==
  ASSUME NEW op \in Operation, NEW params, NEW kind
  PROVE  Warranted(op, params, EffectOf(op, params, kind))
BY ObserveWarranted, LifecycleWarranted, ReleaseWarranted, AuthorityWarranted DEF Operation

-----------------------------------------------------------------------------
(***************************************************************************)
(* A run from its request to its end.                                       *)
(***************************************************************************)
Runs == 1 .. MaxRuns
Alive == {"starting", "working", "reporting"}

\* A request the console let through: an operation of the catalog, confirmed
\* as the plan of its exact parameters asks.
Admitted(q) ==
  /\ q = [op |-> q.op, params |-> q.params, confirm |-> q.confirm]
  /\ q.op \in Operation
  /\ Confirmed(RequiredConfirmation(q.op, q.params), q.confirm)

\* The request outlives the work: it is there from the start of a run to the
\* end of its thread, and no handler has done anything outside that time.
RequestKept(r) ==
  /\ run[r].status = "none" => thread[r] = "none"
  /\ thread[r] \in Alive => Admitted(request[r])
  /\ did[r] # Nothing =>
       thread[r] \in {"working", "reporting"} /\ Warranted(request[r].op, request[r].params, did[r])

ConsoleTyped ==
  /\ run = [r \in Runs |-> run[r]] /\ \A r \in Runs : "status" \in DOMAIN run[r]
  /\ thread = [r \in Runs |-> thread[r]]
  /\ request = [r \in Runs |-> request[r]]
  /\ did = [r \in Runs |-> did[r]]

ConsoleInv == ConsoleTyped /\ \A r \in Runs : RequestKept(r)

USE DEF Runs

\* What is done while a request is admitted is what somebody agreed to.
LEMMA InvConfirms ==
  ASSUME ConsoleInv
  PROVE  ChangesAreConfirmed
<1> SUFFICES ASSUME NEW r \in Runs, Changed(r)
             PROVE  /\ request[r].confirm \in {"acknowledged", "typed"} \/ Unasked(request[r])
                    /\ did[r].final => request[r].confirm = "typed" \/ DeclaredBack(request[r])
  BY DEF ChangesAreConfirmed
<1> DEFINE q == request[r]
           required == RequiredConfirmation(q.op, q.params)
<1>1. did[r] # Nothing /\ did[r] # Nil BY DEF Changed
<1>2. Admitted(q) /\ Warranted(q.op, q.params, did[r])
  BY <1>1 DEF ConsoleInv, RequestKept, Alive
<1>3. required \in {"none", "acknowledge", "typed-host-id"} BY AskedLevels
<1>4. /\ required = "acknowledge" => q.confirm \in {"acknowledged", "typed"}
      /\ required = "typed-host-id" => q.confirm = "typed"
  BY <1>2 DEF Admitted, Confirmed
<1>5. /\ Unasked([op |-> q.op, params |-> q.params]) => Unasked(q)
      /\ DeclaredBack([op |-> q.op, params |-> q.params]) => DeclaredBack(q)
  BY DEF Unasked, DeclaredBack
<1>6. required # "none" \/ Unasked(q) BY <1>1, <1>2, <1>5 DEF Warranted
<1>7. did[r].final => required = "typed-host-id" \/ DeclaredBack(q) BY <1>2, <1>5 DEF Warranted
<1> QED BY <1>3, <1>4, <1>6, <1>7

LEMMA ConsoleInit ==
  Init => ConsoleInv
<1> SUFFICES ASSUME Init
             PROVE  ConsoleInv
  OBVIOUS
<1>1. /\ run = [r \in Runs |-> Store!Blank] /\ thread = [r \in Runs |-> "none"]
      /\ request = [r \in Runs |-> Nothing] /\ did = [r \in Runs |-> Nothing]
  BY DEF Init, Store!Init, Store!Run
<1>2. ConsoleTyped BY <1>1 DEF ConsoleTyped, Store!Blank
<1>3. ASSUME NEW r \in Runs
      PROVE  RequestKept(r)
  <2>1. thread[r] = "none" /\ did[r] = Nothing BY <1>1
  <2> QED BY <2>1 DEF RequestKept, Alive
<1> QED BY <1>2, <1>3 DEF ConsoleInv

\* An event changes the run it is of, and only that one.
LEMMA StorePublish ==
  ASSUME ConsoleTyped, NEW r \in Runs, NEW kind, NEW record, "status" \in DOMAIN record,
         Store!Publish(r, kind, record)
  PROVE  /\ run' = [q \in Runs |-> run'[q]] /\ \A q \in Runs : "status" \in DOMAIN run'[q]
         /\ run'[r].status = record.status
         /\ \A q \in Runs \ {r} : run'[q] = run[q]
<1>1. PICK next : /\ run' = [run EXCEPT ![r] = next]
                  /\ "status" \in DOMAIN next /\ next.status = record.status
  <2> DEFINE event == [seq |-> sequence + 1, kind |-> kind,
                       phases |-> [i \in DOMAIN record.phases |-> record.phases[i].status]]
  <2>1. run' = [run EXCEPT ![r] = [record EXCEPT !.events = Append(@, event)]]
    BY DEF Store!Publish
  <2>2. PICK events : events = Append(record.events, event) OBVIOUS
  <2>3. run' = [run EXCEPT ![r] = [record EXCEPT !.events = events]] BY <2>1, <2>2
  <2>4. PICK next : next = [record EXCEPT !.events = events] OBVIOUS
  <2>5. "status" \in DOMAIN next /\ next.status = record.status BY <2>4
  <2> QED BY <2>3, <2>4, <2>5
<1> QED BY <1>1 DEF ConsoleTyped

\* A run ends: its Host is free, its request gone.
LEMMA RunEnds ==
  ASSUME ConsoleInv, NEW r \in Runs, NEW status \in {"completed", "failed"},
         Store!Finish(r, status), thread' = [thread EXCEPT ![r] = "ended"], Ends(r)
  PROVE  ConsoleInv'
<1>1. ConsoleTyped BY DEF ConsoleInv
<1>2. PICK record : /\ "status" \in DOMAIN record /\ record.status = status
                    /\ Store!Publish(r, "run.finished", record)
  <2>1. PICK settled : settled = Store!Settle(run[r].phases, status) OBVIOUS
  <2>2. PICK record : record = [run[r] EXCEPT !.status = status, !.phases = settled] OBVIOUS
  <2>3. "status" \in DOMAIN record /\ record.status = status BY <1>1, <2>2 DEF ConsoleTyped
  <2>4. Store!Publish(r, "run.finished", record) BY <2>1, <2>2 DEF Store!Finish
  <2> QED BY <2>3, <2>4
<1>3. /\ run' = [q \in Runs |-> run'[q]] /\ \A q \in Runs : "status" \in DOMAIN run'[q]
      /\ run'[r].status = status /\ \A q \in Runs \ {r} : run'[q] = run[q]
  BY <1>1, <1>2, StorePublish
<1>4. /\ thread' = [q \in Runs |-> IF q = r THEN "ended" ELSE thread[q]]
      /\ request' = [q \in Runs |-> IF q = r THEN Nothing ELSE request[q]]
      /\ did' = [q \in Runs |-> IF q = r THEN Nothing ELSE did[q]]
  BY <1>1 DEF ConsoleTyped, Ends
<1>5. ConsoleTyped' BY <1>3, <1>4 DEF ConsoleTyped
<1>6. ASSUME NEW q \in Runs
      PROVE  RequestKept(q)'
  <2>1. CASE q = r
    <3>1. run'[q].status # "none" /\ thread'[q] = "ended" /\ did'[q] = Nothing
      BY <1>3, <1>4, <2>1
    <3> QED BY <3>1 DEF RequestKept, Alive
  <2>2. CASE q # r
    <3>1. /\ run'[q] = run[q] /\ thread'[q] = thread[q] /\ request'[q] = request[q]
          /\ did'[q] = did[q]
      BY <1>3, <1>4, <2>2
    <3>2. RequestKept(q) BY DEF ConsoleInv
    <3> QED BY <3>1, <3>2 DEF RequestKept
  <2> QED BY <2>1, <2>2
<1> QED BY <1>5, <1>6 DEF ConsoleInv

\* A request is accepted: the run that did not exist gets the request it was
\* posted with, and no other run changes.
LEMMA PostKeeps ==
  ASSUME ConsoleInv, NEW h \in Host, NEW op \in Operation, NEW params, NEW confirm,
         Post(h, op, params, confirm)
  PROVE  ConsoleInv'
<1>1. ConsoleTyped BY DEF ConsoleInv
<1>2. PICK r \in Runs : /\ run[r].status = "none"
                        /\ Store!Publish(r, "run.started",
                             [Store!Blank EXCEPT !.status = "running", !.host = h,
                                                 !.mutating = Mutating(op, params)])
                        /\ thread' = [thread EXCEPT ![r] = "starting"]
  BY DEF Post, Store!Start, Store!Run
<1>3. /\ run' = [q \in Runs |-> run'[q]] /\ \A q \in Runs : "status" \in DOMAIN run'[q]
      /\ run'[r].status = "running" /\ \A q \in Runs \ {r} : run'[q] = run[q]
  <2>1. PICK mutating : mutating = Mutating(op, params) OBVIOUS
  <2>2. PICK record : record = [Store!Blank EXCEPT !.status = "running", !.host = h,
                                                   !.mutating = mutating]
    OBVIOUS
  <2>3. "status" \in DOMAIN record /\ record.status = "running" BY <2>2 DEF Store!Blank
  <2>4. Store!Publish(r, "run.started", record) BY <1>2, <2>1, <2>2
  <2> QED BY <1>1, <2>3, <2>4, StorePublish
<1> DEFINE posted == [op |-> op, params |-> params, confirm |-> confirm]
<1>4. /\ thread' = [q \in Runs |-> IF q = r THEN "starting" ELSE thread[q]]
      /\ did' = did
  BY <1>1, <1>2 DEF ConsoleTyped, Post
<1>5. /\ request' = [q \in Runs |-> request'[q]]
      /\ request'[r] = posted /\ \A q \in Runs \ {r} : request'[q] = request[q]
  <2>1. request' = [q \in Runs |-> IF run[q].status = "none" /\ run'[q].status = "running"
                                   THEN posted ELSE request[q]]
    BY DEF Post
  <2>2. \A q \in Runs \ {r} : ~ (run[q].status = "none" /\ run'[q].status = "running")
    BY <1>3
  <2> QED BY <1>2, <1>3, <2>1, <2>2
<1>6. ConsoleTyped' BY <1>1, <1>3, <1>4, <1>5 DEF ConsoleTyped
<1>7. Admitted(posted) BY DEF Admitted, Post
<1>8. ASSUME NEW q \in Runs
      PROVE  RequestKept(q)'
  <2>1. RequestKept(q) BY DEF ConsoleInv
  <2>2. CASE q = r
    <3>1. did[q] = Nothing BY <1>2, <2>1, <2>2 DEF RequestKept
    <3>2. /\ run'[q].status # "none" /\ request'[q] = posted /\ did'[q] = Nothing
      BY <1>3, <1>4, <1>5, <2>2, <3>1
    <3> QED BY <1>7, <3>2 DEF RequestKept
  <2>3. CASE q # r
    <3>1. /\ run'[q] = run[q] /\ thread'[q] = thread[q] /\ request'[q] = request[q]
          /\ did'[q] = did[q]
      BY <1>3, <1>4, <1>5, <2>3
    <3> QED BY <2>1, <3>1 DEF RequestKept
  <2> QED BY <2>2, <2>3
<1> QED BY <1>6, <1>8 DEF ConsoleInv

\* The handler does its work for the Host the profile describes by then.
LEMMA WorkKeeps ==
  ASSUME ConsoleInv, NEW r \in Runs, Work(r)
  PROVE  ConsoleInv'
<1>1. ConsoleTyped BY DEF ConsoleInv
<1> DEFINE q == request[r]
<1>2. PICK effect : effect = EffectOf(q.op, q.params, profile[run[r].host]) OBVIOUS
<1>3. /\ thread[r] = "working" /\ did' = [did EXCEPT ![r] = effect]
      /\ run' = run /\ thread' = thread /\ request' = request
  BY <1>2 DEF Work, storeVars
<1>4. did' = [p \in Runs |-> IF p = r THEN effect ELSE did[p]] BY <1>1, <1>3 DEF ConsoleTyped
<1>5. ConsoleTyped' BY <1>1, <1>3, <1>4 DEF ConsoleTyped
<1>6. RequestKept(r) BY DEF ConsoleInv
<1>7. Warranted(q.op, q.params, effect)
  <2>1. q.op \in Operation BY <1>3, <1>6 DEF RequestKept, Alive, Admitted
  <2> QED BY <1>2, <2>1, EffectsAreWarranted
<1>8. ASSUME NEW p \in Runs
      PROVE  RequestKept(p)'
  <2>1. RequestKept(p) BY DEF ConsoleInv
  <2>2. CASE p = r BY <1>3, <1>4, <1>7, <2>1, <2>2 DEF RequestKept
  <2>3. CASE p # r
    <3>1. did'[p] = did[p] BY <1>4, <2>3
    <3> QED BY <1>3, <2>1, <3>1 DEF RequestKept
  <2> QED BY <2>2, <2>3
<1> QED BY <1>5, <1>8 DEF ConsoleInv

\* The thread moves on without a word about the run's request.
LEMMA ThreadKeeps ==
  ASSUME ConsoleInv, NEW r \in Runs, StartThread(r) \/ Return(r)
  PROVE  ConsoleInv'
<1>1. ConsoleTyped BY DEF ConsoleInv
<1>2. RequestKept(r) BY DEF ConsoleInv
<1>3. PICK at : /\ thread' = [thread EXCEPT ![r] = at]
                /\ at \in {"working", "reporting", "ended"}
                /\ thread[r] \in {"starting", "working"}
                /\ did[r] # Nothing => at = "reporting"
  <2>1. CASE StartThread(r)
    <3>1. thread[r] = "starting" BY <2>1 DEF StartThread, Store!StartThread
    <3>2. did[r] = Nothing BY <1>2, <3>1 DEF RequestKept
    <3>3. \/ thread' = [thread EXCEPT ![r] = "working"]
          \/ thread' = [thread EXCEPT ![r] = "ended"]
      BY <2>1 DEF StartThread, Store!StartThread
    <3> QED BY <3>1, <3>2, <3>3
  <2>2. CASE Return(r)
    <3>1. thread[r] = "working" /\ thread' = [thread EXCEPT ![r] = "reporting"]
      BY <2>2 DEF Return, Store!WorkReturns
    <3> QED BY <3>1
  <2> QED BY <2>1, <2>2
<1>4. run' = run /\ request' = request /\ did' = did
  BY DEF StartThread, Return, Store!StartThread, Store!WorkReturns
<1>5. thread' = [p \in Runs |-> IF p = r THEN at ELSE thread[p]] BY <1>1, <1>3 DEF ConsoleTyped
<1>6. ConsoleTyped' BY <1>1, <1>4, <1>5 DEF ConsoleTyped
<1>7. ASSUME NEW p \in Runs
      PROVE  RequestKept(p)'
  <2>1. RequestKept(p) BY DEF ConsoleInv
  <2>2. CASE p = r
    <3>1. thread'[p] = at BY <1>5, <2>2
    <3>2. run'[p].status # "none" BY <1>2, <1>3, <1>4, <2>2 DEF RequestKept
    <3>3. Admitted(request[p]) BY <1>3, <2>1, <2>2 DEF RequestKept, Alive
    <3> QED BY <1>3, <1>4, <2>1, <2>2, <3>1, <3>2, <3>3 DEF RequestKept
  <2>3. CASE p # r
    <3>1. thread'[p] = thread[p] BY <1>5, <2>3
    <3> QED BY <1>4, <2>1, <3>1 DEF RequestKept
  <2> QED BY <2>2, <2>3
<1> QED BY <1>6, <1>7 DEF ConsoleInv

LEMMA ConsoleStep ==
  ConsoleInv /\ [Next]_vars => ConsoleInv'
<1> SUFFICES ASSUME ConsoleInv, [Next]_vars
             PROVE  ConsoleInv'
  OBVIOUS
<1>1. ASSUME NEW h \in Host, Edit(h)
      PROVE  ConsoleInv'
  <2>1. run' = run /\ thread' = thread /\ request' = request /\ did' = did
    BY <1>1 DEF Edit, storeVars
  <2> QED BY <2>1 DEF ConsoleInv, ConsoleTyped, RequestKept
<1>2. ASSUME NEW h \in Host, NEW op \in Operation, NEW params, NEW confirm,
             Post(h, op, params, confirm)
      PROVE  ConsoleInv'
  BY <1>2, PostKeeps
<1>3. ASSUME NEW r \in Runs, Work(r)
      PROVE  ConsoleInv'
  BY <1>3, WorkKeeps
<1>4. ASSUME NEW r \in Runs, Raise(r)
      PROVE  ConsoleInv'
  BY <1>4, RunEnds DEF Raise, Store!WorkRaises
<1>5. ASSUME NEW r \in Runs, StartThread(r) \/ Return(r)
      PROVE  ConsoleInv'
  BY <1>5, ThreadKeeps
<1>6. ASSUME NEW r \in Runs, Complete(r)
      PROVE  ConsoleInv'
  BY <1>6, RunEnds DEF Complete, Store!Completes
<1>7. CASE UNCHANGED vars
  <2>1. run' = run /\ thread' = thread /\ request' = request /\ did' = did
    BY <1>7 DEF vars, storeVars
  <2> QED BY <2>1 DEF ConsoleInv, ConsoleTyped, RequestKept
<1> QED BY <1>1, <1>2, <1>3, <1>4, <1>5, <1>6, <1>7 DEF Next

\* A request that runs was confirmed as its plan asks, and what its handler
\* has done is no more than that confirmation covers (api.py start,
\* host_controller.py), for every operation with every set of switches.
THEOREM RequestsAreAdmitted == Spec => []ConsoleInv
<1>1. Init => ConsoleInv BY ConsoleInit
<1>2. ConsoleInv /\ [Next]_vars => ConsoleInv' BY ConsoleStep
<1> QED BY <1>1, <1>2, PTL DEF Spec

\* The confirmation gradient (catalog.py:5): a Host is changed only by a run
\* somebody acknowledged, and for good only by one its id was typed for, with
\* the exceptions Unasked and DeclaredBack name.
THEOREM HostsChangeAsConfirmed == Spec => []ChangesAreConfirmed
<1>1. ConsoleInv => ChangesAreConfirmed BY InvConfirms
<1> QED BY <1>1, RequestsAreAdmitted, PTL

-----------------------------------------------------------------------------
\* The requests of a console are runs of its store, one step of the store or
\* none for each step here: what RunStore guarantees of claims and finished
\* runs holds of them too.
THEOREM RequestsImplementRuns == Spec => Store!Spec
<1>1. Init => Store!Init BY DEF Init
<1>2. [Next]_vars => [Store!Next]_(Store!storeVars)
  <2> SUFFICES ASSUME [Next]_vars
               PROVE  Store!Next \/ UNCHANGED storeVars
    BY DEF Store!storeVars, storeVars
  <2>1. ASSUME NEW h \in Host, Edit(h)
        PROVE  UNCHANGED storeVars
    BY <2>1 DEF Edit
  <2>2. ASSUME NEW h \in Host, NEW op \in Operation, NEW params, NEW confirm,
               Post(h, op, params, confirm)
        PROVE  Store!Next
    <3>1. PICK mutating \in BOOLEAN : mutating = Mutating(op, params) BY DEF Mutating
    <3>2. Store!Start(h, mutating) BY <2>2, <3>1 DEF Post
    <3> QED BY <3>2 DEF Store!Next
  <2>3. ASSUME NEW r \in Runs, Work(r)
        PROVE  UNCHANGED storeVars
    BY <2>3 DEF Work
  <2>4. ASSUME NEW r \in Runs, Raise(r) \/ Return(r) \/ StartThread(r) \/ Complete(r)
        PROVE  Store!Next
    <3>1. Store!ThreadNext(r)
      BY <2>4 DEF Raise, Return, StartThread, Complete, Store!ThreadNext
    <3> QED BY <3>1 DEF Store!Next, Store!Run
  <2>5. CASE UNCHANGED vars BY <2>5 DEF vars
  <2> QED BY <2>1, <2>2, <2>3, <2>4, <2>5 DEF Next
<1> QED BY <1>1, <1>2, PTL DEF Spec, Store!Spec
=============================================================================
