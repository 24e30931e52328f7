-------------------------- MODULE ConsoleRequests --------------------------
(***************************************************************************)
(* A request to the console: POST /api/hosts/{id}/runs (console/api.py)     *)
(* loads the profile, checks the capability, coerces the parameters, reads  *)
(* the confirmation off the plan and starts a run (RunStore).  The thread   *)
(* of the run loads the profile again and hands the parameters to           *)
(* HostController, which asks the adapter once more.  Between the two an    *)
(* operator may edit the profile.                                           *)
(***************************************************************************)
EXTENDS Naturals, Sequences, FiniteSets, HostOperations

CONSTANTS
  Host,         \* the Hosts of the registry
  MaxRuns,      \* bound: requests the console accepts
  MaxEdits,     \* bound: edits of a profile
  Retain,       \* the runs the store remembers
  Nothing,      \* no run, no request
  Faults        \* the faults of the run store in this instance

VARIABLES
  run, order, busy, watchers, sequence, thread, journal, stream,   \* RunStore
  profile,      \* what the profile of each Host describes, or "unloadable"
  request,      \* what each run was started for, while it runs
  did,          \* what the handler of a running run has done to its Host
  edits         \* edits so far

storeVars == <<run, order, busy, watchers, sequence, thread, journal, stream>>
vars == <<storeVars, profile, request, did, edits>>

\* The store without a browser that follows and without announced phases.
Store == INSTANCE RunStore WITH Stream <- {}, PhaseName <- {}, MaxEvents <- 2 * MaxRuns

Kind == {"product", "source", "unloadable"}

Init ==
  /\ Store!Init
  /\ profile \in [Host -> {"product", "source"}]
  /\ request = [r \in 1 .. MaxRuns |-> Nothing]
  /\ did = [r \in 1 .. MaxRuns |-> Nothing]
  /\ edits = 0

\* The profile is a file an operator edits between two operations.
Edit(h) ==
  /\ edits < MaxEdits
  /\ edits' = edits + 1
  /\ \E kind \in Kind \ {profile[h]} : profile' = [profile EXCEPT ![h] = kind]
  /\ UNCHANGED <<storeVars, request, did>>

\* _require_confirmation: what the operator said before a mutation may start.
Confirmed(required, confirm) ==
  CASE required = "none" -> TRUE
    [] required = "acknowledge" -> confirm \in {"acknowledged", "typed"}
    [] required = "typed-host-id" -> confirm = "typed"

\* A run takes the Host's exclusive slot when it had to be confirmed.
Mutating(op, params) == RequiredConfirmation(op, params) # "none"

\* What the page asks its operator for: what the preview said, or less if the
\* operator walks away from the dialog halfway.
Asked(required) ==
  CASE required = "none" -> {"nothing"}
    [] required = "acknowledge" -> {"nothing", "acknowledged"}
    [] required = "typed-host-id" -> {"nothing", "acknowledged", "typed"}

\* start: a Host that does not load, an operation it has no capability for, a
\* parameter it does not take and a missing confirmation are all refused.
Post(h, op, params, confirm) ==
  /\ profile[h] # "unloadable"
  /\ Catalog[op].needs \in Capabilities(profile[h])
  /\ Coerced(op, params, Capabilities(profile[h]))
  /\ Confirmed(RequiredConfirmation(op, params), confirm)
  /\ Store!Start(h, Mutating(op, params))
  /\ request' = [r \in 1 .. MaxRuns |->
       IF run[r].status = "none" /\ run'[r].status = "running"
       THEN [op |-> op, params |-> params, confirm |-> confirm] ELSE request[r]]
  /\ UNCHANGED <<profile, did, edits>>

\* The thread loads the profile again; the Host it now describes may not be
\* able to do this any more.  Otherwise the handler works, and it may raise
\* with its work done or half done.
Work(r) ==
  LET kind == profile[run[r].host] IN
  /\ thread[r] = "working" /\ did[r] = Nothing
  /\ Requires(request[r].op, request[r].params) \subseteq Capabilities(kind)
  /\ did' = [did EXCEPT ![r] = EffectOf(request[r].op, request[r].params, kind)]
  /\ UNCHANGED <<storeVars, profile, request, edits>>

Ends(r) ==
  /\ request' = [request EXCEPT ![r] = Nothing]
  /\ did' = [did EXCEPT ![r] = Nothing]
  /\ UNCHANGED <<profile, edits>>

Raise(r) == Store!WorkRaises(r) /\ Ends(r)

\* A handler returns when it has done what there was to do.
Return(r) ==
  /\ did[r] # Nothing
  /\ Store!WorkReturns(r)
  /\ UNCHANGED <<profile, request, did, edits>>

StartThread(r) == Store!StartThread(r) /\ UNCHANGED <<profile, request, did, edits>>
Complete(r) == Store!Completes(r) /\ Ends(r)

Next ==
  \/ \E h \in Host : Edit(h)
  \/ \E h \in Host, op \in Operation :
       \E params \in SUBSET Catalog[op].switches :
         \E confirm \in Asked(RequiredConfirmation(op, params)) : Post(h, op, params, confirm)
  \/ \E r \in 1 .. MaxRuns : Work(r) \/ Raise(r) \/ Return(r) \/ StartThread(r) \/ Complete(r)

Spec == Init /\ [][Next]_vars
-----------------------------------------------------------------------------
\* Properties.

\* What the code runs without asking, although it changes the Host: the
\* candidate a deploy prepares, and the web server and Setup codes of `debug`.
Unasked(q) ==
  \/ q.op = "deploy" /\ "activate" \notin q.params
  \/ q.op = "debug" /\ q.params # {"prepare"}

\* What is declared reversible and is not: a deploy over a persistent barrier.
DeclaredBack(q) == q.op = "deploy" /\ "forward-only" \in q.params

Changed(r) == did[r] \notin {Nothing, Nil}

\* The confirmation gradient (catalog.py:5) against what the handlers do: a
\* Host is changed only by a run somebody acknowledged, and changed for good
\* only by one its id was typed for, whatever the profile became between the
\* request and the work.
ChangesAreConfirmed ==
  \A r \in 1 .. MaxRuns : Changed(r) =>
    /\ request[r].confirm \in {"acknowledged", "typed"} \/ Unasked(request[r])
    /\ did[r].final => request[r].confirm = "typed" \/ DeclaredBack(request[r])
=============================================================================
