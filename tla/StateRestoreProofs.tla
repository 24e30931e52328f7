------------------------- MODULE StateRestoreProofs -------------------------
(***************************************************************************)
(* QuiescedWhileReplaced, UndoIsExact, RestoredIsWhole and PackageReturned  *)
(* hold of StateRestore for any number of databases, memory spaces and      *)
(* packages, any number of restores and of faults, for one operator at a    *)
(* time (the code takes no lock around a restore) whose stop does not fail  *)
(* behind an exit code nobody looks at.                                     *)
(***************************************************************************)
EXTENDS StateRestore, TLAPS

Content == Version \cup {Fresh, Mixed, None}
Moving  == {"replace", "main", "sidecar", "publish"}
Behind  == {"start", "wait", "lend", "space", "asked", "return"}
Saved   == [authority : Authority, kind : Kind, version : Content]

CallType ==
  [pc : {"idle", "plan", "stop", "replan", "undo"} \cup Moving \cup Behind,
   package : Package, phase : {1, 2}, pending : SUBSET Unit, todo : SUBSET Authority,
   at : Authority \cup Space \cup {None}, saved : SUBSET Saved,
   created : SUBSET Authority, spaces : SUBSET Space, failed : BOOLEAN]

RestoreTyped ==
  /\ file \in [Authority -> [Kind -> Content]]
  /\ up \subseteq Unit
  /\ seen \in [Authority -> Content]
  /\ space \in [Space -> Content]
  /\ stage \in [version : Package \cup {None}, spoilt : SUBSET (Authority \cup Space),
                lent : SUBSET (Space \cup {Root})]
  /\ call \in [Caller -> CallType]
  /\ before \in [Caller -> [Authority -> [Kind -> Content]]]

\* A stop goes through its phases: the manager first, the workers behind it.
StopOrder(c) ==
  /\ call[c].pc = "plan" => call[c].phase = 1 /\ call[c].pending = {}
  /\ call[c].pc = "stop" /\ call[c].phase = 1 => call[c].pending \subseteq {Manager}
  /\ call[c].pc = "stop" /\ call[c].phase = 2 =>
       /\ Manager \notin up
       /\ call[c].pending # {} => up \subseteq call[c].pending

\* Nothing was moved before the product was down and the package proved again,
\* and only a failure leads into the undo.
NothingMoved(c) ==
  /\ call[c].pc \in {"plan", "stop", "replan"} =>
       call[c].saved = {} /\ call[c].created = {} /\ ~call[c].failed
  /\ call[c].pc = "undo" => call[c].failed

\* There is something to undo.
Moved(c) == call[c].pc \in Moving \/ (call[c].pc = "undo" /\ call[c].saved # {})

ProductDown(c) == call[c].pc = "replan" \/ Moved(c) => up = {}

SavedOf(c, a, k) == {s \in call[c].saved : s.authority = a /\ s.kind = k}

\* Every file is as the restore found it, or what it was is kept or was nothing.
Undoable(c) ==
  Moved(c) => \A a \in Authority, k \in Kind :
    /\ \A s \in SavedOf(c, a, k) : s.version = before[c][a][k]
    /\ SavedOf(c, a, k) = {} =>
         IF k = "main" /\ a \in call[c].created THEN before[c][a][k] = None
         ELSE file[a][k] = before[c][a][k]

\* The databases not reached yet are untouched, the ones behind are the package's.
Reached(c) ==
  call[c].pc \in Moving =>
    /\ ~call[c].failed
    /\ call[c].pc # "replace" => call[c].at \in call[c].todo
    /\ \A a \in call[c].todo :
         /\ a \notin call[c].created
         /\ call[c].pc \in {"replace", "main"} \/ a # call[c].at => SavedOf(c, a, "main") = {}
         /\ call[c].pc # "publish" \/ a # call[c].at => SavedOf(c, a, "sidecar") = {}
    /\ call[c].pc \in {"sidecar", "publish"} => file[call[c].at]["main"] = None
    /\ call[c].pc = "publish" => file[call[c].at]["sidecar"] = None
    /\ \A a \in Authority \ call[c].todo :
         file[a]["main"] = call[c].package /\ file[a]["sidecar"] = None

\* Behind the replacement every database stays the package's.
PackagesEverywhere(c) ==
  call[c].pc \in Behind /\ ~call[c].failed =>
    \A a \in Authority : /\ file[a]["main"] = call[c].package
                         /\ file[a]["sidecar"] \in {None, call[c].package}

\* So does every space that is not to be asked for any more.
SpacesBack(c) ==
  call[c].pc \in {"space", "asked", "return"} /\ ~call[c].failed =>
    /\ \A s \in Carries[call[c].package] \ call[c].spaces : space[s] = call[c].package
    /\ call[c].pc = "return" => call[c].spaces = {}

\* What is lent is lent to a restore that is under way.
Lent(c) ==
  /\ call[c].pc \notin {"space", "asked", "return"} => stage.lent = {}
  /\ call[c].pc \in {"space", "return"} => stage.lent \subseteq {Root}
  /\ call[c].pc = "asked" => stage.lent \subseteq {Root, call[c].at}

CallKept(c) ==
  StopOrder(c) /\ NothingMoved(c) /\ ProductDown(c) /\ Undoable(c) /\ Reached(c)
  /\ PackagesEverywhere(c) /\ SpacesBack(c)

IInv == RestoreTyped /\ \A c \in Caller : CallKept(c)

\* One operator at a time.
Single == \A c, d \in Caller : c = d

-----------------------------------------------------------------------------
(* Kinds of steps                                                           *)

\* A call that is over, or has not begun, promises nothing yet.
LEMMA IdleKeeps ==
  ASSUME Single, NEW c \in Caller, RestoreTyped', call'[c].pc = "idle"
  PROVE  IInv'
<1>1. CallKept(c)'
  BY DEF CallKept, StopOrder, NothingMoved, ProductDown, Undoable, Reached,
         PackagesEverywhere, SpacesBack, Moved, Moving, Behind
<1> QED BY <1>1 DEF IInv, Single

\* Behind the replacement only the package's contents matter.
LEMMA BehindKeeps ==
  ASSUME Single, NEW c \in Caller, RestoreTyped', call'[c].pc \in Behind,
         PackagesEverywhere(c)', SpacesBack(c)'
  PROVE  IInv'
<1>1. CallKept(c)'
  BY DEF CallKept, StopOrder, NothingMoved, ProductDown, Undoable, Reached,
         Moved, Moving, Behind
<1> QED BY <1>1 DEF IInv, Single

\* A call's record with some of its fields changed is one again.
LEMMA CallChanges ==
  ASSUME RestoreTyped, NEW c \in Caller, NEW record \in CallType,
         call' = [call EXCEPT ![c] = record]
  PROVE  call' \in [Caller -> CallType] /\ call'[c] = record
BY DEF RestoreTyped

\* What a call that goes on to another place takes along.
LEMMA GotoChanges ==
  ASSUME RestoreTyped, NEW c \in Caller,
         NEW pc \in {"idle", "plan", "stop", "replan", "undo"} \cup Moving \cup Behind,
         Goto(c, pc)
  PROVE  /\ call' \in [Caller -> CallType]
         /\ call'[c] = [call[c] EXCEPT !.pc = pc]
<1>1. call[c] \in CallType /\ call' = [call EXCEPT ![c] = [call[c] EXCEPT !.pc = pc]]
  BY DEF RestoreTyped, Goto
<1>2. [call[c] EXCEPT !.pc = pc] \in CallType
  BY <1>1 DEF CallType
<1> QED BY <1>1, <1>2, CallChanges

\* A call that rests has a record too.
LEMMA RestingTyped ==
  ASSUME NEW p \in Package, NEW failed \in BOOLEAN
  PROVE  Resting(p, failed) \in CallType
BY DEF Resting, CallType

\* A refused or answered call rests.
LEMMA RefuseKeeps ==
  ASSUME IInv, Single, NEW c \in Caller, NEW failed \in BOOLEAN,
         call' = [call EXCEPT ![c] = Resting(call[c].package, failed)],
         UNCHANGED <<file, up, seen, space, before>>,
         stage' = stage \/ stage' = [stage EXCEPT !.lent = @ \ {Root}]
  PROVE  IInv'
<1>1. call[c].package \in Package
  BY DEF IInv, RestoreTyped, CallType
<1>2. Resting(call[c].package, failed) \in CallType
  BY <1>1, RestingTyped
<1>3. call' \in [Caller -> CallType] /\ call'[c].pc = "idle"
  BY <1>2, CallChanges DEF IInv, Resting
<1>4. RestoreTyped'
  BY <1>3 DEF IInv, RestoreTyped
<1> QED BY <1>3, <1>4, IdleKeeps

\* A failure leads into the undo with what was moved on record.
LEMMA RaiseKeeps ==
  ASSUME IInv, Single, NEW c \in Caller, Raise(c),
         call[c].pc \in {"stop", "replan"} \cup Moving,
         UNCHANGED <<file, up, seen, space, stage>>,
         \/ before' = before
         \/ call[c].pc = "replan" /\ before' = [before EXCEPT ![c] = file]
  PROVE  IInv'
<1>1. call[c] \in CallType
      /\ call' = [call EXCEPT ![c] = [call[c] EXCEPT !.pc = "undo", !.failed = TRUE]]
  BY DEF IInv, RestoreTyped, Raise
<1>2. [call[c] EXCEPT !.pc = "undo", !.failed = TRUE] \in CallType
  BY <1>1 DEF CallType
<1>3. /\ call' \in [Caller -> CallType] /\ call'[c].pc = "undo" /\ call'[c].failed
      /\ call'[c].saved = call[c].saved /\ call'[c].created = call[c].created
  BY <1>1, <1>2, CallChanges DEF IInv, CallType
<1>4. RestoreTyped'
  BY <1>3 DEF IInv, RestoreTyped
<1>5. call[c].saved = {} \/ (call[c].pc \in Moving /\ before' = before)
  BY DEF IInv, CallKept, NothingMoved, Moving
<1>6. /\ StopOrder(c)' /\ NothingMoved(c)' /\ Reached(c)'
      /\ PackagesEverywhere(c)' /\ SpacesBack(c)'
  BY <1>3 DEF StopOrder, NothingMoved, Reached, PackagesEverywhere, SpacesBack, Moving, Behind
<1>7. ProductDown(c)' /\ Undoable(c)'
  BY <1>3, <1>5 DEF IInv, CallKept, ProductDown, Undoable, Moved, SavedOf, Moving
<1> QED BY <1>4, <1>6, <1>7 DEF IInv, CallKept, Single

-----------------------------------------------------------------------------
(* Plan and stop                                                            *)

\* A package is uploaded for a call that begins from nothing.
LEMMA UploadKeeps ==
  ASSUME IInv, Single, NEW c \in Caller, NEW p \in Package, Upload(c, p)
  PROVE  IInv'
<1>1. CASE Root \in stage.lent
  BY <1>1, RefuseKeeps DEF Upload, Refuse
<1>2. CASE Root \notin stage.lent
  <2> DEFINE record == [Resting(p, FALSE) EXCEPT !.pc = "plan"]
  <2>1. record \in CallType
    BY DEF Resting, CallType
  <2>2. /\ record.pc = "plan" /\ record.phase = 1 /\ record.pending = {}
        /\ record.saved = {} /\ record.created = {} /\ ~record.failed
    BY DEF Resting
  <2>3. call' \in [Caller -> CallType] /\ call'[c] = record
    BY <1>2, <2>1, CallChanges DEF IInv, Upload
  <2> HIDE DEF record
  <2>4. RestoreTyped'
    BY <1>2, <2>3 DEF IInv, RestoreTyped, Upload
  <2>5. CallKept(c)'
    BY <2>2, <2>3
    DEF CallKept, StopOrder, NothingMoved, ProductDown, Undoable, Reached,
        PackagesEverywhere, SpacesBack, Moved, Moving, Behind
  <2> QED BY <2>4, <2>5 DEF IInv, Single
<1> QED BY <1>1, <1>2

\* A package that is whole is stopped for.
LEMMA PlanKeeps ==
  ASSUME IInv, Single, NEW c \in Caller, Plan(c)
  PROVE  IInv'
<1>1. call[c].pc = "plan" /\ UNCHANGED <<file, up, seen, space, stage, before>>
  BY DEF Plan, At, Fault
<1>2. CASE Refuse(c)
  BY <1>1, <1>2, RefuseKeeps DEF Refuse
<1>3. CASE call' = [call EXCEPT ![c].pc = "stop"]
  <2>1. call' \in [Caller -> CallType] /\ call'[c] = [call[c] EXCEPT !.pc = "stop"]
    BY <1>3, GotoChanges DEF IInv, Goto
  <2>2. /\ call'[c].pc = "stop" /\ call'[c].phase = call[c].phase
        /\ call'[c].pending = call[c].pending /\ call'[c].saved = call[c].saved
        /\ call'[c].created = call[c].created /\ call'[c].failed = call[c].failed
    BY <2>1 DEF IInv, RestoreTyped, CallType
  <2>3. RestoreTyped'
    BY <1>1, <2>1 DEF IInv, RestoreTyped
  <2>4. StopOrder(c)' /\ NothingMoved(c)'
    BY <1>1, <2>2 DEF IInv, CallKept, StopOrder, NothingMoved
  <2>5. /\ ProductDown(c)' /\ Undoable(c)' /\ Reached(c)'
        /\ PackagesEverywhere(c)' /\ SpacesBack(c)'
    BY <2>2
    DEF ProductDown, Undoable, Reached, PackagesEverywhere, SpacesBack, Moved, Moving, Behind
  <2> QED BY <2>3, <2>4, <2>5 DEF IInv, CallKept, Single
<1> QED BY <1>2, <1>3 DEF Plan

\* The phases of the stop are in the order that lets nothing come back.
LEMMA StopPhaseKeeps ==
  ASSUME IInv, Single, NEW c \in Caller, StopPhase(c)
  PROVE  IInv'
<1> DEFINE pending == StopPhases[call[c].phase]
           record == [call[c] EXCEPT !.pending = pending]
<1>1. /\ call[c] \in CallType /\ call[c].pc = "stop" /\ call[c].phase \in {1, 2}
      /\ call' = [call EXCEPT ![c] = record]
      /\ UNCHANGED <<file, up, seen, space, stage, before>>
  BY DEF IInv, RestoreTyped, CallType, StopPhase, At
<1>2. pending = IF call[c].phase = 1 THEN {Manager} ELSE Authority
  BY <1>1 DEF StopPhases
<1> HIDE DEF pending
<1>3. record \in CallType
  BY <1>1, <1>2 DEF CallType, Unit
<1>4. /\ record.pc = "stop" /\ record.phase = call[c].phase /\ record.pending = pending
      /\ record.saved = call[c].saved /\ record.created = call[c].created
      /\ record.failed = call[c].failed
  BY <1>1 DEF CallType
<1>5. call' \in [Caller -> CallType] /\ call'[c] = record
  BY <1>1, <1>3, CallChanges DEF IInv
<1> HIDE DEF record
<1>6. RestoreTyped'
  BY <1>1, <1>5 DEF IInv, RestoreTyped
<1>7. StopOrder(c)'
  BY <1>1, <1>2, <1>4, <1>5 DEF IInv, RestoreTyped, CallKept, StopOrder, Unit
<1>8. NothingMoved(c)'
  BY <1>1, <1>4, <1>5 DEF IInv, CallKept, NothingMoved
<1>9. /\ ProductDown(c)' /\ Undoable(c)' /\ Reached(c)'
      /\ PackagesEverywhere(c)' /\ SpacesBack(c)'
  BY <1>4, <1>5
  DEF ProductDown, Undoable, Reached, PackagesEverywhere, SpacesBack, Moved, Moving, Behind
<1> QED BY <1>6, <1>7, <1>8, <1>9 DEF IInv, CallKept, Single

\* When the last worker is down, nothing is up.
LEMMA StopUnitKeeps ==
  ASSUME IInv, Single, "stop_fails" \notin Faults,
         NEW c \in Caller, NEW u \in Unit, StopUnit(c, u)
  PROVE  IInv'
<1> DEFINE pending == call[c].pending \ {u}
           phase == IF pending = {} /\ call[c].phase = 1 THEN 2 ELSE call[c].phase
           pc == IF pending = {} /\ call[c].phase = 2 THEN "replan" ELSE call[c].pc
           record == [call[c] EXCEPT !.pending = pending, !.phase = phase, !.pc = pc]
<1>1. /\ call[c] \in CallType /\ call[c].pc = "stop" /\ u \in call[c].pending
      /\ UNCHANGED <<space, stage, before>> /\ \E clean \in BOOLEAN : Down(u, clean)
  BY DEF IInv, RestoreTyped, StopUnit, At, Fault
<1>2. call' = [call EXCEPT ![c] = record]
  BY <1>1 DEF IInv, RestoreTyped, StopUnit
<1>3. record \in CallType
  <2>1. call[c] \in CallType /\ pending \subseteq Unit /\ phase \in {1, 2}
    BY <1>1 DEF CallType
  <2>2. pc \in {"replan", "stop"}
    BY <1>1
  <2> HIDE DEF pending, phase, pc
  <2> QED BY <2>1, <2>2 DEF CallType
<1>4. /\ record.pc = pc /\ record.phase = phase /\ record.pending = pending
      /\ record.saved = call[c].saved /\ record.created = call[c].created
      /\ record.failed = call[c].failed
  BY <1>1 DEF CallType
<1>5. call' \in [Caller -> CallType] /\ call'[c] = record
  BY <1>2, <1>3, CallChanges DEF IInv
<1> HIDE DEF record
<1>6. up' = up \ {u} /\ up' \subseteq Unit
  BY <1>1 DEF IInv, RestoreTyped, Down
<1>7. seen' \in [Authority -> Content] /\ file' \in [Authority -> [Kind -> Content]]
  <2>1. PICK clean \in BOOLEAN : Down(u, clean)
    BY <1>1
  <2>2. seen' \in [Authority -> Content]
    BY <2>1 DEF IInv, RestoreTyped, Down, Content
  <2>3. CASE clean /\ u # Manager /\ seen[u] # Mixed
    <3>1. u \in Authority /\ file' = [file EXCEPT ![u] = [file[u] EXCEPT !["sidecar"] = None]]
      BY <2>1, <2>3 DEF Down, Unit, IInv, RestoreTyped
    <3>2. [file[u] EXCEPT !["sidecar"] = None] \in [Kind -> Content]
      BY <3>1 DEF IInv, RestoreTyped, Content
    <3> QED BY <2>2, <3>1, <3>2 DEF IInv, RestoreTyped
  <2>4. CASE ~(clean /\ u # Manager /\ seen[u] # Mixed)
    BY <2>1, <2>2, <2>4 DEF IInv, RestoreTyped, Down
  <2> QED BY <2>3, <2>4
<1>8. RestoreTyped'
  BY <1>1, <1>5, <1>6, <1>7 DEF IInv, RestoreTyped
<1>9. call[c].phase \in {1, 2} /\ StopOrder(c)
  BY <1>1 DEF IInv, CallKept, CallType
<1>10. StopOrder(c)'
  <2>1. CASE call[c].phase = 1
    BY <1>1, <1>4, <1>5, <1>6, <1>9, <2>1 DEF StopOrder
  <2>2. CASE call[c].phase = 2
    BY <1>1, <1>4, <1>5, <1>6, <1>9, <2>2 DEF StopOrder
  <2> QED BY <1>9, <2>1, <2>2
<1>11. NothingMoved(c)'
  BY <1>1, <1>4, <1>5 DEF IInv, CallKept, NothingMoved
<1>12. pc \in {"stop", "replan"} /\ (pc = "replan" => up' = {})
  BY <1>1, <1>6, <1>9 DEF StopOrder
<1>13. /\ ProductDown(c)' /\ Undoable(c)' /\ Reached(c)'
       /\ PackagesEverywhere(c)' /\ SpacesBack(c)'
  <2> HIDE DEF pc
  <2> QED
    BY <1>4, <1>5, <1>12
    DEF ProductDown, Undoable, Reached, PackagesEverywhere, SpacesBack, Moved, Moving, Behind
<1> QED BY <1>8, <1>10, <1>11, <1>13 DEF IInv, CallKept, Single

-----------------------------------------------------------------------------
(* Replace                                                                  *)

\* The files are taken as they are when nothing runs any more.
LEMMA ReplanKeeps ==
  ASSUME IInv, Single, NEW c \in Caller, Replan(c)
  PROVE  IInv'
<1>1. /\ call[c].pc = "replan" /\ UNCHANGED <<file, up, seen, space, stage>>
      /\ before' = [before EXCEPT ![c] = file]
  BY DEF Replan, At
<1>2. CASE Raise(c)
  BY <1>1, <1>2, RaiseKeeps
<1>3. CASE call' = [call EXCEPT ![c].pc = "replace", ![c].todo = Authority]
  <2> DEFINE record == [call[c] EXCEPT !.pc = "replace", !.todo = Authority]
  <2>1. call[c] \in CallType /\ call' = [call EXCEPT ![c] = record]
    BY <1>3 DEF IInv, RestoreTyped
  <2>2. record \in CallType
    BY <2>1 DEF CallType, Moving
  <2>3. /\ record.pc = "replace" /\ record.todo = Authority /\ record.saved = {}
        /\ record.created = {} /\ ~record.failed
    BY <1>1, <2>1 DEF IInv, CallKept, NothingMoved, CallType
  <2>4. call' \in [Caller -> CallType] /\ call'[c] = record
    BY <2>1, <2>2, CallChanges DEF IInv
  <2> HIDE DEF record
  <2>5. before' \in [Caller -> [Authority -> [Kind -> Content]]] /\ before'[c] = file'
    BY <1>1 DEF IInv, RestoreTyped
  <2>6. RestoreTyped'
    BY <1>1, <2>4, <2>5 DEF IInv, RestoreTyped
  <2>7. StopOrder(c)' /\ NothingMoved(c)' /\ PackagesEverywhere(c)' /\ SpacesBack(c)'
    BY <2>3, <2>4 DEF StopOrder, NothingMoved, PackagesEverywhere, SpacesBack, Behind
  <2>8. ProductDown(c)'
    BY <1>1 DEF IInv, CallKept, ProductDown
  <2>9. Undoable(c)' /\ Reached(c)'
    BY <2>3, <2>4, <2>5 DEF Undoable, Reached, SavedOf
  <2> QED BY <2>6, <2>7, <2>8, <2>9 DEF IInv, CallKept, Single
<1> QED BY <1>2, <1>3 DEF Replan

\* Any step of the replacement may fail.
LEMMA MovingRaises ==
  ASSUME IInv, Single, NEW c \in Caller, Raise(c), call[c].pc \in Moving,
         UNCHANGED <<file, up, seen, space, stage, before>>
  PROVE  IInv'
<1>1. call[c].pc \in {"stop", "replan"} \cup Moving /\ before' = before
  OBVIOUS
<1>2. UNCHANGED <<file, up, seen, space, stage>>
  OBVIOUS
<1> QED BY <1>1, <1>2, RaiseKeeps

\* The copy beside its destination is none of the files yet.
LEMMA CopyKeeps ==
  ASSUME IInv, Single, NEW c \in Caller, NEW a \in Authority, CopyBeside(c, a)
  PROVE  IInv'
<1>1. /\ call[c].pc = "replace" /\ a \in call[c].todo
      /\ UNCHANGED <<file, up, seen, space, stage, before>>
  BY DEF CopyBeside, At, Fault
<1>2. CASE Raise(c)
  BY <1>1, <1>2, MovingRaises DEF Moving
<1>3. CASE call' = [call EXCEPT ![c].pc = "main", ![c].at = a]
  <2> DEFINE record == [call[c] EXCEPT !.pc = "main", !.at = a]
  <2>1. call[c] \in CallType /\ call' = [call EXCEPT ![c] = record]
    BY <1>3 DEF IInv, RestoreTyped
  <2>2. record \in CallType
    BY <2>1 DEF CallType, Moving
  <2>3. /\ record.pc = "main" /\ record.at = a /\ record.todo = call[c].todo
        /\ record.saved = call[c].saved /\ record.created = call[c].created
        /\ record.failed = call[c].failed /\ record.package = call[c].package
    BY <2>1 DEF CallType
  <2>4. call' \in [Caller -> CallType] /\ call'[c] = record
    BY <2>1, <2>2, CallChanges DEF IInv
  <2> HIDE DEF record
  <2>5. RestoreTyped'
    BY <1>1, <2>4 DEF IInv, RestoreTyped
  <2>6. StopOrder(c)' /\ NothingMoved(c)' /\ PackagesEverywhere(c)' /\ SpacesBack(c)'
    BY <2>3, <2>4 DEF StopOrder, NothingMoved, PackagesEverywhere, SpacesBack, Behind
  <2>7. ProductDown(c)' /\ Undoable(c)'
    BY <1>1, <2>3, <2>4
    DEF IInv, CallKept, ProductDown, Undoable, Moved, Moving, SavedOf
  <2>8. Reached(c)'
    BY <1>1, <2>3, <2>4 DEF IInv, CallKept, Reached, Moving, SavedOf
  <2> QED BY <2>5, <2>6, <2>7, <2>8 DEF IInv, CallKept, Single
<1> QED BY <1>2, <1>3 DEF CopyBeside

\* What is moved aside is kept with the version it had before.
LEMMA MoveKeeps ==
  ASSUME IInv, Single, NEW c \in Caller, NEW k \in Kind, MoveAside(c, k)
  PROVE  IInv'
<1> DEFINE a == call[c].at
           kept == [authority |-> a, kind |-> k, version |-> file[a][k]]
           saved == IF file[a][k] = None THEN call[c].saved ELSE call[c].saved \cup {kept}
           pc == IF k = "main" THEN "sidecar" ELSE "publish"
           record == [call[c] EXCEPT !.pc = pc, !.saved = saved]
<1>1. call[c].pc = k /\ call[c].pc \in Moving /\ UNCHANGED <<up, seen, space, stage, before>>
  BY DEF MoveAside, At, Fault, Kind, Moving
<1>2. CASE Raise(c) /\ UNCHANGED file
  BY <1>1, <1>2, MovingRaises
<1>3. CASE /\ file' = [file EXCEPT ![a][k] = None]
           /\ call' = [call EXCEPT ![c].pc = pc, ![c].saved = saved]
  <2>1. /\ call[c] \in CallType /\ a \in call[c].todo /\ a \in Authority
        /\ ~call[c].failed /\ a \notin call[c].created
    BY <1>1 DEF IInv, RestoreTyped, CallKept, Reached, CallType, Kind
  <2>2. SavedOf(c, a, k) = {} /\ file[a][k] = before[c][a][k]
    <3>1. SavedOf(c, a, k) = {}
      BY <1>1, <2>1 DEF IInv, CallKept, Reached, Kind
    <3> QED BY <1>1, <2>1, <3>1 DEF IInv, CallKept, Undoable, Moved
  <2>3. file[a][k] \in Content /\ kept \in Saved
    BY <2>1 DEF IInv, RestoreTyped, Saved
  <2>4. call' = [call EXCEPT ![c] = record]
    BY <1>3 DEF IInv, RestoreTyped
  <2>5. pc \in {"sidecar", "publish"} /\ saved \subseteq Saved
    BY <2>1, <2>3 DEF CallType
  <2>6. /\ kept.authority = a /\ kept.kind = k /\ kept.version = before[c][a][k]
        /\ (pc = "sidecar" <=> k = "main")
        /\ saved = IF file[a][k] = None THEN call[c].saved ELSE call[c].saved \cup {kept}
    BY <2>2
  <2> HIDE DEF saved, kept, pc
  <2>7. record \in CallType
    BY <2>1, <2>5 DEF CallType, Moving
  <2>8. /\ record.pc = pc /\ record.at = a /\ record.todo = call[c].todo
        /\ record.saved = saved /\ record.created = call[c].created
        /\ ~record.failed /\ record.package = call[c].package
    BY <2>1 DEF CallType
  <2>9. call' \in [Caller -> CallType] /\ call'[c] = record
    BY <2>4, <2>7, CallChanges DEF IInv
  <2> HIDE DEF record
  <2>10. /\ file' \in [Authority -> [Kind -> Content]] /\ file'[a][k] = None
         /\ \A b \in Authority, l \in Kind : b # a \/ l # k => file'[b][l] = file[b][l]
    <3>1. /\ file' = [file EXCEPT ![a] = [file[a] EXCEPT ![k] = None]]
          /\ [file[a] EXCEPT ![k] = None] \in [Kind -> Content]
      BY <1>3, <2>1 DEF IInv, RestoreTyped, Content
    <3> QED BY <2>1, <3>1 DEF IInv, RestoreTyped
  <2>11. RestoreTyped'
    BY <1>1, <2>9, <2>10 DEF IInv, RestoreTyped
  <2>12. ASSUME NEW b \in Authority, NEW l \in Kind
         PROVE  SavedOf(c, b, l)' = IF b = a /\ l = k /\ file[a][k] # None
                                    THEN {kept} ELSE SavedOf(c, b, l)
    <3>1. call'[c].saved = IF file[a][k] = None THEN call[c].saved
                           ELSE call[c].saved \cup {kept}
      BY <2>6, <2>8, <2>9
    <3> QED BY <2>2, <2>6, <3>1 DEF SavedOf
  <2>13. StopOrder(c)' /\ NothingMoved(c)' /\ PackagesEverywhere(c)' /\ SpacesBack(c)'
    BY <2>5, <2>8, <2>9 DEF StopOrder, NothingMoved, PackagesEverywhere, SpacesBack, Behind
  <2>14. ProductDown(c)'
    BY <1>1 DEF IInv, CallKept, ProductDown, Moved
  <2>15. Undoable(c)'
    <3> SUFFICES ASSUME NEW b \in Authority, NEW l \in Kind
                 PROVE  /\ \A s \in SavedOf(c, b, l)' : s.version = before[c][b][l]
                        /\ SavedOf(c, b, l)' = {} =>
                             IF l = "main" /\ b \in call[c].created THEN before[c][b][l] = None
                             ELSE file'[b][l] = before[c][b][l]
      BY <1>1, <2>8, <2>9 DEF Undoable
    <3>1. CASE b = a /\ l = k
      BY <2>1, <2>2, <2>6, <2>10, <2>12, <3>1, ZenonT(60)
    <3>2. CASE ~(b = a /\ l = k)
      <4>1. SavedOf(c, b, l)' = SavedOf(c, b, l) /\ file'[b][l] = file[b][l]
        BY <2>10, <2>12, <3>2
      <4> QED BY <1>1, <4>1 DEF IInv, CallKept, Undoable, Moved
    <3> QED BY <3>1, <3>2
  <2>16. Reached(c)'
    <3>1. \A b \in call[c].todo :
            /\ b \notin call[c].created
            /\ b # a => SavedOf(c, b, "main")' = {} /\ SavedOf(c, b, "sidecar")' = {}
      <4>1. ASSUME NEW b \in call[c].todo
            PROVE  /\ b \in Authority /\ b \notin call[c].created
                   /\ b # a => SavedOf(c, b, "main") = {} /\ SavedOf(c, b, "sidecar") = {}
        BY <1>1, <2>1 DEF IInv, CallKept, Reached, CallType
      <4> QED BY <2>12, <4>1 DEF Kind
    <3>2. ASSUME pc = "sidecar", NEW b \in Authority, b = a
          PROVE  SavedOf(c, b, "sidecar")' = {} /\ file'[b]["main"] = None
      <4>1. k = "main" /\ SavedOf(c, b, "sidecar") = {}
        BY <1>1, <2>1, <2>6, <3>2 DEF IInv, CallKept, Reached
      <4> QED BY <2>10, <2>12, <3>2, <4>1 DEF Kind
    <3>3. pc = "publish" => file'[a]["sidecar"] = None /\ file'[a]["main"] = None
      BY <1>1, <2>1, <2>5, <2>6, <2>10 DEF IInv, CallKept, Reached, Kind
    <3>4. \A b \in Authority \ call[c].todo :
            file'[b]["main"] = call[c].package /\ file'[b]["sidecar"] = None
      BY <1>1, <2>1, <2>10 DEF IInv, CallKept, Reached, Kind
    <3> QED BY <2>1, <2>5, <2>8, <2>9, <3>1, <3>2, <3>3, <3>4 DEF Reached
  <2> QED BY <2>11, <2>13, <2>14, <2>15, <2>16 DEF IInv, CallKept, Single
<1> QED BY <1>2, <1>3 DEF MoveAside

\* The package's database is published where nothing is left.
LEMMA PublishKeeps ==
  ASSUME IInv, Single, NEW c \in Caller, Publish(c)
  PROVE  IInv'
<1> DEFINE a == call[c].at
           record == [call[c] EXCEPT !.pc = "replace", !.at = None,
                        !.created = call[c].created \cup {a}, !.todo = call[c].todo \ {a}]
<1>1. call[c].pc = "publish" /\ UNCHANGED <<up, seen, space, stage, before>>
  BY DEF Publish, At, Fault
<1>2. CASE Raise(c) /\ UNCHANGED file
  BY <1>1, <1>2, MovingRaises DEF Moving
<1>3. CASE /\ file' = [file EXCEPT ![a]["main"] = call[c].package]
           /\ call' = [call EXCEPT ![c].pc = "replace", ![c].at = None,
                                   ![c].created = @ \cup {a}, ![c].todo = @ \ {a}]
  <2>1. /\ call[c] \in CallType /\ a \in call[c].todo /\ a \in Authority /\ ~call[c].failed
        /\ a \notin call[c].created /\ call[c].package \in Content
        /\ file[a]["main"] = None /\ file[a]["sidecar"] = None
    BY <1>1 DEF IInv, RestoreTyped, CallKept, Reached, CallType, Moving, Content, Version
  <2>2. call' = [call EXCEPT ![c] = record]
    BY <1>3 DEF IInv, RestoreTyped
  <2>3. record \in CallType
    BY <2>1 DEF CallType, Moving
  <2>4. /\ record.pc = "replace" /\ record.todo = call[c].todo \ {a}
        /\ record.saved = call[c].saved /\ record.created = call[c].created \cup {a}
        /\ ~record.failed /\ record.package = call[c].package
    BY <2>1 DEF CallType
  <2>5. call' \in [Caller -> CallType] /\ call'[c] = record
    BY <2>2, <2>3, CallChanges DEF IInv
  <2> HIDE DEF record
  <2>6. /\ file' \in [Authority -> [Kind -> Content]]
        /\ file'[a]["main"] = call[c].package /\ file'[a]["sidecar"] = None
        /\ \A b \in Authority, l \in Kind : b # a \/ l # "main" => file'[b][l] = file[b][l]
    <3>1. /\ file' = [file EXCEPT ![a] = [file[a] EXCEPT !["main"] = call[c].package]]
          /\ [file[a] EXCEPT !["main"] = call[c].package] \in [Kind -> Content]
      BY <1>3, <2>1 DEF IInv, RestoreTyped
    <3> QED BY <2>1, <3>1 DEF IInv, RestoreTyped, Kind
  <2>7. RestoreTyped'
    BY <1>1, <2>5, <2>6 DEF IInv, RestoreTyped
  <2>8. \A b \in Authority, l \in Kind : SavedOf(c, b, l)' = SavedOf(c, b, l)
    BY <2>4, <2>5 DEF SavedOf
  <2>9. StopOrder(c)' /\ NothingMoved(c)' /\ PackagesEverywhere(c)' /\ SpacesBack(c)'
    BY <2>4, <2>5 DEF StopOrder, NothingMoved, PackagesEverywhere, SpacesBack, Behind
  <2>10. ProductDown(c)'
    BY <1>1 DEF IInv, CallKept, ProductDown, Moved, Moving
  <2>11. Undoable(c)'
    <3> SUFFICES ASSUME NEW b \in Authority, NEW l \in Kind
                 PROVE  /\ \A s \in SavedOf(c, b, l) : s.version = before[c][b][l]
                        /\ SavedOf(c, b, l) = {} =>
                             IF l = "main" /\ b \in call[c].created \cup {a}
                             THEN before[c][b][l] = None
                             ELSE file'[b][l] = before[c][b][l]
      BY <1>1, <2>4, <2>5, <2>8 DEF Undoable
    <3> QED BY <1>1, <2>1, <2>6 DEF IInv, CallKept, Undoable, Moved, Moving
  <2>12. Reached(c)'
    <3>1. \A b \in call[c].todo \ {a} :
            /\ b \notin call[c].created \cup {a}
            /\ SavedOf(c, b, "main")' = {} /\ SavedOf(c, b, "sidecar")' = {}
      <4>1. ASSUME NEW b \in call[c].todo \ {a}
            PROVE  /\ b \in Authority /\ b \notin call[c].created
                   /\ SavedOf(c, b, "main") = {} /\ SavedOf(c, b, "sidecar") = {}
        BY <1>1, <2>1 DEF IInv, CallKept, Reached, Moving, CallType
      <4> QED BY <2>8, <4>1 DEF Kind
    <3>2. \A b \in Authority \ (call[c].todo \ {a}) :
            file'[b]["main"] = call[c].package /\ file'[b]["sidecar"] = None
      BY <1>1, <2>6 DEF IInv, CallKept, Reached, Moving, Kind
    <3> QED BY <2>4, <2>5, <3>1, <3>2 DEF Reached
  <2> QED BY <2>7, <2>9, <2>10, <2>11, <2>12 DEF IInv, CallKept, Single
<1> QED BY <1>2, <1>3 DEF Publish

\* Every database was reached, so every one is the package's.
LEMMA ReplacedKeeps ==
  ASSUME IInv, Single, NEW c \in Caller, Replaced(c)
  PROVE  IInv'
<1>1. call' \in [Caller -> CallType] /\ call'[c] = [call[c] EXCEPT !.pc = "start"]
  BY GotoChanges DEF IInv, Replaced, Behind
<1>2. call'[c].pc = "start" /\ call'[c].package = call[c].package
  BY <1>1 DEF IInv, RestoreTyped, CallType
<1>3. RestoreTyped'
  BY <1>1 DEF IInv, RestoreTyped, Replaced
<1>4. PackagesEverywhere(c)'
  BY <1>2 DEF IInv, CallKept, Reached, Replaced, At, Moving, PackagesEverywhere
<1>5. SpacesBack(c)'
  BY <1>2 DEF SpacesBack
<1> QED BY <1>2, <1>3, <1>4, <1>5, BehindKeeps DEF Behind

\* What is moved back and taken away leaves the files as they were found.
LEMMA PutBackIsBefore ==
  ASSUME IInv, NEW c \in Caller, Moved(c)
  PROVE  PutBack(c) = before[c]
<1>1. ASSUME NEW a \in Authority, NEW k \in Kind
      PROVE  PutBack(c)[a][k] = before[c][a][k]
  <2>1. PutBack(c)[a][k] = IF SavedOf(c, a, k) # {}
                           THEN (CHOOSE s \in SavedOf(c, a, k) : TRUE).version
                           ELSE IF k = "main" /\ a \in call[c].created THEN None ELSE file[a][k]
    BY Zenon DEF PutBack, SavedOf
  <2>2. CASE SavedOf(c, a, k) # {}
    <3>1. (CHOOSE s \in SavedOf(c, a, k) : TRUE) \in SavedOf(c, a, k)
      BY <2>2
    <3> QED BY <2>1, <2>2, <3>1 DEF IInv, CallKept, Undoable
  <2>3. CASE SavedOf(c, a, k) = {}
    BY <2>1, <2>3 DEF IInv, CallKept, Undoable
  <2> QED BY <2>2, <2>3
<1>2. before[c] \in [Authority -> [Kind -> Content]]
  BY DEF IInv, RestoreTyped
<1>3. /\ PutBack(c) = [a \in Authority |-> PutBack(c)[a]]
      /\ \A a \in Authority : PutBack(c)[a] = [k \in Kind |-> PutBack(c)[a][k]]
  BY DEF PutBack
<1>4. ASSUME NEW a \in Authority
      PROVE  PutBack(c)[a] = before[c][a]
  BY <1>1, <1>2, <1>3
<1> QED BY <1>2, <1>3, <1>4

\* A failed call makes no promise about the databases.
LEMMA FailedKeeps ==
  ASSUME Single, NEW c \in Caller, RestoreTyped', call'[c].pc \in Behind, call'[c].failed
  PROVE  IInv'
BY BehindKeeps DEF PackagesEverywhere, SpacesBack

\* The undo starts the product on what was found, and has failed.
LEMMA UndoKeeps ==
  ASSUME IInv, Single, NEW c \in Caller, Undo(c)
  PROVE  IInv'
<1>1. call' \in [Caller -> CallType] /\ call'[c] = [call[c] EXCEPT !.pc = "start"]
  BY GotoChanges DEF IInv, Undo, Behind
<1>2. call'[c].pc = "start" /\ call'[c].failed
  BY <1>1 DEF IInv, RestoreTyped, CallType, CallKept, NothingMoved, Undo, At
<1>3. PutBack(c) \in [Authority -> [Kind -> Content]]
  <2>1. ASSUME NEW a \in Authority, NEW k \in Kind
        PROVE  PutBack(c)[a][k] \in Content
    <3>1. PutBack(c)[a][k] = IF SavedOf(c, a, k) # {}
                             THEN (CHOOSE s \in SavedOf(c, a, k) : TRUE).version
                             ELSE IF k = "main" /\ a \in call[c].created THEN None
                             ELSE file[a][k]
      BY Zenon DEF PutBack, SavedOf
    <3>2. ASSUME SavedOf(c, a, k) # {}
          PROVE  (CHOOSE s \in SavedOf(c, a, k) : TRUE).version \in Content
      <4>1. (CHOOSE s \in SavedOf(c, a, k) : TRUE) \in SavedOf(c, a, k)
        BY <3>2
      <4>2. SavedOf(c, a, k) \subseteq Saved
        BY DEF SavedOf, IInv, RestoreTyped, CallType
      <4> QED BY <4>1, <4>2 DEF Saved
    <3> QED BY <3>1, <3>2 DEF IInv, RestoreTyped, Content
  <2>2. /\ PutBack(c) = [a \in Authority |-> PutBack(c)[a]]
        /\ \A a \in Authority : PutBack(c)[a] = [k \in Kind |-> PutBack(c)[a][k]]
    BY DEF PutBack
  <2>3. ASSUME NEW a \in Authority
        PROVE  PutBack(c)[a] \in [Kind -> Content]
    BY <2>1, <2>2
  <2> QED BY <2>2, <2>3
<1>4. RestoreTyped'
  BY <1>1, <1>3 DEF IInv, RestoreTyped, Undo
<1> QED BY <1>2, <1>4, FailedKeeps DEF Behind

\* An interrupted call has failed.
LEMMA InterruptKeeps ==
  ASSUME IInv, Single, NEW c \in Caller, Interrupt(c)
  PROVE  IInv'
<1>1. call[c] \in CallType
      /\ call' = [call EXCEPT ![c] = [call[c] EXCEPT !.pc = "start", !.failed = TRUE]]
  BY DEF IInv, RestoreTyped, Interrupt
<1>2. [call[c] EXCEPT !.pc = "start", !.failed = TRUE] \in CallType
  BY <1>1 DEF CallType, Behind
<1>3. call' \in [Caller -> CallType] /\ call'[c].pc = "start" /\ call'[c].failed
  BY <1>1, <1>2, CallChanges DEF IInv, CallType
<1>4. RestoreTyped'
  BY <1>3 DEF IInv, RestoreTyped, Interrupt
<1> QED BY <1>3, <1>4, FailedKeeps DEF Behind

-----------------------------------------------------------------------------
(* Start and the memory spaces                                              *)

\* A step from one place behind the replacement to another.
LEMMA OnwardsKeeps ==
  ASSUME IInv, Single, NEW c \in Caller, NEW pc \in Behind,
         call[c].pc \in Behind, Goto(c, pc),
         UNCHANGED <<file, seen, space, stage, before>>, up' \subseteq Unit,
         SpacesBack(c)'
  PROVE  IInv'
<1>1. call' \in [Caller -> CallType] /\ call'[c] = [call[c] EXCEPT !.pc = pc]
  BY GotoChanges DEF IInv
<1>2. call'[c].pc = pc /\ call'[c].failed = call[c].failed
      /\ call'[c].package = call[c].package
  BY <1>1 DEF IInv, RestoreTyped, CallType
<1>3. RestoreTyped'
  BY <1>1 DEF IInv, RestoreTyped
<1>4. PackagesEverywhere(c)'
  BY <1>2 DEF IInv, CallKept, PackagesEverywhere
<1> QED BY <1>2, <1>3, <1>4, BehindKeeps

\* The product is started again.
LEMMA StartKeeps ==
  ASSUME IInv, Single, NEW c \in Caller, Start(c)
  PROVE  IInv'
<1>1. call[c].pc = "start" /\ Goto(c, "wait") /\ up' = up \cup {Manager}
      /\ UNCHANGED <<file, seen, space, stage, before>>
  BY DEF Start, At
<1>2. up' \subseteq Unit
  BY <1>1 DEF IInv, RestoreTyped, Unit
<1>3. call'[c].pc = "wait"
  BY <1>1 DEF IInv, RestoreTyped, CallType, Goto
<1>4. SpacesBack(c)'
  BY <1>3 DEF SpacesBack
<1> QED BY <1>1, <1>2, <1>4, OnwardsKeeps DEF Behind

\* Readiness is waited for.
LEMMA WaitKeeps ==
  ASSUME IInv, Single, NEW c \in Caller, WaitReady(c)
  PROVE  IInv'
<1>1. call[c].pc = "wait" /\ UNCHANGED <<file, up, seen, space, stage, before>>
  BY DEF WaitReady, At, Fault
<1>2. CASE Refuse(c)
  BY <1>1, <1>2, RefuseKeeps DEF Refuse
<1>3. CASE Goto(c, "lend")
  <2>1. call'[c].pc = "lend" /\ up' \subseteq Unit
    BY <1>1, <1>3 DEF IInv, RestoreTyped, CallType, Goto
  <2>2. SpacesBack(c)'
    BY <2>1 DEF SpacesBack
  <2> QED BY <1>1, <1>3, <2>1, <2>2, OnwardsKeeps DEF Behind
<1> QED BY <1>2, <1>3 DEF WaitReady

\* A step of the spaces leaves the databases alone.
LEMMA SpaceStepKeeps ==
  ASSUME IInv, Single, NEW c \in Caller, NEW record \in CallType,
         call[c].pc \in Behind, record.pc \in Behind,
         record.package = call[c].package, call[c].failed => record.failed,
         call' = [call EXCEPT ![c] = record],
         UNCHANGED <<file, up, seen, before>>, space' \in [Space -> Content],
         stage' \in [version : Package \cup {None}, spoilt : SUBSET (Authority \cup Space),
                     lent : SUBSET (Space \cup {Root})],
         record.pc \in {"space", "asked", "return"} /\ ~record.failed =>
           /\ \A s \in Carries[record.package] \ record.spaces : space'[s] = record.package
           /\ record.pc = "return" => record.spaces = {}
  PROVE  IInv'
<1>1. call' \in [Caller -> CallType] /\ call'[c] = record
  BY CallChanges DEF IInv
<1>2. RestoreTyped'
  BY <1>1 DEF IInv, RestoreTyped
<1>3. PackagesEverywhere(c)'
  BY <1>1 DEF IInv, CallKept, PackagesEverywhere
<1>4. SpacesBack(c)'
  BY <1>1 DEF SpacesBack
<1> QED BY <1>1, <1>2, <1>3, <1>4, BehindKeeps

\* What is lent, and given back, is the package's root or one of its spaces.
LEMMA StageTyped ==
  ASSUME RestoreTyped, NEW lent \in SUBSET (Space \cup {Root}),
         stage' = [stage EXCEPT !.lent = lent]
  PROVE  /\ stage' \in [version : Package \cup {None}, spoilt : SUBSET (Authority \cup Space),
                        lent : SUBSET (Space \cup {Root})]
         /\ stage'.lent = lent
BY DEF RestoreTyped

\* Every space the package carries is still to be asked for.
LEMMA LendRootKeeps ==
  ASSUME IInv, Single, NEW c \in Caller, LendRoot(c)
  PROVE  IInv'
<1> DEFINE spaces == Carries[call[c].package]
           record == [call[c] EXCEPT !.pc = "space", !.spaces = spaces]
<1>1. /\ call[c] \in CallType /\ call[c].pc = "lend" /\ spaces \subseteq Space
      /\ UNCHANGED <<file, up, seen, space, before>>
  BY RestoreAssumption DEF IInv, RestoreTyped, CallType, LendRoot, At
<1>2. CASE spaces = {}
  <2>1. call' = [call EXCEPT ![c] = Resting(call[c].package, call[c].failed)]
        /\ stage' = stage /\ call[c].failed \in BOOLEAN
    BY <1>1, <1>2 DEF LendRoot, Answer, CallType
  <2> QED BY <1>1, <2>1, RefuseKeeps
<1>3. CASE spaces # {}
  <2>1. call' = [call EXCEPT ![c] = record]
        /\ stage' = [stage EXCEPT !.lent = stage.lent \cup {Root}]
    BY <1>3 DEF IInv, RestoreTyped, LendRoot
  <2>2. record \in CallType
    BY <1>1 DEF CallType, Behind
  <2>3. /\ record.pc = "space" /\ record.package = call[c].package
        /\ record.failed = call[c].failed /\ record.spaces = spaces
    BY <1>1 DEF CallType
  <2>4. stage.lent \cup {Root} \in SUBSET (Space \cup {Root}) /\ space' \in [Space -> Content]
    BY <1>1 DEF IInv, RestoreTyped
  <2>5. stage' \in [version : Package \cup {None}, spoilt : SUBSET (Authority \cup Space),
                    lent : SUBSET (Space \cup {Root})]
    BY <2>1, <2>4, StageTyped DEF IInv
  <2>6. \A s \in Carries[record.package] \ record.spaces : space'[s] = record.package
    BY <2>3
  <2> HIDE DEF record
  <2> QED BY <1>1, <2>1, <2>2, <2>3, <2>4, <2>5, <2>6, SpaceStepKeeps DEF Behind
<1> QED BY <1>2, <1>3

\* A copy that is no longer the package's ends the restore in failure.
LEMMA LendSpaceKeeps ==
  ASSUME IInv, Single, NEW c \in Caller, NEW s \in Space, LendSpace(c, s)
  PROVE  IInv'
<1>1. /\ call[c] \in CallType /\ call[c].pc = "space" /\ s \in call[c].spaces
      /\ UNCHANGED <<file, up, seen, space, before>> /\ SpacesBack(c)
      /\ space' \in [Space -> Content]
  BY DEF IInv, RestoreTyped, CallKept, LendSpace, At
<1>2. CASE ~Good(c, s)
  <2> DEFINE record == [call[c] EXCEPT !.pc = "return", !.failed = TRUE]
  <2>1. call' = [call EXCEPT ![c] = record] /\ stage' = stage
    BY <1>2 DEF IInv, RestoreTyped, LendSpace
  <2>2. record \in CallType
    BY <1>1 DEF CallType, Behind
  <2>3. record.pc = "return" /\ record.package = call[c].package /\ record.failed
    BY <1>1 DEF CallType
  <2>4. stage' \in [version : Package \cup {None}, spoilt : SUBSET (Authority \cup Space),
                    lent : SUBSET (Space \cup {Root})]
    BY <2>1 DEF IInv, RestoreTyped
  <2> HIDE DEF record
  <2> QED BY <1>1, <2>1, <2>2, <2>3, <2>4, SpaceStepKeeps DEF Behind
<1>3. CASE Good(c, s)
  <2> DEFINE record == [call[c] EXCEPT !.pc = "asked", !.at = s]
  <2>1. call' = [call EXCEPT ![c] = record]
        /\ stage' = [stage EXCEPT !.lent = stage.lent \cup {s}]
    BY <1>3 DEF IInv, RestoreTyped, LendSpace
  <2>2. record \in CallType
    BY <1>1 DEF CallType, Behind
  <2>3. /\ record.pc = "asked" /\ record.package = call[c].package
        /\ record.failed = call[c].failed /\ record.spaces = call[c].spaces
    BY <1>1 DEF CallType
  <2>4. stage.lent \cup {s} \in SUBSET (Space \cup {Root})
    BY DEF IInv, RestoreTyped
  <2>5. stage' \in [version : Package \cup {None}, spoilt : SUBSET (Authority \cup Space),
                    lent : SUBSET (Space \cup {Root})]
    BY <2>1, <2>4, StageTyped DEF IInv
  <2> HIDE DEF record
  <2>6. ~record.failed =>
          \A t \in Carries[record.package] \ record.spaces : space'[t] = record.package
    BY <1>1, <2>3 DEF SpacesBack
  <2> QED BY <1>1, <2>1, <2>2, <2>3, <2>5, <2>6, SpaceStepKeeps DEF Behind
<1> QED BY <1>2, <1>3

\* A space is no longer to be asked for once it is the package's.
LEMMA RestoreSpaceKeeps ==
  ASSUME IInv, Single, NEW c \in Caller, RestoreSpace(c)
  PROVE  IInv'
<1> DEFINE s == call[c].at
           asked == [space EXCEPT ![s] = call[c].package]
<1>1. /\ call[c] \in CallType /\ call[c].pc = "asked" /\ SpacesBack(c)
      /\ UNCHANGED <<file, up, seen, before>>
      /\ stage' = [stage EXCEPT !.lent = stage.lent \ {s}]
  BY DEF IInv, RestoreTyped, CallKept, RestoreSpace, At, Fault
<1>2. asked \in [Space -> Content] /\ call[c].package \in Content
  BY <1>1 DEF IInv, RestoreTyped, CallType, Content, Version
<1>3. stage.lent \ {s} \in SUBSET (Space \cup {Root})
  BY DEF IInv, RestoreTyped
<1>4. stage' \in [version : Package \cup {None}, spoilt : SUBSET (Authority \cup Space),
                  lent : SUBSET (Space \cup {Root})]
  BY <1>1, <1>3, StageTyped DEF IInv
<1>5. CASE /\ space' = asked
           /\ call' = [call EXCEPT ![c].pc = "space", ![c].at = None, ![c].spaces = @ \ {s}]
  <2> DEFINE record == [call[c] EXCEPT !.pc = "space", !.at = None,
                          !.spaces = call[c].spaces \ {s}]
  <2>1. call' = [call EXCEPT ![c] = record]
    BY <1>5 DEF IInv, RestoreTyped
  <2>2. record \in CallType
    BY <1>1 DEF CallType, Behind
  <2>3. /\ record.pc = "space" /\ record.package = call[c].package
        /\ record.failed = call[c].failed /\ record.spaces = call[c].spaces \ {s}
    BY <1>1 DEF CallType
  <2> HIDE DEF record
  <2>4. ASSUME ~record.failed, NEW t \in Carries[record.package] \ record.spaces
        PROVE  space'[t] = record.package
    <3>1. t \in Space
      BY <1>1, <2>3, <2>4, RestoreAssumption DEF CallType
    <3>2. CASE t = s
      BY <1>2, <1>5, <2>3, <3>1, <3>2 DEF IInv, RestoreTyped
    <3>3. CASE t # s
      BY <1>1, <1>5, <2>3, <2>4, <3>1, <3>3 DEF SpacesBack, IInv, RestoreTyped
    <3> QED BY <3>2, <3>3
  <2>5. /\ space' \in [Space -> Content] /\ call[c].pc \in Behind /\ record.pc \in Behind
        /\ UNCHANGED <<file, up, seen, before>> /\ (call[c].failed => record.failed)
    BY <1>1, <1>2, <1>5, <2>3 DEF Behind
  <2>6. record.pc \in {"space", "asked", "return"} /\ ~record.failed =>
          /\ \A t \in Carries[record.package] \ record.spaces : space'[t] = record.package
          /\ record.pc = "return" => record.spaces = {}
    BY <2>3, <2>4
  <2> QED BY <1>4, <2>1, <2>2, <2>3, <2>5, <2>6, SpaceStepKeeps
<1>6. CASE /\ space' \in {space, asked}
           /\ call' = [call EXCEPT ![c].pc = "return", ![c].at = None, ![c].failed = TRUE]
  <2> DEFINE record == [call[c] EXCEPT !.pc = "return", !.at = None, !.failed = TRUE]
  <2>1. call' = [call EXCEPT ![c] = record]
    BY <1>6 DEF IInv, RestoreTyped
  <2>2. record \in CallType
    BY <1>1 DEF CallType, Behind
  <2>3. record.pc = "return" /\ record.package = call[c].package /\ record.failed
    BY <1>1 DEF CallType
  <2>4. space' \in [Space -> Content]
    BY <1>2, <1>6 DEF IInv, RestoreTyped
  <2> HIDE DEF record, asked
  <2> QED BY <1>1, <1>4, <2>1, <2>2, <2>3, <2>4, SpaceStepKeeps DEF Behind
<1> QED BY <1>5, <1>6 DEF RestoreSpace

\* None is left to be asked for.
LEMMA SpacesDoneKeeps ==
  ASSUME IInv, Single, NEW c \in Caller, SpacesDone(c)
  PROVE  IInv'
<1>1. call[c] \in CallType /\ call[c].pc = "space" /\ call[c].spaces = {}
      /\ UNCHANGED <<file, up, seen, space, stage, before>> /\ Goto(c, "return")
  BY DEF IInv, RestoreTyped, SpacesDone, At
<1>2. call'[c] = [call[c] EXCEPT !.pc = "return"]
  BY <1>1, GotoChanges DEF IInv, Behind
<1>3. /\ call'[c].pc = "return" /\ call'[c].package = call[c].package
      /\ call'[c].failed = call[c].failed /\ call'[c].spaces = {}
  BY <1>1, <1>2 DEF CallType
<1>4. SpacesBack(c)' /\ up' \subseteq Unit
  BY <1>1, <1>3 DEF IInv, RestoreTyped, CallKept, SpacesBack
<1> QED BY <1>1, <1>4, OnwardsKeeps DEF Behind

\* The package is given back with the answer.
LEMMA ReturnKeeps ==
  ASSUME IInv, Single, NEW c \in Caller, ReturnRoot(c)
  PROVE  IInv'
<1>1. call' = [call EXCEPT ![c] = Resting(call[c].package, call[c].failed)]
      /\ UNCHANGED <<file, up, seen, space, before>>
      /\ stage' = [stage EXCEPT !.lent = @ \ {Root}]
  BY DEF ReturnRoot, Answer
<1>2. call[c].failed \in BOOLEAN
  BY DEF IInv, RestoreTyped, CallType
<1> QED BY <1>1, <1>2, RefuseKeeps

-----------------------------------------------------------------------------
(* The units and the package                                                *)

\* A unit that comes up finds nothing it did not find before: it opens what the
\* package holds, and it cannot come up while files are moved.
LEMMA UnitStartsKeeps ==
  ASSUME IInv, Single, NEW a \in Authority, UnitStarts(a)
  PROVE  IInv'
<1>1. UNCHANGED <<space, stage, call, before>> /\ up' = up \cup {a} /\ Manager \in up
      /\ seen' = [seen EXCEPT ![a] = Opened(a)]
  BY DEF UnitStarts
<1>2. Opened(a) \in Content
  BY DEF IInv, RestoreTyped, Opened, Kind, Content
<1>3. /\ file' \in [Authority -> [Kind -> Content]]
      /\ \A b \in Authority \ {a} : file'[b] = file[b]
      /\ Opened(a) # Mixed => file'[a] = [k \in Kind |-> Opened(a)]
  <2>1. CASE Opened(a) = Mixed
    BY <2>1 DEF IInv, RestoreTyped, UnitStarts
  <2>2. CASE Opened(a) # Mixed
    <3>1. file' = [file EXCEPT ![a] = [k \in Kind |-> Opened(a)]]
      BY <2>2 DEF UnitStarts
    <3>2. [k \in Kind |-> Opened(a)] \in [Kind -> Content]
      BY <1>2
    <3> QED BY <2>2, <3>1, <3>2 DEF IInv, RestoreTyped
  <2> QED BY <2>1, <2>2
<1>4. RestoreTyped'
  BY <1>1, <1>2, <1>3 DEF IInv, RestoreTyped, Unit
<1>5. ASSUME NEW c \in Caller
      PROVE  CallKept(c)'
  <2>1. ~Moved(c) /\ call[c].pc # "replan"
    BY <1>1 DEF IInv, CallKept, ProductDown
  <2>2. StopOrder(c)'
    BY <1>1 DEF IInv, CallKept, StopOrder, RestoreTyped, CallType
  <2>3. NothingMoved(c)' /\ SpacesBack(c)'
    BY <1>1 DEF IInv, CallKept, NothingMoved, SpacesBack
  <2>4. ProductDown(c)' /\ Undoable(c)' /\ Reached(c)'
    BY <1>1, <2>1 DEF ProductDown, Undoable, Reached, Moved
  <2>5. PackagesEverywhere(c)'
    <3> SUFFICES ASSUME call[c].pc \in Behind, ~call[c].failed, NEW b \in Authority
                 PROVE  /\ file'[b]["main"] = call[c].package
                        /\ file'[b]["sidecar"] \in {None, call[c].package}
      BY <1>1 DEF PackagesEverywhere
    <3>1. /\ file[b]["main"] = call[c].package
          /\ file[b]["sidecar"] \in {None, call[c].package}
      BY DEF IInv, CallKept, PackagesEverywhere
    <3>2. CASE b = a
      <4>1. call[c].package \notin {None, Mixed}
        BY RestoreAssumption DEF IInv, RestoreTyped, CallType, Version
      <4>2. Opened(a) = call[c].package
        BY <3>1, <3>2, <4>1 DEF Opened
      <4> QED BY <1>3, <3>2, <4>1, <4>2 DEF Kind
    <3>3. CASE b # a
      BY <1>3, <3>1, <3>3
    <3> QED BY <3>2, <3>3
  <2> QED BY <2>2, <2>3, <2>4, <2>5 DEF CallKept
<1> QED BY <1>4, <1>5 DEF IInv

\* A spoilt package, and a step that changes nothing.
LEMMA StageKeeps ==
  ASSUME IInv, UNCHANGED <<file, up, seen, space, call, before>>,
         stage' \in [version : Package \cup {None}, spoilt : SUBSET (Authority \cup Space),
                     lent : SUBSET (Space \cup {Root})]
  PROVE  IInv'
<1>1. RestoreTyped'
  BY DEF IInv, RestoreTyped
<1>2. ASSUME NEW c \in Caller
      PROVE  CallKept(c)'
  BY DEF IInv, CallKept, StopOrder, NothingMoved, ProductDown, Undoable, Reached,
         PackagesEverywhere, SpacesBack, Moved, SavedOf
<1> QED BY <1>1, <1>2 DEF IInv

-----------------------------------------------------------------------------
(* The invariant and what it says                                           *)

\* A Host on which no restore ever ran satisfies it.
LEMMA InitEstablishes ==
  ASSUME Init
  PROVE  IInv
<1>1. Resting(CHOOSE p \in Package : TRUE, FALSE) \in CallType
  BY RestoreAssumption, RestingTyped
<1>2. /\ call \in [Caller -> CallType]
      /\ \A c \in Caller : call[c].pc = "idle"
  BY <1>1 DEF Init, Resting
<1>3. RestoreTyped
  <2>1. file \in [Authority -> [Kind -> Content]] /\ space \in [Space -> Content]
    BY DEF Init, Content, Version
  <2>2. seen \in [Authority -> Content] /\ up \subseteq Unit
    BY DEF Init, Content, Version
  <2>3. stage \in [version : Package \cup {None}, spoilt : SUBSET (Authority \cup Space),
                   lent : SUBSET (Space \cup {Root})]
    BY DEF Init
  <2>4. before \in [Caller -> [Authority -> [Kind -> Content]]]
    BY <2>1 DEF Init
  <2> QED BY <1>2, <2>1, <2>2, <2>3, <2>4 DEF RestoreTyped
<1>4. ASSUME NEW c \in Caller
      PROVE  CallKept(c)
  BY <1>2 DEF CallKept, StopOrder, NothingMoved, ProductDown, Undoable, Reached,
              PackagesEverywhere, SpacesBack, Moved, Moving, Behind
<1> QED BY <1>3, <1>4 DEF IInv

\* Every step keeps it, for one operator whose stop is not ignored.
LEMMA StepKeeps ==
  ASSUME IInv, Single, "stop_fails" \notin Faults, [Next]_vars
  PROVE  IInv'
<1>1. CASE UNCHANGED vars
  BY <1>1, StageKeeps DEF vars, IInv, RestoreTyped
<1>2. ASSUME NEW c \in Caller, NEW p \in Package, Upload(c, p)
      PROVE  IInv'
  BY <1>2, UploadKeeps
<1>3. ASSUME NEW c \in Caller, AgentDies(c)
      PROVE  IInv'
  BY <1>3, RefuseKeeps DEF AgentDies, Refuse
<1>4. ASSUME NEW a \in Authority, UnitStarts(a)
      PROVE  IInv'
  BY <1>4, UnitStartsKeeps
<1>5. ASSUME NEW i \in Authority \cup Space, Spoil(i)
      PROVE  IInv'
  <2>1. stage' \in [version : Package \cup {None}, spoilt : SUBSET (Authority \cup Space),
                    lent : SUBSET (Space \cup {Root})]
    BY <1>5 DEF Spoil, IInv, RestoreTyped
  <2> QED BY <1>5, <2>1, StageKeeps DEF Spoil
<1>6. ASSUME NEW c \in Caller, Continue(c)
      PROVE  IInv'
  <2>1. CASE \/ Plan(c) \/ StopPhase(c) \/ \E u \in Unit : StopUnit(c, u)
             \/ Replan(c) \/ \E a \in Authority : CopyBeside(c, a)
    BY <2>1, PlanKeeps, StopPhaseKeeps, StopUnitKeeps, ReplanKeeps, CopyKeeps
  <2>2. CASE StopRaises(c)
    <3>1. /\ Raise(c) /\ call[c].pc \in {"stop", "replan"} \cup Moving
          /\ UNCHANGED <<file, up, seen, space, stage>> /\ before' = before
      BY <2>2 DEF StopRaises, Fault
    <3> QED BY <3>1, RaiseKeeps
  <2>3. CASE \/ \E k \in Kind : MoveAside(c, k)
             \/ Publish(c) \/ Replaced(c) \/ Undo(c) \/ Interrupt(c)
    BY <2>3, MoveKeeps, PublishKeeps, ReplacedKeeps, UndoKeeps, InterruptKeeps
  <2>4. CASE \/ Start(c) \/ WaitReady(c) \/ LendRoot(c)
             \/ \E s \in Space : LendSpace(c, s)
             \/ RestoreSpace(c) \/ SpacesDone(c) \/ ReturnRoot(c)
    BY <2>4, StartKeeps, WaitKeeps, LendRootKeeps, LendSpaceKeeps, RestoreSpaceKeeps,
       SpacesDoneKeeps, ReturnKeeps
  <2> QED BY <1>6, <2>1, <2>2, <2>3, <2>4 DEF Continue
<1> QED BY <1>1, <1>2, <1>3, <1>4, <1>5, <1>6 DEF Next

\* One operator, and a stop whose exit code says what it did.
Assumed == Single /\ "stop_fails" \notin Faults

\* IInv holds of every reachable state of a restore (hostagent/authorities.py).
THEOREM RestoreInvariant ==
  ASSUME Assumed
  PROVE  Spec => []IInv
<1>1. Init => IInv
  BY InitEstablishes
<1>2. IInv /\ [Next]_vars => IInv'
  BY StepKeeps DEF Assumed
<1> QED BY <1>1, <1>2, PTL DEF Spec

\* No unit runs while files are moved (authorities.py:480-558).
THEOREM ProductIsQuiesced ==
  ASSUME Assumed
  PROVE  Spec => []QuiescedWhileReplaced
<1>1. IInv => QuiescedWhileReplaced
  BY DEF IInv, CallKept, ProductDown, Moved, Moving, QuiescedWhileReplaced, Replacing
<1> QED BY <1>1, RestoreInvariant, PTL

\* A step of a call takes the call from where that step is taken.
LEMMA CallGoesOn ==
  ASSUME IInv, Single, NEW c \in Caller, call[c].pc = "undo", call'[c].pc = "start", Next
  PROVE  Undo(c)
<1>1. call' # call
  OBVIOUS
<1>2. PICK d \in Caller : (\E p \in Package : Upload(d, p)) \/ Continue(d) \/ AgentDies(d)
  BY <1>1 DEF Next, UnitStarts, Spoil
<1>3. d = c
  BY DEF Single
<1>4. ~AgentDies(c)
  BY DEF AgentDies, Refuse, Resting, IInv, RestoreTyped
<1>5. ~\E p \in Package : Upload(c, p)
  BY DEF Upload
<1>6. Continue(c) => Undo(c)
  BY DEF Continue, Plan, StopPhase, StopUnit, StopRaises, Replan, CopyBeside, MoveAside,
         Publish, Replaced, Interrupt, Start, WaitReady, LendRoot, LendSpace,
         RestoreSpace, SpacesDone, ReturnRoot, At, Fault, Kind, Stopping, Replacing
<1> QED BY <1>2, <1>3, <1>4, <1>5, <1>6

\* What a failed restore starts the product on is what it found
\* (authorities.py:559-583).
THEOREM UndoRestoresAll ==
  ASSUME Assumed
  PROVE  Spec => UndoIsExact
<1> DEFINE A == \A c \in Caller :
                  call[c].pc = "undo" /\ call'[c].pc = "start" /\ call[c].saved # {}
                    => file' = before[c]
<1>1. IInv /\ [Next]_vars => [A]_vars
  <2> SUFFICES ASSUME IInv, Next, NEW c \in Caller, call[c].pc = "undo",
                      call'[c].pc = "start", call[c].saved # {}
               PROVE  file' = before[c]
    OBVIOUS
  <2>1. Undo(c)
    BY CallGoesOn DEF Assumed
  <2>2. PutBack(c) = before[c]
    BY PutBackIsBefore DEF Moved
  <2> QED BY <2>1, <2>2 DEF Undo
<1>2. Spec => [][Next]_vars
  BY DEF Spec
<1>3. Spec => [][A]_vars
  BY <1>1, <1>2, RestoreInvariant, PTL
<1> QED BY <1>3 DEF UndoIsExact

\* A call ends without a failure where its last space was the package's.
LEMMA CallAnswers ==
  ASSUME IInv, Single, NEW c \in Caller, call[c].pc # "idle", call'[c].pc = "idle",
         ~call'[c].failed, Next
  PROVE  /\ ~call[c].failed /\ UNCHANGED <<file, space>>
         /\ \/ call[c].pc = "lend" /\ Carries[call[c].package] = {}
            \/ call[c].pc = "return"
<1>1. PICK d \in Caller : (\E p \in Package : Upload(d, p)) \/ Continue(d) \/ AgentDies(d)
  BY DEF Next, UnitStarts, Spoil
<1>2. d = c
  BY DEF Single
<1>3. ~Refuse(c)
  BY DEF Refuse, Resting, IInv, RestoreTyped
<1>4. ASSUME NEW pc \in {"start", "wait", "lend", "return"}, Goto(c, pc)
      PROVE  FALSE
  BY <1>4 DEF Goto, IInv, RestoreTyped, CallType
<1>5. ~(\E p \in Package : Upload(c, p)) /\ ~AgentDies(c)
  BY <1>3 DEF Upload, AgentDies
<1>6. ~(Plan(c) \/ StopPhase(c) \/ StopRaises(c) \/ Replan(c) \/ Publish(c))
  BY <1>3
  DEF Plan, StopPhase, StopRaises, Replan, Publish, Raise, IInv, RestoreTyped, CallType,
      At, Fault
<1>7. ASSUME NEW u \in Unit, StopUnit(c, u)
      PROVE  FALSE
  <2>1. call[c] \in CallType /\ call[c].pc = "stop"
    BY <1>7 DEF StopUnit, At, Fault, IInv, RestoreTyped
  <2>2. call'[c].pc \in {"replan", call[c].pc}
    BY <1>7, <2>1 DEF StopUnit, IInv, RestoreTyped, CallType
  <2> QED BY <2>1, <2>2
<1>8. ASSUME NEW a \in Authority, CopyBeside(c, a)
      PROVE  FALSE
  <2>1. call'[c].pc \in {"main", "undo"}
    BY <1>8 DEF CopyBeside, Raise, IInv, RestoreTyped, CallType
  <2> QED BY <2>1
<1>9. ASSUME NEW k \in Kind, MoveAside(c, k)
      PROVE  FALSE
  <2>1. call'[c].pc \in {"sidecar", "publish", "undo"}
    BY <1>9 DEF MoveAside, Raise, IInv, RestoreTyped, CallType
  <2> QED BY <2>1
<1>10. ~(Replaced(c) \/ Undo(c) \/ Start(c) \/ WaitReady(c) \/ SpacesDone(c) \/ Interrupt(c))
  BY <1>3, <1>4
  DEF Replaced, Undo, Start, WaitReady, SpacesDone, Interrupt, IInv, RestoreTyped, CallType
<1>11. ~((\E s \in Space : LendSpace(c, s)) \/ RestoreSpace(c))
  BY DEF LendSpace, RestoreSpace, IInv, RestoreTyped, CallType
<1>12. LendRoot(c) \/ ReturnRoot(c)
  BY <1>1, <1>2, <1>5, <1>6, <1>7, <1>8, <1>9, <1>10, <1>11 DEF Continue
<1>13. CASE LendRoot(c)
  BY <1>13 DEF LendRoot, At, Answer, Resting, IInv, RestoreTyped, CallType
<1>14. CASE ReturnRoot(c)
  BY <1>14 DEF ReturnRoot, At, Answer, Resting, IInv, RestoreTyped
<1> QED BY <1>12, <1>13, <1>14

\* A restore that reports success replaced every database, and every space the
\* package carries (authorities.py:480-610, memory_realms.py put_back).
THEOREM SuccessIsWhole ==
  ASSUME Assumed
  PROVE  Spec => RestoredIsWhole
<1> DEFINE A == \A c \in Caller : LET p == call[c].package IN
                  call[c].pc # "idle" /\ call'[c].pc = "idle" /\ ~call'[c].failed =>
                    /\ \A a \in Authority :
                         file[a]["main"] = p /\ file[a]["sidecar"] \in {None, p}
                    /\ \A s \in Carries[p] : space[s] = p
<1>1. IInv /\ [Next]_vars => [A]_vars
  <2> SUFFICES ASSUME IInv, Next, NEW c \in Caller, call[c].pc # "idle",
                      call'[c].pc = "idle", ~call'[c].failed
               PROVE  LET p == call[c].package IN
                      /\ \A a \in Authority :
                           file[a]["main"] = p /\ file[a]["sidecar"] \in {None, p}
                      /\ \A s \in Carries[p] : space[s] = p
    OBVIOUS
  <2>1. /\ ~call[c].failed
        /\ \/ call[c].pc = "lend" /\ Carries[call[c].package] = {}
           \/ call[c].pc = "return"
    BY CallAnswers DEF Assumed
  <2> QED BY <2>1 DEF IInv, CallKept, PackagesEverywhere, SpacesBack, Behind
<1>2. Spec => [][Next]_vars
  BY DEF Spec
<1>3. Spec => [][A]_vars
  BY <1>1, <1>2, RestoreInvariant, PTL
<1> QED BY <1>3 DEF RestoredIsWhole

-----------------------------------------------------------------------------
(* What is lent                                                             *)

\* Before the memory service is asked nothing is lent, and nothing gets lent.
LEMMA NothingLentYet ==
  ASSUME RestoreTyped, NEW c \in Caller, Lent(c),
         \/ Plan(c) \/ StopPhase(c) \/ StopRaises(c) \/ Replan(c) \/ Publish(c)
         \/ (\E u \in Unit : StopUnit(c, u)) \/ (\E a \in Authority : CopyBeside(c, a))
         \/ (\E k \in Kind : MoveAside(c, k)) \/ Replaced(c) \/ Undo(c) \/ Interrupt(c)
         \/ Start(c) \/ WaitReady(c)
  PROVE  Lent(c)'
<1> DEFINE asking == {"space", "asked", "return"}
<1>1. SUFFICES ASSUME call[c].pc \notin asking PROVE call'[c].pc \notin asking /\ stage' = stage
  <2>1. call[c].pc \notin asking
    BY Zenon
    DEF Plan, StopPhase, StopRaises, Replan, Publish, StopUnit, CopyBeside, MoveAside,
        Replaced, Undo, Interrupt, Start, WaitReady, At, Fault, Stopping, Replacing, Kind
  <2>2. stage.lent = {}
    BY <2>1 DEF Lent
  <2> QED BY <1>1, <2>1, <2>2, Zenon DEF Lent
<1>2. call[c] \in CallType
  BY DEF RestoreTyped
<1>3. CASE Plan(c) \/ StopPhase(c) \/ StopRaises(c) \/ Replan(c) \/ Publish(c)
  <2>1. CASE Plan(c)
    BY <1>1, <1>2, <2>1 DEF Plan, Refuse, Resting, RestoreTyped, CallType
  <2>2. CASE StopPhase(c) \/ StopRaises(c)
    BY <1>1, <1>2, <2>2 DEF StopPhase, StopRaises, Raise, RestoreTyped, CallType
  <2>3. CASE Replan(c) \/ Publish(c)
    BY <1>1, <1>2, <2>3 DEF Replan, Publish, Raise, RestoreTyped, CallType
  <2> QED BY <1>3, <2>1, <2>2, <2>3
<1>4. ASSUME NEW u \in Unit, StopUnit(c, u)
      PROVE  call'[c].pc \notin asking /\ stage' = stage
  <2>1. call'[c].pc \in {"replan", call[c].pc} /\ stage' = stage
    BY <1>2, <1>4, Zenon DEF StopUnit, RestoreTyped, CallType
  <2> QED BY <1>1, <2>1, Zenon
<1>5. ASSUME NEW a \in Authority, CopyBeside(c, a)
      PROVE  call'[c].pc \notin asking /\ stage' = stage
  BY <1>5 DEF CopyBeside, Raise, RestoreTyped, CallType
<1>6. ASSUME NEW k \in Kind, MoveAside(c, k)
      PROVE  call'[c].pc \notin asking /\ stage' = stage
  BY <1>6 DEF MoveAside, Raise, RestoreTyped, CallType
<1>7. CASE Replaced(c) \/ Undo(c) \/ Interrupt(c) \/ Start(c) \/ WaitReady(c)
  BY <1>7
  DEF Replaced, Undo, Interrupt, Start, WaitReady, Goto, Refuse, Resting, RestoreTyped,
      CallType
<1> QED BY <1>3, <1>4, <1>5, <1>6, <1>7

\* Asking for the spaces lends one of them at a time, and the package's root.
LEMMA LentInTurn ==
  ASSUME RestoreTyped, NEW c \in Caller, Lent(c),
         \/ LendRoot(c) \/ (\E s \in Space : LendSpace(c, s)) \/ RestoreSpace(c)
         \/ SpacesDone(c) \/ ReturnRoot(c)
  PROVE  Lent(c)'
<1> USE DEF Lent
<1>1. call[c] \in CallType
  BY DEF RestoreTyped
<1>2. CASE LendRoot(c)
  <2>1. call[c].pc = "lend" /\ stage.lent = {}
    BY <1>2 DEF LendRoot, At
  <2>2. CASE Carries[call[c].package] = {}
    BY <1>2, <2>1, <2>2 DEF LendRoot, Answer, Resting, RestoreTyped
  <2>3. CASE Carries[call[c].package] # {}
    <3>1. call'[c].pc = "space" /\ stage'.lent = stage.lent \cup {Root}
      BY <1>1, <1>2, <2>3 DEF LendRoot, RestoreTyped, CallType
    <3> QED BY <2>1, <3>1
  <2> QED BY <2>2, <2>3
<1>3. ASSUME NEW s \in Space, LendSpace(c, s)
      PROVE  Lent(c)'
  <2>1. call[c].pc = "space" /\ stage.lent \subseteq {Root}
    BY <1>3 DEF LendSpace, At
  <2>2. CASE ~Good(c, s)
    <3>1. call'[c].pc = "return" /\ stage' = stage
      BY <1>1, <1>3, <2>2 DEF LendSpace, RestoreTyped, CallType
    <3> QED BY <2>1, <3>1
  <2>3. CASE Good(c, s)
    <3>1. call'[c].pc = "asked" /\ call'[c].at = s /\ stage'.lent = stage.lent \cup {s}
      BY <1>1, <1>3, <2>3 DEF LendSpace, RestoreTyped, CallType
    <3> QED BY <2>1, <3>1
  <2> QED BY <2>2, <2>3
<1>4. CASE RestoreSpace(c)
  <2>1. call[c].pc = "asked" /\ stage.lent \subseteq {Root, call[c].at}
    BY <1>4 DEF RestoreSpace, At, Fault
  <2>2. call'[c].pc \in {"space", "return"} /\ stage'.lent = stage.lent \ {call[c].at}
    BY <1>1, <1>4 DEF RestoreSpace, RestoreTyped, CallType
  <2> QED BY <2>1, <2>2
<1>5. CASE SpacesDone(c)
  <2>1. call[c].pc = "space" /\ call'[c].pc = "return" /\ stage' = stage
    BY <1>1, <1>5 DEF SpacesDone, At, Goto, RestoreTyped, CallType
  <2> QED BY <2>1
<1>6. CASE ReturnRoot(c)
  <2>1. /\ call[c].pc = "return" /\ call'[c].pc = "idle"
        /\ stage'.lent = stage.lent \ {Root}
    BY <1>1, <1>6 DEF ReturnRoot, At, Answer, Resting, RestoreTyped, CallType
  <2> QED BY <2>1
<1> QED BY <1>2, <1>3, <1>4, <1>5, <1>6

\* As long as no agent is killed, what is lent is lent to a call under way.
LEMMA LentStays ==
  ASSUME IInv, Single, "agent_dies" \notin Faults, \A c \in Caller : Lent(c), [Next]_vars
  PROVE  \A c \in Caller : Lent(c)'
<1> SUFFICES ASSUME NEW c \in Caller PROVE Lent(c)'
  OBVIOUS
<1>1. CASE UNCHANGED <<call, stage>>
  BY <1>1 DEF Lent
<1>2. CASE \E p \in Package : Upload(c, p)
  <2>1. call[c].pc = "idle" /\ stage.lent = {}
    BY <1>2 DEF Upload, Lent
  <2>2. call'[c].pc \in {"idle", "plan"} /\ stage'.lent = {}
    BY <1>2, <2>1 DEF Upload, Refuse, Resting, IInv, RestoreTyped
  <2> QED BY <2>2 DEF Lent
<1>3. CASE Continue(c)
  BY <1>3, NothingLentYet, LentInTurn DEF IInv, Continue
<1>4. CASE \E i \in Authority \cup Space : Spoil(i)
  <2>1. call' = call /\ stage'.lent = stage.lent
    BY <1>4 DEF Spoil, IInv, RestoreTyped
  <2> QED BY <2>1 DEF Lent
<1>5. ~AgentDies(c)
  BY DEF AgentDies, Fault
<1>6. \A d \in Caller : d = c
  BY DEF Single
<1> QED
  BY <1>1, <1>2, <1>3, <1>4, <1>5, <1>6 DEF Next, vars, UnitStarts

\* Nothing of the package stays lent behind a restore, if its agent is not
\* killed: the service only ever borrows it (memory_realms.py put_back).
THEOREM PackageComesBack ==
  ASSUME Assumed, "agent_dies" \notin Faults, Caller # {}
  PROVE  Spec => []PackageReturned
<1> DEFINE L == \A c \in Caller : Lent(c)
<1>1. Init => L
  <2> SUFFICES ASSUME Init, NEW c \in Caller PROVE Lent(c)
    OBVIOUS
  <2>1. call[c].pc = "idle" /\ stage.lent = {}
    BY DEF Init, Resting
  <2> QED BY <2>1 DEF Lent
<1>2. IInv /\ L /\ [Next]_vars => L'
  BY LentStays DEF Assumed
<1>3. L => PackageReturned
  BY DEF Lent, PackageReturned
<1> QED BY <1>1, <1>2, <1>3, RestoreInvariant, PTL DEF Spec

-----------------------------------------------------------------------------
(* StateRestore implements StateReplacement, as long as the agent is neither *)
(* killed nor interrupted: a Host goes from one version to another as a      *)
(* whole, and no unit reads anything in between.                             *)

First == CHOOSE a \in Authority : TRUE

\* Every database is at one version, each log with its main file.
Uniform(files) ==
  /\ files[First]["main"] \in Version
  /\ \A a \in Authority : /\ files[a]["main"] = files[First]["main"]
                          /\ files[a]["sidecar"] \in {None, files[First]["main"]}

\* The Host, or what its undo list leads back to, is at one version, which the
\* units that run have read.
Aligned(c) ==
  /\ Moved(c) => Uniform(before[c])
  /\ ~Moved(c) => /\ Uniform(file)
                  /\ \A a \in Authority \cap up : seen[a] = file[First]["main"]
  /\ call[c].pc = "undo" => IF call[c].saved = {} THEN call[c].created = {}
                            ELSE call[c].created # Authority

Serving == [a \in Authority |-> IF a \in up THEN seen[a] ELSE None]

promise == <<HostVersion, Serving>>

\* A step of the promise, or none.
Promised == [Replacement!Next]_promise

-----------------------------------------------------------------------------
(* The version of the Host                                                  *)

\* There is a database to go by.
LEMMA FirstIsOne == First \in Authority
BY RestoreAssumption DEF First

\* With one caller, HostVersion is decided by that caller's place.
LEMMA HostIs ==
  ASSUME Single, NEW c \in Caller
  PROVE  HostVersion =
           IF /\ call[c].pc \in Replacing
              /\ call[c].saved # {} /\ call[c].created # Authority
           THEN before[c][First]["main"] ELSE file[First]["main"]
<1> DEFINE midway == {d \in Caller : /\ call[d].pc \in Replacing
                                     /\ call[d].saved # {} /\ call[d].created # Authority}
<1>1. CASE c \in midway
  <2>1. (CHOOSE d \in midway : TRUE) = c
    BY <1>1 DEF Single
  <2>2. midway # {}
    BY <1>1
  <2>3. HostVersion = before[CHOOSE d \in midway : TRUE][First]["main"]
    BY <2>2, Zenon DEF HostVersion, First
  <2>4. HostVersion = before[c][First]["main"]
    <3> HIDE DEF midway
    <3> QED BY <2>1, <2>3
  <2> QED BY <1>1, <2>4
<1>2. CASE c \notin midway
  <2>1. midway = {}
    BY <1>2 DEF Single
  <2>2. HostVersion = file[First]["main"]
    BY <2>1, Zenon DEF HostVersion, First
  <2> QED BY <1>2, <2>2
<1> QED BY <1>1, <1>2

\* The same of the next state.
LEMMA HostIsNext ==
  ASSUME Single, NEW c \in Caller
  PROVE  HostVersion' =
           IF /\ call'[c].pc \in Replacing
              /\ call'[c].saved # {} /\ call'[c].created # Authority
           THEN before'[c][First]["main"] ELSE file'[First]["main"]
<1>1. HostVersion =
        IF /\ call[c].pc \in Replacing
           /\ call[c].saved # {} /\ call[c].created # Authority
        THEN before[c][First]["main"] ELSE file[First]["main"]
  BY HostIs
<1>2. (HostVersion =
        IF /\ call[c].pc \in Replacing
           /\ call[c].saved # {} /\ call[c].created # Authority
        THEN before[c][First]["main"] ELSE file[First]["main"])'
  BY <1>1, PTL
<1> QED BY <1>2

\* Where nothing is on the undo list nothing was moved.
LEMMA Untouched ==
  ASSUME IInv, NEW c \in Caller, Aligned(c), call[c].pc \in Moving, call[c].saved = {}
  PROVE  call[c].created = {} /\ file = before[c]
<1>1. Undoable(c) /\ Uniform(before[c]) /\ call[c].created \subseteq Authority
  BY DEF IInv, RestoreTyped, CallType, CallKept, Aligned, Moved
<1>2. ASSUME NEW a \in Authority
      PROVE  a \notin call[c].created /\ \A k \in Kind : file[a][k] = before[c][a][k]
  <2>1. \A k \in Kind : SavedOf(c, a, k) = {}
    BY DEF SavedOf
  <2>2. before[c][a]["main"] # None
    BY <1>1, RestoreAssumption DEF Uniform
  <2> QED BY <1>1, <2>1, <2>2 DEF Undoable, Moved, Kind
<1>3. file \in [Authority -> [Kind -> Content]] /\ before[c] \in [Authority -> [Kind -> Content]]
  BY DEF IInv, RestoreTyped
<1>4. \A a \in Authority : file[a] = before[c][a]
  BY <1>2, <1>3
<1> QED BY <1>1, <1>2, <1>3, <1>4

\* While files move the Host counts as what the restore found.
LEMMA FoundVersion ==
  ASSUME Single, NEW c \in Caller
  PROVE  IInv /\ Aligned(c) /\ Moved(c) /\ call[c].created # Authority
           => HostVersion = before[c][First]["main"]
<1> SUFFICES ASSUME IInv, Aligned(c), Moved(c), call[c].created # Authority
             PROVE  HostVersion = before[c][First]["main"]
  OBVIOUS
<1>1. call[c].pc \in Replacing
  BY DEF Moved, Moving, Replacing
<1>2. call[c].saved = {} => file = before[c]
  BY Untouched DEF Moved
<1> QED BY <1>1, <1>2, HostIs

\* The same of the next state.
LEMMA FoundVersionNext ==
  ASSUME Single, NEW c \in Caller
  PROVE  IInv' /\ Aligned(c)' /\ Moved(c)' /\ call'[c].created # Authority
           => HostVersion' = before'[c][First]["main"]
<1>1. IInv /\ Aligned(c) /\ Moved(c) /\ call[c].created # Authority
      => HostVersion = before[c][First]["main"]
  BY FoundVersion
<1>2. (IInv /\ Aligned(c) /\ Moved(c) /\ call[c].created # Authority
      => HostVersion = before[c][First]["main"])'
  BY <1>1, PTL
<1> QED BY <1>2

-----------------------------------------------------------------------------
(* Kinds of steps                                                           *)

\* Neither the files nor what the units read is touched.
LEMMA QuietStep ==
  ASSUME Single, NEW c \in Caller, IInv, Aligned(c), ~Moved(c), ~Moved(c)',
         UNCHANGED <<file, seen>>, up' \in {up, up \cup {Manager}},
         call'[c].pc = "undo" => call'[c].saved = {} /\ call'[c].created = {}
  PROVE  Aligned(c)' /\ Promised
<1>1. Aligned(c)'
  BY RestoreAssumption DEF Aligned, Uniform
<1>2. HostVersion = file[First]["main"]
  BY HostIs DEF Moved, Moving, Replacing
<1>3. HostVersion' = file'[First]["main"]
  BY HostIsNext DEF Moved, Moving, Replacing
<1>4. Serving' = Serving
  BY RestoreAssumption DEF Serving
<1> QED BY <1>1, <1>2, <1>3, <1>4 DEF Promised, promise

\* The files move, and what was found stays what it was.
LEMMA FoundStep ==
  ASSUME Single, NEW c \in Caller, IInv, Aligned(c), IInv', Moved(c), Moved(c)',
         UNCHANGED <<up, seen, before>>,
         call[c].created # Authority, call'[c].created # Authority
  PROVE  Aligned(c)' /\ Promised
<1>1. Aligned(c)'
  BY DEF Aligned, Moved, Moving, Uniform
<1>2. HostVersion = before[c][First]["main"]
  BY FoundVersion
<1>3. HostVersion' = before'[c][First]["main"]
  BY <1>1, FoundVersionNext
<1> QED BY <1>1, <1>2, <1>3 DEF Promised, promise, Serving

\* A step that fails leads into the undo, of something or of nothing.
LEMMA RaiseStep ==
  ASSUME Single, NEW c \in Caller, IInv, Aligned(c), IInv', call[c].pc \in Moving,
         call[c].todo # {}, Raise(c), UNCHANGED <<file, up, seen, before>>
  PROVE  Aligned(c)' /\ Promised
<1>1. /\ call'[c].pc = "undo" /\ call'[c].saved = call[c].saved
      /\ call'[c].created = call[c].created
  BY DEF Raise, IInv, RestoreTyped, CallType
<1>2. call[c].created # Authority
  BY DEF IInv, RestoreTyped, CallType, CallKept, Reached
<1>3. CASE call[c].saved # {}
  BY <1>1, <1>2, <1>3, FoundStep DEF Moved
<1>4. CASE call[c].saved = {}
  <2>1. call[c].created = {} /\ file = before[c]
    BY <1>4, Untouched
  <2>2. up = {}
    BY DEF IInv, CallKept, ProductDown, Moved
  <2>3. Aligned(c)'
    BY <1>1, <1>4, <2>1, <2>2 DEF Aligned, Moved, Moving, Uniform
  <2>4. HostVersion = before[c][First]["main"]
    BY <1>2, FoundVersion DEF Moved
  <2>5. HostVersion' = file'[First]["main"]
    BY <1>1, <1>4, HostIsNext
  <2> QED BY <2>1, <2>3, <2>4, <2>5 DEF Promised, promise, Serving
<1> QED BY <1>3, <1>4

\* Behind the product's back the Host becomes another version.
LEMMA ReplaceStep ==
  ASSUME up = {}, UNCHANGED <<up, seen>>, HostVersion' \in Version
  PROVE  Promised
<1>1. \A a \in Authority : Serving[a] = None
  BY DEF Serving
<1>2. Serving' = Serving
  BY DEF Serving
<1> HIDE DEF HostVersion
<1>3. Replacement!Replace(HostVersion')
  BY <1>1, <1>2 DEF Replacement!Replace, Serving
<1> QED BY <1>3 DEF Promised, Replacement!Next

-----------------------------------------------------------------------------
(* Units                                                                    *)

\* A unit that starts opens the version of the Host.
LEMMA ServeStep ==
  ASSUME Single, NEW c \in Caller, IInv, Aligned(c), NEW a \in Authority, UnitStarts(a)
  PROVE  Aligned(c)' /\ Promised
<1>1. ~Moved(c) /\ UNCHANGED <<call, before>>
  BY DEF UnitStarts, IInv, CallKept, ProductDown
<1>2. Uniform(file) /\ First \in Authority
  BY <1>1, FirstIsOne DEF Aligned
<1>3. Opened(a) = file[First]["main"] /\ Opened(a) # Mixed
  BY <1>2, RestoreAssumption DEF Opened, Uniform
<1>4. /\ up' = up \cup {a} /\ a \notin up
      /\ seen' = [seen EXCEPT ![a] = file[First]["main"]]
      /\ file' = [file EXCEPT ![a] = [k \in Kind |-> file[First]["main"]]]
  BY <1>3 DEF UnitStarts
<1>5. /\ file'[First]["main"] = file[First]["main"]
      /\ \A b \in Authority : file'[b]["main"] = file[b]["main"] \/ b = a
      /\ \A b \in Authority \ {a} : file'[b] = file[b]
      /\ \A k \in Kind : file'[a][k] = file[First]["main"]
  BY <1>2, <1>4 DEF IInv, RestoreTyped, Kind
<1>6. Uniform(file)'
  BY <1>2, <1>5 DEF Uniform, Kind
<1>7. \A b \in Authority \cap up' : seen'[b] = file'[First]["main"]
  BY <1>1, <1>4, <1>5 DEF IInv, RestoreTyped, Aligned
<1>8. Aligned(c)'
  BY <1>1, <1>6, <1>7 DEF Aligned, Moved
<1>9. HostVersion = file[First]["main"] /\ HostVersion' = file[First]["main"]
  BY <1>1, <1>5, HostIs, HostIsNext DEF Moved, Moving, Replacing
<1>10. Serving[a] = None /\ Serving' = [Serving EXCEPT ![a] = file[First]["main"]]
  BY <1>4 DEF IInv, RestoreTyped, Serving
<1>11. Replacement!Serve(a)
  BY <1>9, <1>10 DEF Replacement!Serve, Serving
<1> QED BY <1>8, <1>11 DEF Promised, Replacement!Next

\* A unit that goes down leaves; its log may stay, of the version it read.
LEMMA LeaveStep ==
  ASSUME Single, NEW c \in Caller, IInv, Aligned(c), "stop_fails" \notin Faults,
         NEW u \in Unit, StopUnit(c, u)
  PROVE  Aligned(c)' /\ Promised
<1>1. call[c].pc = "stop" /\ \E clean \in BOOLEAN : Down(u, clean)
  BY DEF StopUnit, At, Fault
<1>2. PICK clean \in BOOLEAN : Down(u, clean)
  BY <1>1
<1>3. call'[c].pc \in {"stop", "replan"}
  <2>1. call[c] \in CallType
    BY DEF IInv, RestoreTyped
  <2>2. call'[c].pc \in {"replan", call[c].pc}
    BY <2>1, Zenon DEF StopUnit, IInv, RestoreTyped, CallType
  <2> QED BY <1>1, <2>2
<1>4. ~Moved(c) /\ ~Moved(c)' /\ First \in Authority
  BY <1>1, <1>3, FirstIsOne DEF Moved, Moving
<1>5. /\ \A a \in Authority : file'[a]["main"] = file[a]["main"]
      /\ \A a \in Authority : file'[a]["sidecar"] \in {None, file[a]["sidecar"]}
  <2>1. CASE clean /\ u # Manager /\ seen[u] # Mixed
    BY <1>2, <2>1 DEF Down, IInv, RestoreTyped, Kind, Unit
  <2>2. CASE ~(clean /\ u # Manager /\ seen[u] # Mixed)
    BY <1>2, <2>2 DEF Down
  <2> QED BY <2>1, <2>2
<1>6. Uniform(file)'
  BY <1>4, <1>5 DEF Aligned, Uniform
<1>7. /\ up' = up \ {u}
      /\ \A a \in Authority : seen'[a] = IF a = u THEN None ELSE seen[a]
  BY <1>2, RestoreAssumption DEF Down, IInv, RestoreTyped, Unit
<1>8. Aligned(c)'
  BY <1>3, <1>4, <1>5, <1>6, <1>7 DEF Aligned
<1>9. HostVersion = file[First]["main"] /\ HostVersion' = file[First]["main"]
  BY <1>1, <1>3, <1>4, <1>5, HostIs, HostIsNext DEF Replacing
<1>10. CASE u = Manager
  <2>1. Serving' = Serving
    BY <1>7, <1>10, RestoreAssumption DEF Serving
  <2> QED BY <1>8, <1>9, <2>1 DEF Promised, promise
<1>11. CASE u \in Authority
  <2>1. Serving' = [Serving EXCEPT ![u] = None]
    BY <1>7, <1>11 DEF Serving
  <2>2. Replacement!Leave(u)
    BY <1>9, <2>1 DEF Replacement!Leave, Serving
  <2> QED BY <1>8, <1>11, <2>2 DEF Promised, Replacement!Next
<1> QED BY <1>10, <1>11 DEF Unit

-----------------------------------------------------------------------------
(* The call                                                                 *)

\* Before the replacement and behind it a call touches no file.
LEMMA CallIsQuiet ==
  ASSUME Single, NEW c \in Caller, IInv, Aligned(c),
         \/ (\E p \in Package : Upload(c, p)) \/ Plan(c) \/ StopPhase(c) \/ StopRaises(c)
         \/ Start(c) \/ WaitReady(c) \/ LendRoot(c) \/ (\E s \in Space : LendSpace(c, s))
         \/ RestoreSpace(c) \/ SpacesDone(c) \/ ReturnRoot(c)
  PROVE  Aligned(c)' /\ Promised
<1> DEFINE quiet == /\ ~Moved(c) /\ ~Moved(c)' /\ UNCHANGED <<file, seen>>
                    /\ up' \in {up, up \cup {Manager}}
                    /\ call'[c].pc = "undo" =>
                         call'[c].saved = {} /\ call'[c].created = {}
<1> SUFFICES quiet
  BY QuietStep
<1>1. call \in [Caller -> CallType] /\ call[c] \in CallType
  BY DEF IInv, RestoreTyped
<1>2. CASE \E p \in Package : Upload(c, p)
  BY <1>1, <1>2 DEF Upload, Refuse, Resting, CallType, Moved, Moving
<1>3. CASE Plan(c)
  BY <1>1, <1>3 DEF Plan, At, Fault, Refuse, Resting, CallType, Moved, Moving
<1>4. CASE StopPhase(c)
  BY <1>1, <1>4 DEF StopPhase, At, CallType, Moved, Moving
<1>5. CASE StopRaises(c)
  <2>1. call[c].saved = {} /\ call[c].created = {}
    BY <1>5 DEF StopRaises, Fault, IInv, CallKept, NothingMoved
  <2> QED BY <1>1, <1>5, <2>1 DEF StopRaises, Fault, Raise, CallType, Moved, Moving
<1>6. CASE Start(c) \/ WaitReady(c)
  BY <1>1, <1>6
  DEF Start, WaitReady, At, Fault, Goto, Refuse, Resting, CallType, Moved, Moving
<1>7. CASE LendRoot(c)
  BY <1>1, <1>7 DEF LendRoot, At, Answer, Resting, CallType, Moved, Moving
<1>8. CASE \E s \in Space : LendSpace(c, s)
  BY <1>1, <1>8 DEF LendSpace, At, CallType, Moved, Moving
<1>9. CASE RestoreSpace(c)
  BY <1>1, <1>9 DEF RestoreSpace, At, Fault, CallType, Moved, Moving
<1>10. CASE SpacesDone(c) \/ ReturnRoot(c)
  BY <1>1, <1>10 DEF SpacesDone, ReturnRoot, At, Goto, Answer, Resting, CallType, Moved, Moving
<1> QED BY <1>2, <1>3, <1>4, <1>5, <1>6, <1>7, <1>8, <1>9, <1>10

\* What the replacement goes back to is taken while the Host is at one version.
LEMMA ReplanStep ==
  ASSUME Single, NEW c \in Caller, IInv, Aligned(c), IInv', Replan(c)
  PROVE  Aligned(c)' /\ Promised
<1>1. /\ call[c].pc = "replan" /\ UNCHANGED <<file, up, seen>>
      /\ before' = [before EXCEPT ![c] = file]
      /\ call[c].saved = {} /\ call[c].created = {} /\ up = {} /\ call[c] \in CallType
  BY DEF Replan, At, IInv, RestoreTyped, CallKept, NothingMoved, ProductDown
<1>2. ~Moved(c) /\ Uniform(file)
  BY <1>1 DEF Moved, Moving, Aligned
<1>3. CASE Raise(c)
  <2>1. call'[c].pc = "undo" /\ call'[c].saved = {} /\ call'[c].created = {}
    BY <1>1, <1>3 DEF Raise, IInv, RestoreTyped, CallType
  <2> QED BY <1>1, <1>2, <2>1, QuietStep DEF Moved, Moving
<1>4. CASE call' = [call EXCEPT ![c].pc = "replace", ![c].todo = Authority]
  <2>1. /\ call'[c].pc = "replace" /\ call'[c].saved = {} /\ call'[c].created = {}
        /\ before'[c] = file
    BY <1>1, <1>4 DEF IInv, RestoreTyped, CallType
  <2>2. Aligned(c)'
    BY <1>1, <1>2, <2>1 DEF Aligned, Moved, Moving, Uniform
  <2>3. HostVersion = file[First]["main"] /\ HostVersion' = file[First]["main"]
    BY <1>1, <2>1, HostIs, HostIsNext
  <2> QED BY <1>1, <2>2, <2>3 DEF Promised, promise, Serving
<1> QED BY <1>3, <1>4 DEF Replan

\* The copy beside its destination changes nothing.
LEMMA CopyStep ==
  ASSUME Single, NEW c \in Caller, IInv, Aligned(c), IInv',
         NEW a \in Authority, CopyBeside(c, a)
  PROVE  Aligned(c)' /\ Promised
<1>1. /\ call[c].pc = "replace" /\ a \in call[c].todo
      /\ UNCHANGED <<file, up, seen, before>> /\ call[c] \in CallType
  BY DEF CopyBeside, At, Fault, IInv, RestoreTyped
<1>2. CASE Raise(c)
  BY <1>1, <1>2, RaiseStep DEF Moving
<1>3. CASE call' = [call EXCEPT ![c].pc = "main", ![c].at = a]
  <2>1. call'[c].pc = "main" /\ call'[c].created = call[c].created
    BY <1>1, <1>3 DEF IInv, RestoreTyped, CallType
  <2>2. call[c].created # Authority
    BY <1>1 DEF IInv, CallKept, Reached, Moving
  <2> QED BY <1>1, <2>1, <2>2, FoundStep DEF Moved, Moving
<1> QED BY <1>2, <1>3 DEF CopyBeside

\* A file moved aside is still what the Host counts as.
LEMMA MoveStep ==
  ASSUME Single, NEW c \in Caller, IInv, Aligned(c), IInv', NEW k \in Kind, MoveAside(c, k)
  PROVE  Aligned(c)' /\ Promised
<1>1. /\ call[c].pc = k /\ call[c].pc \in {"main", "sidecar"} /\ call[c] \in CallType
      /\ UNCHANGED <<up, seen, before>>
  BY DEF MoveAside, At, Fault, Kind, IInv, RestoreTyped
<1>2. call[c].at \in call[c].todo /\ call[c].created # Authority
  BY <1>1 DEF IInv, RestoreTyped, CallType, CallKept, Reached, Moving
<1>3. CASE Raise(c) /\ UNCHANGED file
  BY <1>1, <1>2, <1>3, RaiseStep DEF Moving
<1>4. CASE ~(Raise(c) /\ UNCHANGED file)
  <2>1. call'[c].pc \in {"sidecar", "publish"} /\ call'[c].created = call[c].created
    BY <1>1, <1>4 DEF MoveAside, IInv, RestoreTyped, CallType
  <2> QED BY <1>1, <1>2, <2>1, FoundStep DEF Moved, Moving
<1> QED BY <1>3, <1>4

\* With the last database published the Host is the package's.
LEMMA PublishStep ==
  ASSUME Single, NEW c \in Caller, IInv, Aligned(c), IInv', Publish(c)
  PROVE  Aligned(c)' /\ Promised
<1>1. /\ call[c].pc = "publish" /\ UNCHANGED <<up, seen, before>> /\ call[c] \in CallType
      /\ up = {}
  BY DEF Publish, At, Fault, IInv, RestoreTyped, CallKept, ProductDown, Moved, Moving
<1>2. call[c].at \in call[c].todo /\ call[c].created # Authority
  BY <1>1 DEF IInv, RestoreTyped, CallType, CallKept, Reached, Moving
<1>3. CASE Raise(c) /\ UNCHANGED file
  BY <1>1, <1>2, <1>3, RaiseStep DEF Moving
<1>4. CASE ~(Raise(c) /\ UNCHANGED file)
  <2>1. /\ call'[c].pc = "replace" /\ call'[c].package \in Package
    BY <1>1, <1>4 DEF Publish, IInv, RestoreTyped, CallType
  <2>2. CASE call'[c].created # Authority
    BY <1>1, <1>2, <2>1, <2>2, FoundStep DEF Moved, Moving
  <2>3. CASE call'[c].created = Authority
    <3>1. Aligned(c)'
      BY <1>1, <2>1 DEF Aligned, Moved, Moving, Uniform
    <3>2. First \in Authority /\ First \notin call'[c].todo
      BY <2>1, <2>3, FirstIsOne DEF IInv, CallKept, Reached, Moving
    <3>3. file'[First]["main"] = call'[c].package
      BY <2>1, <3>2 DEF IInv, CallKept, Reached, Moving
    <3>4. HostVersion' \in Version
      BY <2>1, <2>3, <3>3, HostIsNext DEF Version
    <3> QED BY <1>1, <3>1, <3>4, ReplaceStep
  <2> QED BY <2>2, <2>3
<1> QED BY <1>3, <1>4

\* Behind the replacement every database is the package's.
LEMMA ReplacedStep ==
  ASSUME Single, NEW c \in Caller, IInv, Aligned(c), Replaced(c)
  PROVE  Aligned(c)' /\ Promised
<1>1. /\ call[c].pc = "replace" /\ call[c].todo = {} /\ call[c] \in CallType
      /\ UNCHANGED <<file, up, seen, before>> /\ call'[c].pc = "start" /\ up = {}
  BY DEF Replaced, At, Goto, IInv, RestoreTyped, CallType, CallKept, ProductDown, Moved,
         Moving
<1>2. \A a \in Authority : /\ file[a]["main"] = call[c].package
                            /\ file[a]["sidecar"] = None
  BY <1>1 DEF IInv, CallKept, Reached, Moving
<1>3. call[c].package \in Version /\ file[First]["main"] = call[c].package
  BY <1>1, <1>2, FirstIsOne DEF CallType, Version
<1>4. Aligned(c)'
  BY <1>1, <1>2, <1>3 DEF Aligned, Moved, Moving, Uniform
<1>5. HostVersion' \in Version
  BY <1>1, <1>3, HostIsNext DEF Replacing
<1> QED BY <1>1, <1>4, <1>5, ReplaceStep

\* The undo leaves the Host what it counted as.
LEMMA UndoStep ==
  ASSUME Single, NEW c \in Caller, IInv, Aligned(c), Undo(c)
  PROVE  Aligned(c)' /\ Promised
<1>1. /\ call[c].pc = "undo" /\ call'[c].pc = "start" /\ file' = PutBack(c)
      /\ UNCHANGED <<up, seen, before>>
  BY DEF Undo, At, Goto, IInv, RestoreTyped, CallType
<1>2. CASE call[c].saved = {}
  <2>1. call[c].created = {}
    BY <1>1, <1>2 DEF Aligned
  <2>2. PutBack(c) = [a \in Authority |-> [k \in Kind |-> file[a][k]]]
    BY <1>2, <2>1 DEF PutBack
  <2>3. file' = file
    BY <1>1, <2>2 DEF IInv, RestoreTyped
  <2> QED BY <1>1, <1>2, <2>3, QuietStep DEF Moved, Moving
<1>3. CASE call[c].saved # {}
  <2>1. file' = before[c] /\ up = {} /\ Moved(c) /\ call[c].created # Authority
    BY <1>1, <1>3, PutBackIsBefore DEF Moved, IInv, CallKept, ProductDown, Aligned
  <2>2. Aligned(c)'
    BY <1>1, <2>1 DEF Aligned, Moved, Moving, Uniform
  <2>3. HostVersion = before[c][First]["main"]
    BY <2>1, FoundVersion
  <2>4. HostVersion' = before[c][First]["main"]
    BY <1>1, <2>1, HostIsNext DEF Replacing
  <2> QED BY <1>1, <2>2, <2>3, <2>4 DEF Promised, promise, Serving
<1> QED BY <1>2, <1>3

-----------------------------------------------------------------------------
(* The refinement                                                           *)

\* No fault the except block does not answer.
Answered == Assumed /\ Caller # {} /\ {"interrupt", "agent_dies"} \cap Faults = {}

\* Every step of a restore is one of the promise, or none.
LEMMA RestoreStep ==
  ASSUME Answered, NEW c \in Caller
  PROVE  IInv /\ Aligned(c) /\ [Next]_vars => Aligned(c)' /\ Promised
<1> SUFFICES ASSUME IInv, Aligned(c), [Next]_vars
             PROVE  Aligned(c)' /\ Promised
  OBVIOUS
<1>1. IInv' /\ Single /\ "stop_fails" \notin Faults
  BY StepKeeps DEF Answered, Assumed
<1>2. CASE UNCHANGED vars \/ \E i \in Authority \cup Space : Spoil(i)
  <2>1. UNCHANGED <<file, up, seen, call, before>>
    BY <1>2 DEF vars, Spoil
  <2>2. Aligned(c)'
    BY <2>1 DEF Aligned, Moved, Uniform
  <2>3. HostVersion' = HostVersion
    BY <1>1, <2>1, HostIs, HostIsNext
  <2> QED BY <2>1, <2>2, <2>3 DEF Promised, promise, Serving
<1>3. CASE \E a \in Authority : UnitStarts(a)
  BY <1>1, <1>3, ServeStep
<1>4. CASE \E d \in Caller : (\E p \in Package : Upload(d, p)) \/ Continue(d) \/ AgentDies(d)
  <2>1. (\E p \in Package : Upload(c, p)) \/ Continue(c)
    BY <1>1, <1>4 DEF Single, AgentDies, Fault, Answered
  <2>2. ~Interrupt(c)
    BY DEF Interrupt, Fault, Answered
  <2>3. CASE \E u \in Unit : StopUnit(c, u)
    BY <1>1, <2>3, LeaveStep
  <2>4. CASE Replan(c) \/ \E a \in Authority : CopyBeside(c, a)
    BY <1>1, <2>4, ReplanStep, CopyStep
  <2>5. CASE (\E k \in Kind : MoveAside(c, k)) \/ Publish(c)
    BY <1>1, <2>5, MoveStep, PublishStep
  <2>6. CASE Replaced(c) \/ Undo(c)
    BY <1>1, <2>6, ReplacedStep, UndoStep
  <2>7. CASE ~(\/ (\E u \in Unit : StopUnit(c, u)) \/ Replan(c)
               \/ (\E a \in Authority : CopyBeside(c, a))
               \/ (\E k \in Kind : MoveAside(c, k)) \/ Publish(c)
               \/ Replaced(c) \/ Undo(c))
    <3>1. \/ (\E p \in Package : Upload(c, p)) \/ Plan(c) \/ StopPhase(c) \/ StopRaises(c)
          \/ Start(c) \/ WaitReady(c) \/ LendRoot(c) \/ (\E s \in Space : LendSpace(c, s))
          \/ RestoreSpace(c) \/ SpacesDone(c) \/ ReturnRoot(c)
      BY <2>1, <2>2, <2>7, Zenon DEF Continue
    <3> QED BY <1>1, <3>1, CallIsQuiet
  <2> QED BY <2>3, <2>4, <2>5, <2>6, <2>7
<1> QED BY <1>2, <1>3, <1>4 DEF Next

\* The Host starts at one version, which every unit reads.
LEMMA RestoreBegins ==
  ASSUME Answered, NEW c \in Caller
  PROVE  Init => Aligned(c) /\ Replacement!Init
<1> SUFFICES ASSUME Init PROVE Aligned(c) /\ Replacement!Init
  OBVIOUS
<1>1. First \in Authority /\ Live \in Version
  BY FirstIsOne DEF Version
<1>2. call[c].pc = "idle"
  BY DEF Init, Resting
<1>3. Aligned(c)
  BY <1>1, <1>2 DEF Init, Aligned, Moved, Moving, Uniform, Kind
<1>4. HostVersion = Live
  BY <1>1, <1>2, HostIs DEF Init, Kind, Replacing, Answered, Assumed
<1>5. Serving = [a \in Authority |-> Live]
  BY DEF Init, Serving, Unit
<1> QED BY <1>1, <1>3, <1>4, <1>5 DEF Replacement!Init, Serving

\* A restore replaces the state of a Host as one: file by file and failing
\* anywhere, it is the package's version or the one it found, and no unit reads
\* another (authorities.py:210-262, 559-583), whatever the number of databases.
THEOREM RestoreImplements ==
  ASSUME Answered
  PROVE  Spec => ReplacedAsOne
<1>1. PICK c \in Caller : TRUE
  BY DEF Answered
<1>2. Init => Aligned(c) /\ Replacement!Init
  BY RestoreBegins
<1>3. IInv /\ Aligned(c) /\ [Next]_vars => Aligned(c)' /\ [Replacement!Next]_promise
  BY RestoreStep DEF Promised
<1>4. Spec => []IInv
  BY RestoreInvariant DEF Answered
<1> QED BY <1>2, <1>3, <1>4, PTL
    DEF Spec, ReplacedAsOne, Replacement!Spec, Replacement!vars, promise, Serving
=============================================================================
