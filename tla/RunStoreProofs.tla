--------------------------- MODULE RunStoreProofs ---------------------------
(***************************************************************************)
(* OneActionPerHost and FinishedIsSettled are invariants of RunStore for    *)
(* any number of Hosts, runs, phases and browsers, any retention and every  *)
(* fault (Inv).  On top of them RunStore implements EventFeed (FeedInv):    *)
(* what any number of browsers replay and follow is the log of their run,   *)
(* however they open, leave and are forgotten, as long as none leaves while *)
(* its backlog is being replayed.                                           *)
(***************************************************************************)
EXTENDS RunStore, SequenceTheorems, FiniteSetTheorems, WellFoundedInduction, TLAPS

Status == {"none", "running", "completed", "failed"}
PhaseStatus == {"running", "done", "failed"}
Phase == [name : PhaseName, status : PhaseStatus]
Kind == {"run.started", "phase.began", "phase.recorded", "run.finished"}
Event == [seq : Nat, kind : Kind, phases : Seq(PhaseStatus)]
RunRecord == [status : Status, host : Host \cup {Nothing}, mutating : BOOLEAN,
              phases : Seq(Phase), events : Seq(Event)]

\* What a thread that has not ended still has to do for its run.
Alive == {"starting", "working", "reporting"}

StoreTyped ==
  /\ run \in [Run -> RunRecord]
  /\ order \in SUBSET Run
  /\ busy \in [Host -> Run \cup {Nothing}]
  /\ sequence \in Nat
  /\ thread \in [Run -> Alive \cup {"none", "ended"}]
  /\ journal \in [Run -> Seq(PhaseName)]

\* A run that runs is known and holds its Host if it mutates it; a live thread
\* is one of a run that runs.
Claims ==
  /\ \A r \in Run : thread[r] \in Alive => run[r].status = "running"
  /\ \A r \in Run : run[r].status = "running" => run[r].host \in Host /\ Known(r)
  /\ \A h \in Host, r \in Run :
       busy[h] = r <=> run[r].status = "running" /\ run[r].mutating /\ run[r].host = h

Showing(r, status) == {i \in DOMAIN run[r].phases : run[r].phases[i].status = status}
AtMostOne(S) == \A i, j \in S : i = j

\* At every moment a run shows what its journal holds, at most one phase
\* running while it runs and at most one failed when it has failed.
Evidence ==
  \A r \in Run :
    /\ \A i \in DOMAIN journal[r] : \E j \in DOMAIN run[r].phases :
         run[r].phases[j] = [name |-> journal[r][i], status |-> "done"]
    /\ run[r].status = "none" => run[r] = Blank /\ journal[r] = <<>>
    /\ run[r].status = "running" => Showing(r, "failed") = {} /\ AtMostOne(Showing(r, "running"))
    /\ run[r].status = "completed" => Showing(r, "running") = {} /\ Showing(r, "failed") = {}
    /\ run[r].status = "failed" => Showing(r, "running") = {} /\ AtMostOne(Showing(r, "failed"))

Inv == StoreTyped /\ Claims /\ Evidence

-----------------------------------------------------------------------------
(* The operators                                                            *)

\* An event changes the run it is of, and only that one.
LEMMA PublishRuns ==
  ASSUME StoreTyped, NEW r \in Run, NEW kind \in Kind, NEW record \in RunRecord,
         Publish(r, kind, record)
  PROVE  /\ run' \in [Run -> RunRecord] /\ sequence' \in Nat
         /\ run'[r].status = record.status /\ run'[r].host = record.host
         /\ run'[r].mutating = record.mutating /\ run'[r].phases = record.phases
         /\ \A q \in Run \ {r} : run'[q] = run[q]
<1> DEFINE event == [seq |-> sequence + 1, kind |-> kind,
                     phases |-> [i \in DOMAIN record.phases |-> record.phases[i].status]]
           next == [record EXCEPT !.events = Append(@, event)]
<1>1. event.phases \in Seq(PhaseStatus)
  <2>1. /\ Len(record.phases) \in Nat /\ DOMAIN record.phases = 1 .. Len(record.phases)
        /\ \A i \in DOMAIN record.phases : record.phases[i] \in Phase
    BY DEF RunRecord
  <2>2. \A i \in DOMAIN record.phases : record.phases[i].status \in PhaseStatus
    BY <2>1 DEF Phase
  <2> QED BY <2>1, <2>2, SeqDef
<1>2. event \in Event
  BY <1>1 DEF StoreTyped, Event
<1>3. /\ next \in RunRecord /\ next.status = record.status /\ next.host = record.host
      /\ next.mutating = record.mutating /\ next.phases = record.phases
  <2>1. Append(record.events, event) \in Seq(Event)
    BY <1>2 DEF RunRecord
  <2> QED BY <2>1 DEF RunRecord
<1>4. run' = [run EXCEPT ![r] = next] /\ sequence' = sequence + 1
  BY DEF Publish
<1> QED BY <1>3, <1>4 DEF StoreTyped

\* Settling touches only what was running.
LEMMA SettledPhases ==
  ASSUME NEW phases \in Seq(Phase), NEW status \in PhaseStatus
  PROVE  LET t == Settled(phases, status) IN
         /\ t \in Seq(Phase) /\ Len(t) = Len(phases)
         /\ \A i \in 1 .. Len(phases) :
              t[i].status = IF phases[i].status = "running" THEN status ELSE phases[i].status
         /\ \A i \in 1 .. Len(phases) : phases[i].status # "running" => t[i] = phases[i]
<1> DEFINE t == Settled(phases, status)
<1>1. /\ Len(phases) \in Nat /\ DOMAIN phases = 1 .. Len(phases)
      /\ \A i \in 1 .. Len(phases) : phases[i] \in Phase
  BY LenProperties, ElementOfSeq
<1>2. \A i \in 1 .. Len(phases) :
        /\ t[i] = IF phases[i].status = "running" THEN [phases[i] EXCEPT !.status = status]
                  ELSE phases[i]
        /\ t[i] \in Phase
        /\ t[i].status = IF phases[i].status = "running" THEN status ELSE phases[i].status
  BY <1>1 DEF Settled, Phase
<1>3. t \in [1 .. Len(phases) -> Phase]
  BY <1>1, <1>2 DEF Settled
<1> HIDE DEF t
<1>4. t \in Seq(Phase) /\ Len(t) = Len(phases)
  BY <1>1, <1>3, SeqDef
<1> QED BY <1>2, <1>4 DEF t

\* A set of numbers has a least one.
LEMMA FirstOf ==
  ASSUME NEW S, S \subseteq Nat, S # {}
  PROVE  \E j \in S : \A k \in S : j <= k
<1> DEFINE R == OpToRel(<, Nat)
<1>1. IsWellFoundedOn(R, Nat)
  BY NatLessThanWellFounded
<1>2. PICK j \in S : \A k \in S : ~ (<<k, j>> \in R)
  <2> HIDE DEF R
  <2> QED BY <1>1, WFMin
<1>3. ASSUME NEW k \in S PROVE j <= k
  <2>1. ~ (<<k, j>> \in R) /\ k \in Nat /\ j \in Nat
    BY <1>2
  <2> QED BY <2>1 DEF OpToRel
<1> QED BY <1>3

\* A prune, whatever the runs it is given: what it forgets ended before what it
\* keeps of the runs that ended, it keeps no such run when what is left is still
\* too much, and it stops as soon as it is not.
LEMMA ForgottenOldest ==
  ASSUME StoreTyped, NEW runs \in SUBSET Run
  PROVE  LET kept == runs \ Forgotten(runs) IN
         /\ Cardinality(kept) > Retain => \A q \in kept : ~ Ended(q)
         /\ \A q \in Forgotten(runs), p \in kept : Ended(p) => q < p
         /\ Forgotten(runs) # {} => Cardinality(kept) >= Retain
<1> USE StoreAssumption
<1> DEFINE gone == Forgotten(runs)
           kept == runs \ gone
<1>1. IsFiniteSet(runs) /\ runs \subseteq Nat /\ \A x \in runs : x \in Nat /\ x <= MaxRuns
  <2>1. IsFiniteSet(1 .. MaxRuns) BY FS_Interval
  <2>2. runs \subseteq 1 .. MaxRuns BY DEF Run
  <2>3. IsFiniteSet(runs) BY <2>1, <2>2, FS_Subset
  <2> QED BY <2>2, <2>3
<1>2. ASSUME NEW S \in SUBSET runs, NEW T \in SUBSET S
      PROVE  /\ IsFiniteSet(S) /\ Cardinality(S) \in Nat
             /\ Cardinality(T) \in Nat /\ Cardinality(T) <= Cardinality(S)
  <2>1. IsFiniteSet(S) BY <1>1, FS_Subset
  <2>2. IsFiniteSet(T) /\ Cardinality(T) <= Cardinality(S) BY <2>1, FS_Subset
  <2> QED BY <2>1, <2>2, FS_CardinalityType
<1>3. \A q \in runs : Outlasting(q, runs) \in SUBSET runs BY DEF Outlasting
<1>4. \A q \in runs : q \in gone <=> Ended(q) /\ Cardinality(Outlasting(q, runs)) > Retain
  BY DEF Forgotten
<1>5. gone \subseteq runs /\ kept \in SUBSET runs BY DEF Forgotten
<1>6. ASSUME NEW q \in gone, NEW p \in runs, Ended(p), p <= q
      PROVE  p \in gone
  <2>1. Outlasting(q, runs) \in SUBSET Outlasting(p, runs)
    <3> SUFFICES ASSUME NEW x \in Outlasting(q, runs)
                 PROVE  x \in Outlasting(p, runs)
      OBVIOUS
    <3>1. x \in runs /\ x \in Nat /\ p \in Nat /\ q \in Nat
      BY <1>1, <1>5 DEF Outlasting
    <3>2. x < p => x < q BY <1>6, <3>1
    <3> QED BY <3>1, <3>2 DEF Outlasting
  <2>2. /\ Cardinality(Outlasting(q, runs)) <= Cardinality(Outlasting(p, runs))
        /\ Cardinality(Outlasting(q, runs)) \in Nat /\ Cardinality(Outlasting(p, runs)) \in Nat
    BY <1>2, <1>3, <2>1
  <2>3. Cardinality(Outlasting(q, runs)) > Retain BY <1>4, <1>5
  <2> QED BY <1>4, <1>6, <2>2, <2>3
<1> HIDE DEF gone
<1>7. ASSUME NEW q \in gone, NEW p \in kept, Ended(p)
      PROVE  q < p
  <2>1. q \in Nat /\ p \in Nat BY <1>1, <1>5
  <2>2. ~ (p <= q) BY <1>6, <1>7
  <2> QED BY <2>1, <2>2
<1>8. ASSUME NEW x \in kept, Ended(x)
      PROVE  Cardinality(kept) <= Retain
  <2> DEFINE D == {q \in kept : Ended(q)}
  <2>1. D \subseteq Nat /\ D # {} BY <1>1, <1>5, <1>8
  <2>2. PICK p \in D : \A q \in D : p <= q
    <3> HIDE DEF D
    <3> QED BY <2>1, FirstOf
  <2>3. kept \in SUBSET Outlasting(p, runs)
    <3> SUFFICES ASSUME NEW y \in kept
                 PROVE  y \in Outlasting(p, runs)
      OBVIOUS
    <3>1. y \in runs /\ y \in Nat /\ p \in Nat BY <1>1, <1>5, <2>2
    <3>2. Ended(y) => ~ (y < p)
      <4>1. Ended(y) => p <= y BY <2>2
      <4> QED BY <3>1, <4>1
    <3> QED BY <3>1, <3>2 DEF Outlasting
  <2>4. /\ Cardinality(kept) <= Cardinality(Outlasting(p, runs))
        /\ Cardinality(kept) \in Nat /\ Cardinality(Outlasting(p, runs)) \in Nat
    BY <1>2, <1>3, <2>2, <2>3
  <2>5. ~ (Cardinality(Outlasting(p, runs)) > Retain) BY <1>4, <2>2
  <2> QED BY <2>4, <2>5
<1>9. ASSUME gone # {}
      PROVE  Cardinality(kept) >= Retain
  <2> DEFINE D == {MaxRuns - q : q \in gone}
  <2>1. D \subseteq Nat /\ D # {}
    <3>1. \A q \in gone : q \in Nat /\ q <= MaxRuns BY <1>1, <1>5
    <3>2. \A q \in gone : MaxRuns - q \in Nat BY <3>1
    <3> QED BY <1>9, <3>2
  <2>2. PICK q \in gone : \A p \in gone : p <= q
    <3>1. PICK d \in D : \A e \in D : d <= e
      <4> HIDE DEF D
      <4> QED BY <2>1, FirstOf
    <3>2. PICK q \in gone : d = MaxRuns - q OBVIOUS
    <3>3. \A p \in gone : MaxRuns - q <= MaxRuns - p BY <3>1, <3>2
    <3>4. \A p \in gone : p \in Nat BY <1>1, <1>5
    <3> QED BY <3>3, <3>4
  <2> DEFINE left == Outlasting(q, runs)
  <2>3. left \in SUBSET runs /\ q \in left BY <1>1, <1>3, <1>5 DEF Outlasting
  <2>4. Cardinality(left) \in Nat /\ Cardinality(left) > Retain /\ IsFiniteSet(left)
    BY <1>2, <1>4, <1>5, <2>3
  <2>5. Cardinality(left \ {q}) = Cardinality(left) - 1
    <3> HIDE DEF left
    <3> QED BY <2>3, <2>4, FS_RemoveElement
  <2>6. left \ {q} \in SUBSET kept
    <3> SUFFICES ASSUME NEW x \in left, x # q, x \in gone
                 PROVE  FALSE
      BY <2>3
    <3>1. Ended(x) /\ x < q BY <1>1, <1>4, <1>5, <2>2
    <3> QED BY <1>5, <3>1 DEF Outlasting
  <2>7. Cardinality(left \ {q}) <= Cardinality(kept) /\ Cardinality(kept) \in Nat
    BY <1>2, <1>5, <2>6
  <2> QED BY <2>4, <2>5, <2>7
<1>10. Cardinality(kept) \in Nat BY <1>2, <1>5
<1>11. Cardinality(kept) > Retain => \A q \in kept : ~ Ended(q) BY <1>8, <1>10
<1>12. \A q \in gone, p \in kept : Ended(p) => q < p BY <1>7
<1> QED BY <1>9, <1>11, <1>12 DEF gone

-----------------------------------------------------------------------------
(* The steps inside the lock                                                *)

Untouched(r) == \A q \in Run \ {r} :
  run'[q] = run[q] /\ thread'[q] = thread[q] /\ journal'[q] = journal[q]

\* A run that is started claims a free Host, and what is pruned with it has
\* ended: no run that holds a claim is forgotten.
LEMMA StartKeeps ==
  ASSUME Inv, NEW h \in Host, NEW mutating \in BOOLEAN, Start(h, mutating)
  PROVE  Inv'
<1> USE StoreAssumption DEF Inv
<1>1. PICK r \in Run :
        /\ run[r].status = "none"
        /\ ~(mutating /\ busy[h] # Nothing)
        /\ order' = (order \cup {r}) \ Forgotten(order \cup {r})
        /\ busy' = [busy EXCEPT ![h] = IF mutating THEN r ELSE @]
        /\ Publish(r, "run.started",
                   [Blank EXCEPT !.status = "running", !.host = h, !.mutating = mutating])
        /\ thread' = [thread EXCEPT ![r] = "starting"]
        /\ UNCHANGED journal
  BY DEF Start
<1> DEFINE record == [Blank EXCEPT !.status = "running", !.host = h, !.mutating = mutating]
<1>2. record \in RunRecord /\ record.status = "running" /\ record.host = h
      /\ record.mutating = mutating /\ record.phases = <<>>
  <2>1. <<>> \in Seq(Phase) /\ <<>> \in Seq(Event)
    BY EmptySeq
  <2>2. Blank \in RunRecord /\ Blank.phases = <<>>
    BY <2>1 DEF Blank, RunRecord, Status
  <2> QED BY <2>2 DEF RunRecord, Status
<1> HIDE DEF record
<1>3. /\ run' \in [Run -> RunRecord] /\ sequence' \in Nat
      /\ run'[r].status = "running" /\ run'[r].host = h /\ run'[r].mutating = mutating
      /\ run'[r].phases = <<>>
      /\ \A q \in Run \ {r} : run'[q] = run[q]
  <2>1. Publish(r, "run.started", record)
    BY <1>1 DEF record
  <2>2. /\ run' \in [Run -> RunRecord] /\ sequence' \in Nat
        /\ run'[r].status = record.status /\ run'[r].host = record.host
        /\ run'[r].mutating = record.mutating /\ run'[r].phases = record.phases
        /\ \A q \in Run \ {r} : run'[q] = run[q]
    BY <2>1, <1>2, PublishRuns DEF Kind
  <2> QED BY <2>2, <1>2
<1>4. /\ order' \in SUBSET Run
      /\ \A q \in Run : run'[q].status = "running" => Known(q)'
  <2>1. order' \in SUBSET Run
    BY <1>1 DEF StoreTyped
  <2>2. ASSUME NEW q \in Run, run'[q].status = "running"
        PROVE  q \in order'
    <3>1. CASE q = r
      <4>1. ~ Ended(q)
        BY <3>1, <1>1 DEF Ended
      <4> QED BY <1>1, <3>1, <4>1 DEF Forgotten
    <3>2. CASE q # r
      <4>1. run[q].status = "running"
        BY <2>2, <3>2, <1>3
      <4>2. q \in order /\ ~ Ended(q)
        BY <4>1 DEF Claims, Known, Ended
      <4> QED BY <1>1, <4>2 DEF Forgotten
    <3> QED BY <3>1, <3>2
  <2> QED BY <2>1, <2>2 DEF Known
<1>5. StoreTyped'
  BY <1>1, <1>3, <1>4 DEF StoreTyped, Alive
<1>6. Claims'
  <2>1. ASSUME NEW q \in Run
        PROVE  /\ thread'[q] \in Alive => run'[q].status = "running"
               /\ run'[q].status = "running" => run'[q].host \in Host
    BY <1>1, <1>3 DEF Claims, StoreTyped, Alive
  <2>2. ASSUME NEW g \in Host, NEW q \in Run
        PROVE  busy'[g] = q <=> run'[q].status = "running" /\ run'[q].mutating /\ run'[q].host = g
    <3>1. CASE q = r
      <4>1. busy[g] # r
        BY <1>1 DEF Claims
      <4> QED BY <3>1, <4>1, <1>1, <1>3 DEF StoreTyped
    <3>2. CASE q # r
      <4>1. run'[q] = run[q]
        BY <3>2, <1>3
      <4>2. busy'[g] = q <=> busy[g] = q
        <5>1. g = h /\ mutating => busy[g] = Nothing /\ busy'[g] = r
          BY <1>1 DEF StoreTyped
        <5>2. ~(g = h /\ mutating) => busy'[g] = busy[g]
          BY <1>1 DEF StoreTyped
        <5> QED BY <5>1, <5>2, <3>2 DEF Run
      <4> QED BY <4>1, <4>2 DEF Claims
    <3> QED BY <3>1, <3>2
  <2> QED BY <2>1, <2>2, <1>4 DEF Claims
<1>7. Evidence'
  <2>1. journal[r] = <<>>
    BY <1>1 DEF Evidence
  <2>2. ASSUME NEW q \in Run \ {r}
        PROVE  run'[q] = run[q] /\ journal'[q] = journal[q]
    BY <1>1, <1>3
  <2>3. DOMAIN run'[r].phases = {} /\ DOMAIN journal'[r] = {}
    BY <2>1, <1>1, <1>3
  <2>4. run'[r].status = "running"
    BY <1>3
  <2> QED BY <2>2, <2>3, <2>4 DEF Evidence, Showing, AtMostOne
<1> QED BY <1>5, <1>6, <1>7

\* An announcement: the run keeps its status and its claim, and its thread.
LEMMA ReportKeeps ==
  ASSUME Inv, NEW r \in Run, NEW name \in PhaseName, Begin(r, name) \/ Record(r, name)
  PROVE  Inv'
<1> USE DEF Inv
<1> DEFINE phases == run[r].phases
           done == [name |-> name, status |-> "done"]
           new == [name |-> name, status |-> "running"]
<1>1. /\ phases \in Seq(Phase) /\ run[r] \in RunRecord /\ run[r].status = "running"
      /\ run[r].host \in Host /\ done \in Phase /\ new \in Phase
      /\ thread' = thread /\ order' = order /\ busy' = busy
  BY DEF StoreTyped, RunRecord, Phase, PhaseStatus, Claims, Alive, Begin, Record, Reports,
         PhaseBegan, PhaseRecorded
<1>2. \E shown \in Seq(Phase) :
        /\ \E kind \in Kind : Publish(r, kind, [run[r] EXCEPT !.phases = shown])
        /\ journal' \in [Run -> Seq(PhaseName)]
        /\ \A q \in Run \ {r} : journal'[q] = journal[q]
        /\ \A i \in DOMAIN journal'[r] : \E j \in DOMAIN shown :
             shown[j] = [name |-> journal'[r][i], status |-> "done"]
        /\ \A i \in DOMAIN shown : shown[i].status # "failed"
        /\ \A i, j \in DOMAIN shown :
             shown[i].status = "running" /\ shown[j].status = "running" => i = j
  <2>1. CASE Begin(r, name)
    <3> DEFINE old == Settled(phases, "done")
               shown == Append(old, new)
    <3>1. /\ old \in Seq(Phase) /\ Len(old) = Len(phases)
          /\ \A i \in 1 .. Len(phases) :
               old[i].status = IF phases[i].status = "running" THEN "done" ELSE phases[i].status
          /\ \A i \in 1 .. Len(phases) : phases[i].status # "running" => old[i] = phases[i]
      BY <1>1, SettledPhases DEF PhaseStatus
    <3>2. /\ shown \in Seq(Phase) /\ Len(shown) = Len(phases) + 1
          /\ \A i \in 1 .. Len(phases) : shown[i] = old[i]
          /\ shown[Len(phases) + 1] = new
      BY <3>1, <1>1
    <3>3. Publish(r, "phase.began", [run[r] EXCEPT !.phases = shown]) /\ journal' = journal
      BY <2>1, <1>1 DEF Begin, PhaseBegan, RunRecord
    <3>4. ASSUME NEW i \in DOMAIN journal[r]
          PROVE  \E j \in DOMAIN shown : shown[j] = [name |-> journal[r][i], status |-> "done"]
      <4>1. PICK j \in DOMAIN phases : phases[j] = [name |-> journal[r][i], status |-> "done"]
        BY DEF Evidence
      <4>2. j \in 1 .. Len(phases) /\ phases[j].status # "running"
        BY <4>1, <1>1
      <4> QED BY <4>1, <4>2, <3>1, <3>2
    <3>5. \A i \in DOMAIN shown : shown[i].status # "failed"
      <4>1. \A i \in DOMAIN phases : phases[i].status # "failed"
        BY <1>1 DEF Evidence, Showing
      <4> QED BY <4>1, <3>1, <3>2, <1>1
    <3>6. \A i \in DOMAIN shown : shown[i].status = "running" => i = Len(phases) + 1
      BY <3>1, <3>2, <1>1
    <3> HIDE DEF shown, old
    <3>7. \A i, j \in DOMAIN shown :
            shown[i].status = "running" /\ shown[j].status = "running" => i = j
      BY <3>6
    <3>8. journal' \in [Run -> Seq(PhaseName)] /\ \A q \in Run \ {r} : journal'[q] = journal[q]
      BY <3>3 DEF StoreTyped
    <3>9. \A i \in DOMAIN journal'[r] : \E j \in DOMAIN shown :
            shown[j] = [name |-> journal'[r][i], status |-> "done"]
      BY <3>3, <3>4
    <3>10. \E kind \in Kind : Publish(r, kind, [run[r] EXCEPT !.phases = shown])
      BY <3>3 DEF Kind
    <3> QED BY <3>2, <3>5, <3>7, <3>8, <3>9, <3>10
  <2>2. CASE Record(r, name)
    <3> DEFINE open == {i \in DOMAIN phases : phases[i] = new}
               last == CHOOSE i \in open : \A j \in open : j <= i
               shown == IF open = {} THEN Append(phases, done)
                        ELSE [phases EXCEPT ![last] = done]
    <3>1. Publish(r, "phase.recorded", [run[r] EXCEPT !.phases = shown])
      BY <2>2, <1>1 DEF Record, PhaseRecorded, RunRecord
    <3>2. /\ journal' = [journal EXCEPT ![r] = Append(@, name)]
          /\ journal[r] \in Seq(PhaseName)
      BY <2>2 DEF Record, StoreTyped
    <3>3. /\ \A i \in DOMAIN phases : phases[i].status # "failed"
          /\ \A i, j \in DOMAIN phases :
               phases[i].status = "running" /\ phases[j].status = "running" => i = j
      <4> HIDE DEF open, last, shown
      <4>1. Showing(r, "failed") = {} /\ AtMostOne(Showing(r, "running"))
        BY <1>1, Zenon DEF Evidence
      <4> QED BY <4>1 DEF Showing, AtMostOne
    <3>4. /\ shown \in Seq(Phase)
          /\ \E j \in DOMAIN shown : shown[j] = done
          /\ \A i \in DOMAIN shown : shown[i].status # "failed"
          /\ \A i \in DOMAIN shown : shown[i].status = "running" =>
               i \in DOMAIN phases /\ phases[i].status = "running"
          /\ \A i \in DOMAIN phases : phases[i].status # "running" =>
               i \in DOMAIN shown /\ shown[i] = phases[i]
      <4>1. CASE open = {}
        <5> DEFINE more == Append(phases, done)
        <5>1. shown = more
          BY <4>1
        <5>2. /\ more \in Seq(Phase) /\ Len(more) = Len(phases) + 1
              /\ \A i \in 1 .. Len(phases) : more[i] = phases[i]
              /\ more[Len(phases) + 1] = done /\ Len(phases) \in Nat
          BY <1>1, AppendProperties, LenProperties
        <5> HIDE DEF more
        <5>3. Len(phases) + 1 \in DOMAIN shown /\ shown[Len(phases) + 1] = done
              /\ \A i \in 1 .. Len(phases) : shown[i] = phases[i]
          BY <5>1, <5>2, LenProperties
        <5>4. DOMAIN phases = 1 .. Len(phases) /\ DOMAIN shown = 1 .. Len(phases) + 1
              /\ shown \in Seq(Phase)
          BY <5>1, <5>2, <1>1, LenProperties
        <5>5. \A i \in DOMAIN shown : i \in DOMAIN phases \/ i = Len(phases) + 1
          BY <5>4, <1>1
        <5> HIDE DEF shown, open
        <5>6. \A i \in DOMAIN phases : shown[i] = phases[i]
          BY <5>3, <5>4
        <5>7. done.status = "done"
          OBVIOUS
        <5> HIDE DEF phases, done
        <5> QED BY <5>3, <5>4, <5>5, <5>6, <5>7, <3>3
      <4>2. CASE open # {}
        <5>1. last \in open
          <6>1. PICK i \in open : TRUE
            BY <4>2
          <6>2. \A j \in open : j <= i
            BY <6>1, <3>3, <1>1
          <6> QED BY <6>2
        <5>2. /\ last \in DOMAIN phases /\ phases[last].status = "running"
              /\ shown = [phases EXCEPT ![last] = done]
          <6> HIDE DEF last
          <6>1. last \in DOMAIN phases /\ phases[last] = new
            BY <5>1
          <6>2. shown = [phases EXCEPT ![last] = done]
            BY <4>2
          <6> QED BY <6>1, <6>2
        <5> HIDE DEF last, shown, open
        <5>3. /\ DOMAIN shown = DOMAIN phases /\ shown[last] = done /\ shown \in Seq(Phase)
              /\ \A i \in DOMAIN phases : i # last => shown[i] = phases[i]
          BY <5>2, <1>1
        <5> QED BY <5>2, <5>3, <3>3
      <4> QED BY <4>1, <4>2
    <3> HIDE DEF shown
    <3>5. ASSUME NEW i \in DOMAIN journal'[r]
          PROVE  \E j \in DOMAIN shown : shown[j] = [name |-> journal'[r][i], status |-> "done"]
      <4>1. /\ i \in 1 .. Len(journal[r]) + 1
            /\ i \in 1 .. Len(journal[r]) => journal'[r][i] = journal[r][i]
            /\ i = Len(journal[r]) + 1 => journal'[r][i] = name
        BY <3>2 DEF StoreTyped
      <4>2. CASE i \in 1 .. Len(journal[r])
        <5>1. i \in DOMAIN journal[r]
          BY <4>2, <3>2
        <5>2. PICK j \in DOMAIN phases : phases[j] = [name |-> journal[r][i], status |-> "done"]
          BY <5>1 DEF Evidence
        <5> QED BY <5>2, <4>1, <4>2, <3>4
      <4>3. CASE i = Len(journal[r]) + 1
        BY <4>3, <4>1, <3>4
      <4> QED BY <4>1, <4>2, <4>3, <3>2
    <3>6. journal' \in [Run -> Seq(PhaseName)] /\ \A q \in Run \ {r} : journal'[q] = journal[q]
      BY <3>2 DEF StoreTyped
    <3>7. \A i, j \in DOMAIN shown :
            shown[i].status = "running" /\ shown[j].status = "running" => i = j
      BY <3>3, <3>4
    <3>8. \E kind \in Kind : Publish(r, kind, [run[r] EXCEPT !.phases = shown])
      BY <3>1 DEF Kind
    <3> QED BY <3>4, <3>5, <3>6, <3>7, <3>8
  <2> QED BY <2>1, <2>2
<1>3. PICK shown \in Seq(Phase), kind \in Kind :
        /\ Publish(r, kind, [run[r] EXCEPT !.phases = shown])
        /\ journal' \in [Run -> Seq(PhaseName)]
        /\ \A q \in Run \ {r} : journal'[q] = journal[q]
        /\ \A i \in DOMAIN journal'[r] : \E j \in DOMAIN shown :
             shown[j] = [name |-> journal'[r][i], status |-> "done"]
        /\ \A i \in DOMAIN shown : shown[i].status # "failed"
        /\ \A i, j \in DOMAIN shown :
             shown[i].status = "running" /\ shown[j].status = "running" => i = j
  BY <1>2
<1>4. [run[r] EXCEPT !.phases = shown] \in RunRecord
  BY <1>1 DEF RunRecord
<1>5. /\ run' \in [Run -> RunRecord] /\ sequence' \in Nat
      /\ run'[r].status = run[r].status /\ run'[r].host = run[r].host
      /\ run'[r].mutating = run[r].mutating /\ run'[r].phases = shown
      /\ \A q \in Run \ {r} : run'[q] = run[q]
  <2>1. LET record == [run[r] EXCEPT !.phases = shown] IN
        /\ record.status = run[r].status /\ record.host = run[r].host
        /\ record.mutating = run[r].mutating /\ record.phases = shown
    BY <1>1 DEF RunRecord
  <2> DEFINE record == [run[r] EXCEPT !.phases = shown]
  <2>2. Publish(r, kind, record) /\ record \in RunRecord
    BY <1>3, <1>4
  <2> HIDE DEF record
  <2>3. /\ run' \in [Run -> RunRecord] /\ sequence' \in Nat
        /\ run'[r].status = record.status /\ run'[r].host = record.host
        /\ run'[r].mutating = record.mutating /\ run'[r].phases = record.phases
        /\ \A q \in Run \ {r} : run'[q] = run[q]
    BY <2>2, PublishRuns
  <2> QED BY <2>1, <2>3 DEF record
<1>6. StoreTyped'
  BY <1>1, <1>3, <1>5 DEF StoreTyped
<1>7. Claims'
  <2>1. \A q \in Run : /\ run'[q].status = run[q].status /\ run'[q].host = run[q].host
                       /\ run'[q].mutating = run[q].mutating
    BY <1>5
  <2> QED BY <2>1, <1>1 DEF Claims, Known
<1>8. Evidence'
  <2>1. ASSUME NEW q \in Run \ {r}
        PROVE  run'[q] = run[q] /\ journal'[q] = journal[q]
    BY <1>3, <1>5
  <2>2. run'[r].status = "running" /\ run'[r].phases = shown
    BY <1>1, <1>5
  <2>3. Showing(r, "failed")' = {} /\ AtMostOne(Showing(r, "running")')
    BY <2>2, <1>3 DEF Showing, AtMostOne
  <2>4. \A i \in DOMAIN journal'[r] : \E j \in DOMAIN run'[r].phases :
          run'[r].phases[j] = [name |-> journal'[r][i], status |-> "done"]
    BY <2>2, <1>3
  <2> QED BY <2>1, <2>2, <2>3, <2>4 DEF Evidence, Showing, AtMostOne
<1> QED BY <1>6, <1>7, <1>8

\* The end of a run settles what it shows and gives back its Host.
LEMMA FinishKeeps ==
  ASSUME Inv, NEW r \in Run, NEW status \in {"completed", "failed"},
         thread[r] \in Alive, Finish(r, status),
         thread' = [thread EXCEPT ![r] = "ended"], UNCHANGED journal
  PROVE  Inv'
<1> USE StoreAssumption DEF Inv
<1> DEFINE to == IF status = "failed" THEN "failed" ELSE "done"
           shown == Settled(run[r].phases, to)
           record == [run[r] EXCEPT !.status = status, !.phases = shown]
<1>1. /\ run[r] \in RunRecord /\ run[r].phases \in Seq(Phase) /\ run[r].status = "running"
  BY DEF StoreTyped, RunRecord, Claims
<1>2. /\ shown \in Seq(Phase) /\ Len(shown) = Len(run[r].phases)
      /\ \A i \in 1 .. Len(run[r].phases) :
           shown[i].status = IF run[r].phases[i].status = "running" THEN to
                             ELSE run[r].phases[i].status
      /\ \A i \in 1 .. Len(run[r].phases) :
           run[r].phases[i].status # "running" => shown[i] = run[r].phases[i]
  BY <1>1, SettledPhases DEF PhaseStatus
<1>3. Publish(r, "run.finished", record) /\ busy' = Release(r) /\ order' = order
  BY <1>1 DEF Finish, Settle, RunRecord
<1> HIDE DEF shown, to
<1>4. /\ record \in RunRecord /\ record.status = status /\ record.host = run[r].host
      /\ record.mutating = run[r].mutating /\ record.phases = shown
  BY <1>1, <1>2 DEF RunRecord, Status
<1> HIDE DEF record
<1>5. /\ run' \in [Run -> RunRecord] /\ sequence' \in Nat
      /\ run'[r].status = status /\ run'[r].phases = shown
      /\ \A q \in Run \ {r} : run'[q] = run[q]
  <2>1. /\ run' \in [Run -> RunRecord] /\ sequence' \in Nat
        /\ run'[r].status = record.status /\ run'[r].host = record.host
        /\ run'[r].mutating = record.mutating /\ run'[r].phases = record.phases
        /\ \A q \in Run \ {r} : run'[q] = run[q]
    BY <1>3, <1>4, PublishRuns DEF Kind
  <2> QED BY <2>1, <1>4
<1>6. StoreTyped'
  BY <1>3, <1>5 DEF StoreTyped, Release, Alive
<1>7. Claims'
  <2>1. \A q \in Run : /\ thread'[q] \in Alive => run'[q].status = "running"
                       /\ run'[q].status = "running" => run'[q].host \in Host /\ Known(q)'
    BY <1>3, <1>5 DEF Claims, StoreTyped, Alive, Known
  <2>2. ASSUME NEW h \in Host, NEW q \in Run
        PROVE  busy'[h] = q <=> run'[q].status = "running" /\ run'[q].mutating /\ run'[q].host = h
    <3>1. busy'[h] = IF busy[h] = r THEN Nothing ELSE busy[h]
      BY <1>3 DEF Release
    <3>2. CASE q = r
      BY <3>1, <3>2, <1>5 DEF Run
    <3>3. CASE q # r
      BY <3>1, <3>3, <1>5 DEF Run, Claims
    <3> QED BY <3>2, <3>3
  <2> QED BY <2>1, <2>2 DEF Claims
<1>8. Evidence'
  <2>1. ASSUME NEW i \in DOMAIN journal[r]
        PROVE  \E j \in DOMAIN shown : shown[j] = [name |-> journal[r][i], status |-> "done"]
    <3>1. PICK j \in DOMAIN run[r].phases :
            run[r].phases[j] = [name |-> journal[r][i], status |-> "done"]
      BY DEF Evidence
    <3>2. j \in 1 .. Len(run[r].phases) /\ run[r].phases[j].status # "running"
      BY <3>1, <1>1
    <3>3. j \in DOMAIN shown /\ shown[j] = run[r].phases[j]
      BY <3>2, <1>2
    <3> QED BY <3>1, <3>3
  <2>2. \A i \in DOMAIN run[r].phases : run[r].phases[i].status # "failed"
    BY <1>1 DEF Evidence, Showing
  <2>3. \A i, j \in DOMAIN run[r].phases :
          run[r].phases[i].status = "running" /\ run[r].phases[j].status = "running" => i = j
    BY <1>1 DEF Evidence, Showing, AtMostOne
  <2>4. \A i \in DOMAIN shown :
          /\ shown[i].status # "running"
          /\ shown[i].status = "failed" =>
               status = "failed" /\ i \in DOMAIN run[r].phases
               /\ run[r].phases[i].status = "running"
    <3>1. DOMAIN shown = 1 .. Len(run[r].phases) /\ DOMAIN run[r].phases = 1 .. Len(run[r].phases)
      BY <1>1, <1>2
    <3>2. to # "running" /\ (to = "failed" => status = "failed")
      BY DEF to
    <3> QED BY <3>1, <3>2, <1>2, <2>2
  <2>5. \A i, j \in DOMAIN shown : shown[i].status = "failed" /\ shown[j].status = "failed" => i = j
    BY <2>3, <2>4
  <2> QED BY <2>1, <2>4, <2>5, <1>5 DEF Evidence, Showing, AtMostOne
<1> QED BY <1>6, <1>7, <1>8

-----------------------------------------------------------------------------
(* The invariant                                                            *)

\* Every step of the store keeps the invariant.
LEMMA StepKeeps ==
  ASSUME Inv, [Next]_storeVars
  PROVE  Inv'
<1>1. ASSUME UNCHANGED <<run, order, busy, sequence, journal>>,
             thread' \in [Run -> Alive \cup {"none", "ended"}],
             \A r \in Run : thread'[r] \in Alive => thread[r] \in Alive
      PROVE  Inv'
  BY <1>1 DEF Inv, StoreTyped, Claims, Evidence, Known, Showing, AtMostOne
<1>2. CASE UNCHANGED storeVars
  BY <1>1, <1>2 DEF storeVars, Inv, StoreTyped
<1>3. ASSUME NEW h \in Host, NEW mutating \in BOOLEAN, Start(h, mutating)
      PROVE  Inv'
  BY <1>3, StartKeeps
<1>4. ASSUME NEW r \in Run, ThreadNext(r)
      PROVE  Inv'
  <2>1. CASE StartThread(r) \/ WorkReturns(r) \/ ReportRaises(r)
    <3>1. thread[r] \in Alive /\ UNCHANGED <<run, order, busy, sequence, journal>>
      BY <2>1 DEF StartThread, WorkReturns, ReportRaises, Alive
    <3>2. \E at \in Alive \cup {"ended"} : thread' = [thread EXCEPT ![r] = at]
      BY <2>1 DEF StartThread, WorkReturns, ReportRaises, Alive
    <3> QED BY <3>1, <3>2, <1>1 DEF Inv, StoreTyped
  <2>2. CASE Completes(r)
    BY <2>2, FinishKeeps DEF Completes, Alive
  <2>3. CASE WorkRaises(r)
    BY <2>3, FinishKeeps DEF WorkRaises, Alive
  <2>4. ASSUME NEW name \in PhaseName, Begin(r, name) \/ Record(r, name)
        PROVE  Inv'
    BY <2>4, ReportKeeps
  <2> QED BY <1>4, <2>1, <2>2, <2>3, <2>4 DEF ThreadNext
<1>5. ASSUME NEW s \in Stream, Open(s) \/ StreamNext(s) \/ Leave(s)
      PROVE  Inv'
  <2>1. UNCHANGED <<run, order, busy, sequence, thread, journal>>
    BY <1>5 DEF Open, StreamNext, Subscribe, Replay, Follow, Leave
  <2> QED BY <2>1, <1>1 DEF Inv, StoreTyped
<1> QED BY <1>2, <1>3, <1>4, <1>5 DEF Next

\* The console starts with no run, no claim and no evidence.
LEMMA StoreInit == Init => Inv
BY StoreAssumption DEF Init, Inv, StoreTyped, Claims, Evidence, RunRecord, Blank, Status, Alive,
   Run, Showing, AtMostOne

\* The invariant holds in every state the console can reach, with every fault.
THEOREM StoreInvariant == Spec => []Inv
<1>1. Init => Inv
  BY StoreInit
<1>2. Inv /\ [Next]_storeVars => Inv'
  BY StepKeeps
<1> QED BY <1>1, <1>2, PTL DEF Spec

\* The claim of a Host is held by exactly the mutating run that is running on
\* it (runs.py:211), for any number of Hosts and runs and any retention.
THEOREM HostsAreClaimed == Spec => []OneActionPerHost
<1>1. Inv => OneActionPerHost
  BY DEF Inv, Claims, OneActionPerHost
<1> QED BY <1>1, StoreInvariant, PTL

\* What the store forgets (runs.py:407), whatever it retains and however many
\* runs end between two requests.
THEOREM MemoryIsKept == Spec => MemoryKept
<1> DEFINE gone == order \ order'
           Fits == /\ order' # order /\ Cardinality(order') > Retain => \A r \in order' : ~ Ended(r)'
                   /\ \A r \in gone : Ended(r) /\ \A q \in order' : Ended(q) => r < q
                   /\ gone # {} => Cardinality(order') >= Retain
<1>1. ASSUME Inv, NEW h \in Host, NEW mutating \in BOOLEAN, Start(h, mutating)
      PROVE  Fits
  <2> USE DEF Inv
  <2>1. PICK r \in Run :
          /\ run[r].status = "none"
          /\ order' = (order \cup {r}) \ Forgotten(order \cup {r})
          /\ \A q \in Run \ {r} : run'[q] = run[q]
          /\ run'[r].status = "running"
    <3>1. PICK r \in Run :
            /\ run[r].status = "none"
            /\ order' = (order \cup {r}) \ Forgotten(order \cup {r})
            /\ Publish(r, "run.started",
                       [Blank EXCEPT !.status = "running", !.host = h, !.mutating = mutating])
      BY <1>1 DEF Start
    <3> DEFINE record == [Blank EXCEPT !.status = "running", !.host = h, !.mutating = mutating]
    <3>2. record \in RunRecord /\ record.status = "running"
      <4>1. <<>> \in Seq(Phase) /\ <<>> \in Seq(Event) BY EmptySeq
      <4>2. Blank \in RunRecord BY <4>1 DEF Blank, RunRecord, Status
      <4> QED BY <4>2 DEF RunRecord, Status
    <3>3. Publish(r, "run.started", record) BY <3>1
    <3> HIDE DEF record
    <3>4. run'[r].status = record.status /\ \A q \in Run \ {r} : run'[q] = run[q]
      BY <1>1, <3>2, <3>3, PublishRuns DEF Kind
    <3> QED BY <3>1, <3>2, <3>4
  <2> DEFINE runs == order \cup {r}
  <2>2. /\ Cardinality(runs \ Forgotten(runs)) > Retain => \A q \in runs \ Forgotten(runs) : ~ Ended(q)
        /\ \A q \in Forgotten(runs), p \in runs \ Forgotten(runs) : Ended(p) => q < p
        /\ Forgotten(runs) # {} => Cardinality(runs \ Forgotten(runs)) >= Retain
    <3>1. runs \in SUBSET Run BY <1>1, <2>1 DEF StoreTyped
    <3> HIDE DEF runs
    <3> QED BY <1>1, <3>1, ForgottenOldest
  <2>3. order' = runs \ Forgotten(runs) BY <2>1
  <2>4. ~ Ended(r) BY <2>1 DEF Ended
  <2>5. gone = Forgotten(runs) /\ \A q \in Forgotten(runs) : Ended(q)
    BY <2>3, <2>4 DEF Forgotten
  <2>6. ASSUME NEW q \in order', ~ Ended(q)
        PROVE  ~ Ended(q)'
    <3>1. CASE q = r BY <2>1, <3>1 DEF Ended
    <3>2. CASE q # r
      <4>1. q \in Run BY <1>1, <2>1, <3>2 DEF StoreTyped
      <4>2. run'[q] = run[q] BY <2>1, <3>2, <4>1
      <4> QED BY <2>6, <4>2 DEF Ended
    <3> QED BY <3>1, <3>2
  <2> HIDE DEF runs
  <2> QED BY <2>2, <2>3, <2>5, <2>6
<1>2. ASSUME order' = order
      PROVE  Fits
  BY <1>2
<1>3. Inv /\ [Next]_storeVars => [Fits]_storeVars
  <2> SUFFICES ASSUME Inv, [Next]_storeVars
               PROVE  Fits
    OBVIOUS
  <2>1. CASE \E h \in Host, mutating \in BOOLEAN : Start(h, mutating) BY <1>1, <2>1
  <2>2. CASE \E r \in Run : ThreadNext(r)
    <3>1. order' = order
      BY <2>2 DEF ThreadNext, StartThread, WorkReturns, ReportRaises, Completes, WorkRaises, Finish,
                  Begin, Record, PhaseBegan, PhaseRecorded
    <3> QED BY <1>2, <3>1
  <2>3. CASE \E s \in Stream : Open(s) \/ StreamNext(s) \/ Leave(s)
    <3>1. order' = order BY <2>3 DEF Open, StreamNext, Subscribe, Replay, Follow, Leave
    <3> QED BY <1>2, <3>1
  <2>4. CASE UNCHANGED storeVars
    <3>1. order' = order BY <2>4 DEF storeVars
    <3> QED BY <1>2, <3>1
  <2> QED BY <2>1, <2>2, <2>3, <2>4 DEF Next
<1>4. MemoryKept <=> [][Fits]_storeVars BY DEF MemoryKept
<1> QED BY <1>3, <1>4, StoreInvariant, PTL DEF Spec

\* What a finished run is shown as is settled, and holds every phase its
\* report has evidence for (runs.py:285, progress.py), whatever it announced.
THEOREM FinishedRunsSettled == Spec => []FinishedIsSettled
<1>1. ASSUME Inv, NEW r \in Run, run[r].status \in {"completed", "failed"}
      PROVE  Cardinality({i \in DOMAIN run[r].phases : run[r].phases[i].status = "failed"}) <= 1
  <2> DEFINE S == {i \in DOMAIN run[r].phases : run[r].phases[i].status = "failed"}
  <2>1. \A i, j \in S : i = j
    BY <1>1 DEF Inv, Evidence, Showing, AtMostOne
  <2>2. CASE S = {}
    <3>1. Cardinality(S) = 0
      BY <2>2, FS_EmptySet
    <3> QED BY <3>1
  <2>3. CASE S # {}
    <3>1. PICK i \in S : TRUE
      BY <2>3
    <3>2. S = {i}
      BY <3>1, <2>1
    <3> HIDE DEF S
    <3>3. Cardinality(S) = 1
      BY <3>2, FS_Singleton
    <3> QED BY <3>3 DEF S
  <2> QED BY <2>2, <2>3
<1>2. ASSUME Inv, NEW r \in Run, run[r].status \in {"completed", "failed"}
      PROVE  /\ \A p \in ToSet(run[r].phases) :
                  p.status # "running" /\ (p.status = "failed" => run[r].status = "failed")
             /\ \A i \in DOMAIN journal[r] :
                  [name |-> journal[r][i], status |-> "done"] \in ToSet(run[r].phases)
  BY <1>2 DEF Inv, Evidence, Showing, ToSet
<1>3. Inv => FinishedIsSettled
  BY <1>1, <1>2 DEF FinishedIsSettled
<1> QED BY <1>3, StoreInvariant, PTL

-----------------------------------------------------------------------------
(* The feed: each browser's stream against the log of its run.               *)


StreamRecord ==
  [at : {"idle", "opened", "replaying", "following", "complete", "left", "refused"},
   run : Run \cup {Nothing}, takes : {"nothing", "backlog", "both"},
   backlog : Seq(Event), channel : Seq(Event), seen : Seq(Event)]

StreamsTyped ==
  /\ stream \in [Stream -> StreamRecord]
  /\ watchers \in [Run -> SUBSET Stream]

\* A log begins with its run, and ends with the closing event, and only there.
LogsKept ==
  \A r \in Run :
    /\ Known(r) => run[r].status # "none"
    /\ run[r].status # "none" => run[r].events # <<>>
    /\ \A i \in DOMAIN run[r].events :
         Finishes(run[r].events[i]) <=> Ended(r) /\ i = Len(run[r].events)

\* Seen, backlog and channel of a stream are the log of its run, end to end.
Joined(t, log) ==
  /\ Len(t.seen) + Len(t.backlog) + Len(t.channel) = Len(log)
  /\ \A i \in 1 .. Len(t.seen) : t.seen[i] = log[i]
  /\ \A i \in 1 .. Len(t.backlog) : t.backlog[i] = log[Len(t.seen) + i]
  /\ \A i \in 1 .. Len(t.channel) : t.channel[i] = log[Len(t.seen) + Len(t.backlog) + i]

\* A stream that is fed from a log: from the backlog if that has ended, or else
\* from the channel too.
FedBy(t, log, ended) ==
  /\ t.takes # "nothing" /\ log # <<>>
  /\ Joined(t, log)
  /\ t.takes = "backlog" => t.channel = <<>> /\ ended /\ t.at # "following"
  /\ t.at = "following" => t.backlog = <<>>
  /\ t.at = "complete" => t.backlog = <<>> /\ t.channel = <<>> /\ ended
  /\ t.takes = "both" /\ t.at # "complete" =>
       \A i \in 1 .. Len(t.seen) + Len(t.backlog) : ~ Finishes(log[i])

\* As long as its run has not ended, a stream that waits for more is subscribed.
Fed(s) ==
  LET t == stream[s] IN
  /\ t.run \in Run
  /\ FedBy(t, run[t.run].events, Ended(t.run))
  /\ t.takes = "both" /\ t.at # "complete" /\ ~ Ended(t.run) => s \in watchers[t.run]

Feeding ==
  \A s \in Stream :
    /\ stream[s].at \in {"idle", "left", "opened", "refused"} =>
         stream[s].takes = "nothing" /\ stream[s].seen = <<>> /\ stream[s].channel = <<>>
    /\ stream[s].at = "opened" => stream[s].run \in Run
    /\ stream[s].at \in {"replaying", "following", "complete"} => Fed(s)
    /\ \A r \in Run : s \in watchers[r] =>
         stream[s].run = r /\ stream[s].takes = "both"
         /\ stream[s].at \in {"replaying", "following"}

FeedInv == Inv /\ StreamsTyped /\ LogsKept /\ Feeding

-----------------------------------------------------------------------------
(* What every announcement does                                             *)

\* One event is appended to one log that has not ended, handed to every
\* browser subscribed to it, and only ended runs are forgotten.
Announces(r) ==
  /\ ~ Ended(r) /\ run'[r].status # "none"
  /\ \E e \in Event :
       /\ run'[r].events = Append(run[r].events, e)
       /\ Finishes(e) <=> run'[r].status \in {"completed", "failed"}
       /\ stream' = [s \in Stream |->
            IF s \in watchers[r] THEN [stream[s] EXCEPT !.channel = Append(@, e)] ELSE stream[s]]
  /\ \A q \in Run \ {r} : run'[q] = run[q]
  /\ watchers' \in [Run -> SUBSET Stream]
  /\ \A q \in Run : watchers'[q] = watchers[q] \/ (watchers'[q] = {} /\ Ended(q))
  /\ \A q \in Run : Known(q)' => Known(q) \/ q = r

\* What _publish does: one event of its kind, on the run's log and in the channel
\* of whoever is subscribed.
LEMMA PublishFeeds ==
  ASSUME StoreTyped, StreamsTyped, NEW r \in Run, NEW kind \in Kind, NEW record \in RunRecord,
         Publish(r, kind, record)
  PROVE  \E e \in Event :
           /\ e.kind = kind
           /\ run'[r].events = Append(record.events, e)
           /\ stream' = [s \in Stream |->
                IF s \in watchers[r] THEN [stream[s] EXCEPT !.channel = Append(@, e)]
                ELSE stream[s]]
<1> DEFINE e == [seq |-> sequence + 1, kind |-> kind,
                 phases |-> [i \in DOMAIN record.phases |-> record.phases[i].status]]
<1>1. e.phases \in Seq(PhaseStatus)
  <2>1. /\ Len(record.phases) \in Nat /\ DOMAIN record.phases = 1 .. Len(record.phases)
        /\ \A i \in DOMAIN record.phases : record.phases[i] \in Phase
    BY DEF RunRecord
  <2>2. \A i \in DOMAIN record.phases : record.phases[i].status \in PhaseStatus
    BY <2>1 DEF Phase
  <2> QED BY <2>1, <2>2, SeqDef
<1>2. e \in Event /\ e.kind = kind
  BY <1>1 DEF StoreTyped, Event
<1>3. /\ run' = [run EXCEPT ![r] = [record EXCEPT !.events = Append(@, e)]]
      /\ stream' = [s \in Stream |->
           IF s \in watchers[r] THEN [stream[s] EXCEPT !.channel = Append(@, e)] ELSE stream[s]]
  BY DEF Publish
<1> HIDE DEF e
<1>4. run'[r].events = Append(record.events, e)
  BY <1>3 DEF StoreTyped, RunRecord
<1> QED BY <1>2, <1>3, <1>4

\* A run that is started says so, and what is pruned with it has ended.
LEMMA StartAnnounces ==
  ASSUME FeedInv, NEW h \in Host, NEW mutating \in BOOLEAN, Start(h, mutating)
  PROVE  \E r \in Run : Announces(r)
<1> USE DEF FeedInv, Inv
<1>1. PICK r \in Run :
        /\ run[r].status = "none"
        /\ order' = (order \cup {r}) \ Forgotten(order \cup {r})
        /\ watchers' = [q \in Run |-> IF q \in Forgotten(order \cup {r}) THEN {} ELSE watchers[q]]
        /\ Publish(r, "run.started",
                   [Blank EXCEPT !.status = "running", !.host = h, !.mutating = mutating])
  BY DEF Start
<1> DEFINE record == [Blank EXCEPT !.status = "running", !.host = h, !.mutating = mutating]
<1>2. record \in RunRecord /\ record.status = "running" /\ record.events = <<>>
  <2>1. <<>> \in Seq(Phase) /\ <<>> \in Seq(Event)
    BY EmptySeq
  <2>2. Blank \in RunRecord /\ Blank.events = <<>>
    BY <2>1 DEF Blank, RunRecord, Status
  <2> QED BY <2>2 DEF RunRecord, Status
<1>3. Publish(r, "run.started", record)
  BY <1>1
<1> HIDE DEF record
<1>4. PICK e \in Event :
        /\ e.kind = "run.started" /\ run'[r].events = Append(record.events, e)
        /\ stream' = [s \in Stream |->
             IF s \in watchers[r] THEN [stream[s] EXCEPT !.channel = Append(@, e)] ELSE stream[s]]
  BY <1>2, <1>3, PublishFeeds DEF Kind
<1>5. /\ run'[r].status = record.status
      /\ \A q \in Run \ {r} : run'[q] = run[q]
  BY <1>2, <1>3, PublishRuns DEF Kind
<1>6. run[r].events = <<>>
  BY <1>1 DEF Evidence, Blank
<1>9. \A q \in Run : Known(q)' => Known(q) \/ q = r
  BY <1>1 DEF Known
<1>10. /\ watchers' \in [Run -> SUBSET Stream]
       /\ \A q \in Run : watchers'[q] = watchers[q] \/ (watchers'[q] = {} /\ Ended(q))
  <2>1. \A q \in Run : q \in Forgotten(order \cup {r}) => Ended(q)
    BY DEF Forgotten
  <2> QED BY <1>1, <2>1 DEF StreamsTyped
<1>11. ~ Finishes(e) /\ ~ Ended(r) /\ run'[r].status = "running"
  BY <1>1, <1>2, <1>4, <1>5 DEF Finishes, Ended
<1>12. run'[r].events = Append(run[r].events, e)
  BY <1>2, <1>4, <1>6
<1>13. Finishes(e) <=> run'[r].status \in {"completed", "failed"}
  BY <1>11
<1>14. stream' = [s \in Stream |->
         IF s \in watchers[r] THEN [stream[s] EXCEPT !.channel = Append(@, e)] ELSE stream[s]]
  BY <1>4
<1>15. ~ Ended(r) /\ run'[r].status # "none" /\ \A q \in Run \ {r} : run'[q] = run[q]
  BY <1>5, <1>11
<1> QED BY <1>9, <1>10, <1>12, <1>13, <1>14, <1>15 DEF Announces

\* What a running run publishes of itself is an announcement.
LEMMA RunAnnounces ==
  ASSUME FeedInv, NEW r \in Run, run[r].status = "running", NEW kind \in Kind \ {"run.started"},
         NEW record \in RunRecord, record.events = run[r].events,
         record.status = IF kind = "run.finished" THEN record.status ELSE "running",
         kind = "run.finished" => record.status \in {"completed", "failed"},
         Publish(r, kind, record), UNCHANGED <<order, watchers>>
  PROVE  Announces(r)
<1> USE DEF FeedInv, Inv
<1>1. PICK e \in Event :
        /\ e.kind = kind /\ run'[r].events = Append(record.events, e)
        /\ stream' = [s \in Stream |->
             IF s \in watchers[r] THEN [stream[s] EXCEPT !.channel = Append(@, e)] ELSE stream[s]]
  BY PublishFeeds
<1>2. run'[r].status = record.status /\ \A q \in Run \ {r} : run'[q] = run[q]
  BY PublishRuns
<1>3. Finishes(e) <=> run'[r].status \in {"completed", "failed"}
  BY <1>1, <1>2 DEF Finishes
<1>4. ~ Ended(r) /\ run'[r].status # "none"
  BY <1>2 DEF Ended
<1> QED BY <1>1, <1>2, <1>3, <1>4 DEF Announces, StreamsTyped, Known

\* A phase that begins or is recorded is an announcement of its run.
LEMMA ReportAnnounces ==
  ASSUME FeedInv, NEW r \in Run, NEW name \in PhaseName, Begin(r, name) \/ Record(r, name)
  PROVE  Announces(r)
<1> USE DEF FeedInv, Inv
<1>1. run[r].status = "running" /\ run[r] \in RunRecord /\ run[r].phases \in Seq(Phase)
  BY DEF StoreTyped, RunRecord, Claims, Alive, Begin, Record, Reports
<1>2. ASSUME NEW shown \in Seq(Phase), NEW kind \in Kind \ {"run.started", "run.finished"},
             Publish(r, kind, [run[r] EXCEPT !.phases = shown]), UNCHANGED <<order, watchers>>
      PROVE  Announces(r)
  <2> DEFINE record == [run[r] EXCEPT !.phases = shown]
  <2>1. record \in RunRecord /\ record.events = run[r].events /\ record.status = "running"
    BY <1>1 DEF RunRecord
  <2>2. Publish(r, kind, record)
    BY <1>2
  <2> HIDE DEF record
  <2> QED BY <1>1, <1>2, <2>1, <2>2, RunAnnounces
<1>3. CASE Begin(r, name)
  <2> DEFINE old == Settled(run[r].phases, "done")
             new == [name |-> name, status |-> "running"]
  <2>1. old \in Seq(Phase) /\ new \in Phase
    BY <1>1, SettledPhases DEF PhaseStatus, Phase
  <2>2. Publish(r, "phase.began", [run[r] EXCEPT !.phases = Append(old, new)])
        /\ UNCHANGED <<order, watchers>>
    BY <1>3, <1>1 DEF Begin, PhaseBegan, RunRecord
  <2> HIDE DEF old, new
  <2>3. Append(old, new) \in Seq(Phase)
    BY <2>1, AppendProperties
  <2> QED BY <2>2, <2>3, <1>2 DEF Kind
<1>4. CASE Record(r, name)
  <2> DEFINE phases == run[r].phases
             done == [name |-> name, status |-> "done"]
             open == {i \in DOMAIN phases : phases[i] = [name |-> name, status |-> "running"]}
             last == CHOOSE i \in open : \A j \in open : j <= i
             shown == IF open = {} THEN Append(phases, done) ELSE [phases EXCEPT ![last] = done]
  <2>1. Publish(r, "phase.recorded", [run[r] EXCEPT !.phases = shown])
        /\ UNCHANGED <<order, watchers>>
    BY <1>4, <1>1 DEF Record, PhaseRecorded, RunRecord
  <2>2. done \in Phase /\ phases \in Seq(Phase)
    BY <1>1 DEF Phase, PhaseStatus
  <2> HIDE DEF last, done
  <2>3. shown \in Seq(Phase)
    <3>1. CASE open = {}
      BY <3>1, <2>2, AppendProperties
    <3>2. CASE open # {}
      <4>1. shown = [phases EXCEPT ![last] = done]
        BY <3>2
      <4> HIDE DEF phases, shown
      <4>2. [phases EXCEPT ![last] = done] \in Seq(Phase)
        <5>1. phases \in [1 .. Len(phases) -> Phase] /\ Len(phases) \in Nat
          BY <2>2, LenProperties
        <5>2. [phases EXCEPT ![last] = done] \in [1 .. Len(phases) -> Phase]
          BY <5>1, <2>2
        <5> QED BY <5>1, <5>2, SeqDef
      <4> QED BY <4>1, <4>2
    <3> QED BY <3>1, <3>2
  <2> HIDE DEF shown
  <2> QED BY <2>1, <2>3, <1>2 DEF Kind
<1> QED BY <1>3, <1>4

\* The end of a run is its last announcement.
LEMMA FinishAnnounces ==
  ASSUME FeedInv, NEW r \in Run, Completes(r) \/ WorkRaises(r)
  PROVE  Announces(r)
<1> USE DEF FeedInv, Inv
<1>1. PICK status \in {"completed", "failed"} : Finish(r, status)
  BY DEF Completes, WorkRaises
<1>2. run[r].status = "running" /\ run[r] \in RunRecord /\ run[r].phases \in Seq(Phase)
  BY DEF StoreTyped, RunRecord, Claims, Alive, Completes, WorkRaises
<1> DEFINE shown == Settled(run[r].phases, IF status = "failed" THEN "failed" ELSE "done")
           record == [run[r] EXCEPT !.status = status, !.phases = shown]
<1>3. shown \in Seq(Phase)
  BY <1>2, SettledPhases DEF PhaseStatus
<1>4. Publish(r, "run.finished", record) /\ UNCHANGED <<order, watchers>>
  BY <1>1, <1>2 DEF Finish, Settle, RunRecord
<1> HIDE DEF shown
<1>5. record \in RunRecord /\ record.events = run[r].events /\ record.status = status
  BY <1>2, <1>3 DEF RunRecord, Status
<1> HIDE DEF record
<1> QED BY <1>1, <1>2, <1>4, <1>5, RunAnnounces DEF Kind

-----------------------------------------------------------------------------
(* An announcement                                                          *)

\* What an announcement does to one stream.
LEMMA StreamAfter ==
  ASSUME StreamsTyped, NEW r \in Run, NEW e \in Event, NEW s \in Stream,
         stream' = [x \in Stream |->
           IF x \in watchers[r] THEN [stream[x] EXCEPT !.channel = Append(@, e)] ELSE stream[x]]
  PROVE  /\ stream'[s] \in StreamRecord
         /\ stream'[s].at = stream[s].at /\ stream'[s].run = stream[s].run
         /\ stream'[s].takes = stream[s].takes /\ stream'[s].backlog = stream[s].backlog
         /\ stream'[s].seen = stream[s].seen
         /\ s \notin watchers[r] => stream'[s].channel = stream[s].channel
         /\ s \in watchers[r] => stream'[s].channel = Append(stream[s].channel, e)
<1>1. stream[s] \in StreamRecord /\ stream[s].channel \in Seq(Event)
  BY DEF StreamsTyped, StreamRecord
<1>2. Append(stream[s].channel, e) \in Seq(Event)
  BY <1>1, AppendProperties
<1> QED BY <1>1, <1>2 DEF StreamRecord

\* A longer log keeps the streams that are joined to it, if they are told.
LEMMA JoinedAppend ==
  ASSUME NEW t \in StreamRecord, NEW u \in StreamRecord, NEW log \in Seq(Event), NEW e \in Event,
         Joined(t, log), u.seen = t.seen, u.backlog = t.backlog,
         u.channel = Append(t.channel, e)
  PROVE  Joined(u, Append(log, e))
<1>1. t.channel \in Seq(Event) /\ t.seen \in Seq(Event) /\ t.backlog \in Seq(Event)
  BY DEF StreamRecord
<1>2. PICK a \in Nat, b \in Nat, c \in Nat :
        a = Len(t.seen) /\ b = Len(t.backlog) /\ c = Len(t.channel)
  BY <1>1, LenProperties
<1>3. /\ Len(u.channel) = c + 1
      /\ \A i \in 1 .. c : u.channel[i] = t.channel[i]
      /\ u.channel[c + 1] = e
  BY <1>1, <1>2, AppendProperties
<1>4. a + b + c = Len(log)
  BY <1>2 DEF Joined
<1> DEFINE longer == Append(log, e)
<1>5. /\ Len(longer) = a + b + c + 1
      /\ \A i \in 1 .. a + b + c : longer[i] = log[i]
      /\ longer[a + b + c + 1] = e
  BY <1>4, AppendProperties
<1> HIDE DEF longer
<1>6. \A i \in 1 .. a : u.seen[i] = longer[i]
  <2>1. \A i \in 1 .. a : t.seen[i] = log[i]
    BY <1>2 DEF Joined
  <2> QED BY <2>1, <1>5
<1>7. \A i \in 1 .. b : u.backlog[i] = longer[a + i]
  <2>1. \A i \in 1 .. b : t.backlog[i] = log[a + i]
    BY <1>2 DEF Joined
  <2> QED BY <2>1, <1>5
<1>8. ASSUME NEW i \in 1 .. c + 1
      PROVE  u.channel[i] = longer[a + b + i]
  <2>1. CASE i \in 1 .. c
    <3>1. a + b + i \in 1 .. a + b + c
      BY <2>1
    <3>2. u.channel[i] = t.channel[i] /\ t.channel[i] = log[a + b + i]
      BY <2>1, <1>2, <1>3 DEF Joined
    <3> QED BY <3>1, <3>2, <1>5
  <2>2. CASE i = c + 1
    <3>1. a + b + i = a + b + c + 1
      BY <2>2
    <3> QED BY <2>2, <3>1, <1>3, <1>5
  <2>3. i \in 1 .. c \/ i = c + 1
    OBVIOUS
  <2> QED BY <2>1, <2>2, <2>3
<1>9. a + b + (c + 1) = a + b + c + 1
  OBVIOUS
<1>10. Joined(u, longer)
  BY <1>2, <1>3, <1>5, <1>6, <1>7, <1>8, <1>9 DEF Joined
<1> QED BY <1>10 DEF longer

\* An announcement keeps every log: the closing event comes with the end of the
\* run, and nothing comes after it.
LEMMA AnnounceLogs ==
  ASSUME FeedInv, Inv', NEW r \in Run, Announces(r)
  PROVE  LogsKept'
<1> USE DEF FeedInv, Inv
<1>1. PICK e \in Event :
        /\ run'[r].events = Append(run[r].events, e)
        /\ Finishes(e) <=> run'[r].status \in {"completed", "failed"}
  BY DEF Announces
<1>2. /\ run[r].events \in Seq(Event) /\ Len(run[r].events) \in Nat
      /\ DOMAIN run[r].events = 1 .. Len(run[r].events)
  BY DEF StoreTyped, RunRecord
<1>3. /\ Len(run'[r].events) = Len(run[r].events) + 1
      /\ DOMAIN run'[r].events = 1 .. Len(run[r].events) + 1
      /\ \A i \in 1 .. Len(run[r].events) : run'[r].events[i] = run[r].events[i]
      /\ run'[r].events[Len(run[r].events) + 1] = e
  BY <1>1, <1>2, AppendProperties, LenProperties
<1>4. \A i \in 1 .. Len(run[r].events) : ~ Finishes(run[r].events[i])
  BY <1>2 DEF Announces, LogsKept
<1>5. \A i \in DOMAIN run'[r].events :
        Finishes(run'[r].events[i]) <=> Ended(r)' /\ i = Len(run'[r].events)
  <2> SUFFICES ASSUME NEW i \in DOMAIN run'[r].events
               PROVE  Finishes(run'[r].events[i]) <=> Ended(r)' /\ i = Len(run'[r].events)
    OBVIOUS
  <2>1. CASE i \in 1 .. Len(run[r].events)
    <3>1. run'[r].events[i] = run[r].events[i] /\ i # Len(run'[r].events)
      BY <2>1, <1>2, <1>3
    <3>2. ~ Finishes(run'[r].events[i])
      BY <3>1, <2>1, <1>4
    <3> QED BY <3>1, <3>2
  <2>2. CASE i = Len(run[r].events) + 1
    BY <2>2, <1>1, <1>3 DEF Ended
  <2> QED BY <2>1, <2>2, <1>2, <1>3
<1>6. run'[r].events # <<>>
  BY <1>2, <1>3
<1>7. ASSUME NEW q \in Run \ {r}
      PROVE  run'[q] = run[q] /\ (Known(q)' => Known(q))
  BY DEF Announces
<1>8. ASSUME NEW q \in Run \ {r}
      PROVE  /\ Known(q)' => run'[q].status # "none"
             /\ run'[q].status # "none" => run'[q].events # <<>>
             /\ \A i \in DOMAIN run'[q].events :
                  Finishes(run'[q].events[i]) <=> Ended(q)' /\ i = Len(run'[q].events)
  <2>1. run'[q] = run[q] /\ (Known(q)' => Known(q))
    BY <1>7
  <2>2. Ended(q)' <=> Ended(q)
    BY <2>1 DEF Ended
  <2> QED BY <2>1, <2>2 DEF LogsKept
<1>9. run'[r].status # "none"
  BY DEF Announces
<1> QED BY <1>5, <1>6, <1>8, <1>9 DEF LogsKept

\* An announcement keeps every stream fed: a stream whose run has not ended is
\* subscribed, so the event that lengthens the log is in its channel.
LEMMA AnnounceFeeds ==
  ASSUME FeedInv, Inv', NEW r \in Run, Announces(r)
  PROVE  StreamsTyped' /\ Feeding'
<1> USE DEF FeedInv, Inv
<1>1. PICK e \in Event :
        /\ run'[r].events = Append(run[r].events, e)
        /\ stream' = [x \in Stream |->
             IF x \in watchers[r] THEN [stream[x] EXCEPT !.channel = Append(@, e)] ELSE stream[x]]
  BY DEF Announces
<1>2. ASSUME NEW s \in Stream
      PROVE  /\ stream'[s] \in StreamRecord
             /\ stream'[s].at = stream[s].at /\ stream'[s].run = stream[s].run
             /\ stream'[s].takes = stream[s].takes /\ stream'[s].backlog = stream[s].backlog
             /\ stream'[s].seen = stream[s].seen
             /\ s \notin watchers[r] => stream'[s].channel = stream[s].channel
             /\ s \in watchers[r] => stream'[s].channel = Append(stream[s].channel, e)
  BY <1>1, StreamAfter
<1>3. StreamsTyped'
  <2>1. stream' \in [Stream -> StreamRecord]
    BY <1>1, <1>2
  <2> QED BY <2>1 DEF StreamsTyped, Announces
<1>4. /\ ~ Ended(r)
      /\ \A q \in Run \ {r} : run'[q] = run[q]
      /\ \A q \in Run : watchers'[q] = watchers[q] \/ (watchers'[q] = {} /\ Ended(q))
  BY DEF Announces
<1>5. run[r].events \in Seq(Event) /\ Len(run[r].events) \in Nat
  BY DEF StoreTyped, RunRecord
<1>6. /\ Len(run'[r].events) = Len(run[r].events) + 1
      /\ \A i \in 1 .. Len(run[r].events) : run'[r].events[i] = run[r].events[i]
  BY <1>1, <1>5, AppendProperties
<1>7. ASSUME NEW s \in Stream, stream[s].at \in {"replaying", "following", "complete"}
      PROVE  Fed(s)'
  <2> DEFINE t == stream[s]
             u == stream'[s]
             q == stream[s].run
  <2>1. Fed(s)
    BY <1>7 DEF Feeding
  <2>2. /\ u.at = t.at /\ u.run = q /\ u.takes = t.takes /\ u.backlog = t.backlog
        /\ u.seen = t.seen /\ q \in Run /\ u \in StreamRecord /\ t \in StreamRecord
    BY <2>1, <1>2 DEF Fed, FedBy, StreamsTyped
  <2>3. CASE q = r
    <3>1. t.takes = "both" /\ t.at # "complete" /\ s \in watchers[r]
      BY <2>1, <2>2, <2>3, <1>4 DEF Fed, FedBy, StreamRecord
    <3>2. u.channel = Append(t.channel, e)
      BY <3>1, <1>2
    <3>3. Joined(t, run[r].events)
      BY <2>1, <2>3 DEF Fed, FedBy
    <3>4. Joined(u, run'[r].events)
      BY <3>2, <3>3, <2>2, <1>1, <1>5, JoinedAppend
    <3>5. \A i \in 1 .. Len(u.seen) + Len(u.backlog) : ~ Finishes(run'[r].events[i])
      <4>1. \A i \in 1 .. Len(t.seen) + Len(t.backlog) : ~ Finishes(run[r].events[i])
        BY <2>1, <2>3, <3>1 DEF Fed, FedBy
      <4>2. PICK a \in Nat, b \in Nat, c \in Nat, n \in Nat :
              /\ a = Len(t.seen) /\ b = Len(t.backlog) /\ c = Len(t.channel)
              /\ n = Len(run[r].events)
        <5>1. t.channel \in Seq(Event) /\ t.seen \in Seq(Event) /\ t.backlog \in Seq(Event)
          BY <2>2 DEF StreamRecord
        <5> QED BY <5>1, <1>5, LenProperties
      <4>3. a + b + c = n
        BY <4>2, <3>3 DEF Joined
      <4>4. \A i \in 1 .. a + b : ~ Finishes(run'[r].events[i])
        <5>1. \A i \in 1 .. a + b : i \in 1 .. n
          BY <4>3
        <5> QED BY <5>1, <4>1, <4>2, <1>6
      <4> QED BY <4>2, <4>4, <2>2
    <3>6. s \in watchers'[r] /\ run'[r].events # <<>>
      BY <3>1, <1>4, <1>5, <1>6
    <3>7. t.at = "following" => t.backlog = <<>>
      BY <2>1 DEF Fed, FedBy
    <3> QED BY <2>2, <2>3, <3>1, <3>4, <3>5, <3>6, <3>7 DEF Fed, FedBy
  <2>4. CASE q # r
    <3>1. run'[q] = run[q] /\ (watchers'[q] = watchers[q] \/ Ended(q))
      BY <2>2, <2>4, <1>4
    <3>2. u.channel = t.channel
      BY <2>2, <2>4, <1>2 DEF Feeding
    <3>3. Joined(u, run'[q].events)
      BY <2>1, <2>2, <3>1, <3>2 DEF Fed, FedBy, Joined
    <3> QED BY <2>1, <2>2, <3>1, <3>2, <3>3 DEF Fed, FedBy, Ended
  <2> QED BY <2>3, <2>4
<1>8. ASSUME NEW s \in Stream, NEW q \in Run, s \in watchers'[q]
      PROVE  stream'[s].run = q /\ stream'[s].takes = "both"
             /\ stream'[s].at \in {"replaying", "following"}
  <2>1. s \in watchers[q]
    BY <1>4, <1>8
  <2> QED BY <2>1, <1>2 DEF Feeding
<1>9. ASSUME NEW s \in Stream
      PROVE  /\ stream'[s].at \in {"idle", "left", "opened", "refused"} =>
                  stream'[s].takes = "nothing" /\ stream'[s].seen = <<>>
                  /\ stream'[s].channel = <<>>
             /\ stream'[s].at = "opened" => stream'[s].run \in Run
  BY <1>2 DEF Feeding
<1>10. \A s \in Stream : stream'[s].at \in {"replaying", "following", "complete"} => Fed(s)'
  BY <1>2, <1>7
<1> QED BY <1>3, <1>8, <1>9, <1>10 DEF Feeding

-----------------------------------------------------------------------------
(* The steps of a browser                                                   *)

\* A step of one browser that leaves runs and other streams alone.
Alone(s) ==
  /\ UNCHANGED <<run, order, busy, sequence, thread, journal>>
  /\ \A x \in Stream \ {s} :
       stream'[x] = stream[x] /\ \A r \in Run : x \in watchers'[r] <=> x \in watchers[r]

\* A step of one browser keeps the invariant if it keeps what the invariant
\* says of that browser.
LEMMA AloneFeeds ==
  ASSUME FeedInv, NEW s \in Stream, Alone(s),
         StreamsTyped',
         stream'[s].at \in {"idle", "left", "opened", "refused"} =>
           stream'[s].takes = "nothing" /\ stream'[s].seen = <<>> /\ stream'[s].channel = <<>>,
         stream'[s].at = "opened" => stream'[s].run \in Run,
         stream'[s].at \in {"replaying", "following", "complete"} => Fed(s)',
         \A r \in Run : s \in watchers'[r] =>
           stream'[s].run = r /\ stream'[s].takes = "both"
           /\ stream'[s].at \in {"replaying", "following"}
  PROVE  FeedInv'
<1> USE DEF FeedInv
<1>1. Inv'
  BY DEF Alone, Inv, StoreTyped, Claims, Evidence, Known, Showing, AtMostOne
<1>2. LogsKept'
  BY DEF Alone, LogsKept, Known, Ended
<1>3. ASSUME NEW x \in Stream \ {s}
      PROVE  /\ stream'[x] = stream[x]
             /\ \A r \in Run : x \in watchers'[r] <=> x \in watchers[r]
             /\ Fed(x) => Fed(x)'
  <2>1. /\ stream'[x] = stream[x] /\ run' = run
        /\ \A r \in Run : x \in watchers'[r] <=> x \in watchers[r]
    BY DEF Alone
  <2>2. Fed(x) => Fed(x)'
    BY <2>1 DEF Fed, Ended
  <2> QED BY <2>1, <2>2
<1>4. Feeding'
  <2>1. ASSUME NEW x \in Stream \ {s}
        PROVE  /\ stream'[x].at \in {"idle", "left", "opened", "refused"} =>
                    stream'[x].takes = "nothing" /\ stream'[x].seen = <<>>
                    /\ stream'[x].channel = <<>>
               /\ stream'[x].at = "opened" => stream'[x].run \in Run
               /\ stream'[x].at \in {"replaying", "following", "complete"} => Fed(x)'
               /\ \A r \in Run : x \in watchers'[r] =>
                    stream'[x].run = r /\ stream'[x].takes = "both"
                    /\ stream'[x].at \in {"replaying", "following"}
    BY <1>3 DEF Feeding
  <2> QED BY <2>1 DEF Feeding
<1> QED BY <1>1, <1>2, <1>4

\* A stream set to a record, with whoever else is subscribed left alone.
LEMMA SetStream ==
  ASSUME FeedInv, NEW s \in Stream, NEW u \in StreamRecord, stream' = [stream EXCEPT ![s] = u],
         NEW r \in Run,
         \/ watchers' = watchers
         \/ watchers' = [watchers EXCEPT ![r] = @ \cup {s}]
         \/ watchers' = [watchers EXCEPT ![r] = @ \ {s}],
         UNCHANGED <<run, order, busy, sequence, thread, journal>>
  PROVE  stream'[s] = u /\ StreamsTyped' /\ Alone(s)
<1> USE DEF FeedInv
<1>1. stream'[s] = u /\ StreamsTyped'
  BY DEF StreamsTyped
<1>2. \A x \in Stream \ {s} : stream'[x] = stream[x]
  BY DEF StreamsTyped
<1>3. \A x \in Stream \ {s}, q \in Run : x \in watchers'[q] <=> x \in watchers[q]
  BY DEF StreamsTyped
<1> QED BY <1>1, <1>2, <1>3 DEF Alone

-----------------------------------------------------------------------------
(* What EventFeed sees of a stream                                          *)

ShownAs(t) ==
  IF t.at \in {"idle", "opened"} THEN "idle"
  ELSE IF t.at \in {"left", "refused"} THEN "left"
  ELSE IF t.seen # <<>> /\ Finishes(Last(t.seen)) THEN "complete"
  ELSE "reading"

\* A stream that has not been closed has not seen the closing event, and one
\* that is complete has.
LEMMA SeenOfFed ==
  ASSUME FeedInv, NEW s \in Stream, Fed(s)
  PROVE  /\ stream[s].at = "complete" => SeenAll(s)
         /\ s \in watchers[stream[s].run] => ~ SeenAll(s)
<1> USE DEF FeedInv
<1> DEFINE t == stream[s]
           log == run[t.run].events
<1>1. /\ t \in StreamRecord /\ t.run \in Run /\ log \in Seq(Event) /\ log # <<>>
      /\ Joined(t, log)
  BY DEF StreamsTyped, Fed, FedBy, Inv, StoreTyped, RunRecord
<1>2. PICK a \in Nat, b \in Nat, c \in Nat :
        a = Len(t.seen) /\ b = Len(t.backlog) /\ c = Len(t.channel)
  BY <1>1, LenProperties DEF StreamRecord
<1>3. a + b + c = Len(log) /\ Len(log) # 0 /\ t.seen \in Seq(Event)
      /\ \A i \in 1 .. a : t.seen[i] = log[i]
  BY <1>1, <1>2, EmptySeq DEF Joined, StreamRecord
<1>4. ASSUME t.at = "complete" PROVE SeenAll(s)
  <2>1. b = 0 /\ c = 0 /\ Ended(t.run)
    BY <1>2, <1>4, EmptySeq DEF Fed, FedBy
  <2>2. a = Len(log) /\ a \in DOMAIN log
    BY <2>1, <1>1, <1>3
  <2>3. Finishes(log[a])
    BY <2>1, <2>2, <1>1 DEF LogsKept
  <2>4. t.seen[a] = log[a] /\ t.seen # <<>>
    BY <2>2, <1>2, <1>3
  <2> QED BY <2>3, <2>4, <1>2 DEF SeenAll, Finishes, Last
<1>5. ASSUME s \in watchers[t.run] PROVE ~ SeenAll(s)
  <2>1. t.takes = "both" /\ t.at # "complete"
    BY <1>1, <1>5 DEF Feeding
  <2>2. \A i \in 1 .. a : ~ Finishes(log[i])
    <3>1. \A i \in 1 .. a + b : ~ Finishes(log[i])
      BY <2>1, <1>2 DEF Fed, FedBy
    <3> QED BY <3>1
  <2>3. t.seen # <<>> => a \in 1 .. a
    BY <1>2, <1>3, EmptySeq
  <2> QED BY <2>2, <2>3, <1>2, <1>3 DEF SeenAll, Finishes, Last
<1> QED BY <1>4, <1>5

\* EventFeed's reader is a matter of the stream alone.
LEMMA ReaderIsShown ==
  ASSUME FeedInv, NEW s \in Stream
  PROVE  FeedReader[s] = ShownAs(stream[s])
<1> USE DEF FeedInv
<1>1. stream[s].at \in {"idle", "opened", "replaying", "following", "complete", "left", "refused"}
  BY DEF StreamsTyped, StreamRecord
<1>2. FeedReader[s] =
        IF Subscribed(s) THEN "reading" ELSE IF SeenAll(s) THEN "complete" ELSE ReaderAt(s)
  BY DEF FeedReader
<1>3. CASE stream[s].at \in {"idle", "opened", "left", "refused"}
  <2>1. ~ Subscribed(s) /\ ~ SeenAll(s)
    BY <1>3 DEF Feeding, Subscribed, SeenAll
  <2> QED BY <1>2, <1>3, <2>1 DEF ReaderAt, ShownAs
<1>4. CASE stream[s].at \in {"replaying", "following", "complete"}
  <2>1. Fed(s)
    BY <1>4 DEF Feeding
  <2>2. /\ stream[s].at = "complete" => SeenAll(s)
        /\ s \in watchers[stream[s].run] => ~ SeenAll(s)
    BY <2>1, SeenOfFed
  <2>3. Subscribed(s) => s \in watchers[stream[s].run]
    BY DEF Subscribed, Feeding
  <2>4. SeenAll(s) <=> stream[s].seen # <<>> /\ Finishes(Last(stream[s].seen))
    BY DEF SeenAll, Finishes
  <2> QED BY <1>2, <1>4, <2>2, <2>3, <2>4 DEF ReaderAt, ShownAs
<1> QED BY <1>1, <1>3, <1>4

ReadersShown == \A s \in Stream : FeedReader[s] = ShownAs(stream[s])

\* The same, of all browsers at once.
LEMMA ReadersAreShown == FeedInv => ReadersShown
BY ReaderIsShown DEF ReadersShown

\* And after a step.
LEMMA ReadersAreShownNext == FeedInv' => ReadersShown'
BY ReadersAreShown, PTL

\* A step of one browser is seen of that browser only.
LEMMA AloneShown ==
  ASSUME FeedInv, FeedInv', NEW s \in Stream, Alone(s)
  PROVE  /\ FeedLog' = FeedLog
         /\ FeedSeen' = [FeedSeen EXCEPT ![s] = stream'[s].seen]
         /\ FeedReading' = [FeedReading EXCEPT ![s] =
              IF stream'[s].takes # "nothing" THEN stream'[s].run ELSE Nothing]
         /\ FeedReader' = [FeedReader EXCEPT ![s] = ShownAs(stream'[s])]
<1>1. run' = run /\ \A x \in Stream \ {s} : stream'[x] = stream[x]
  BY DEF Alone
<1>2. \A x \in Stream : FeedReader[x] = ShownAs(stream[x])
  BY ReaderIsShown
<1>3. \A x \in Stream : FeedReader'[x] = ShownAs(stream'[x])
  <2>1. ReadersShown'
    BY ReadersAreShownNext
  <2> QED BY <2>1 DEF ReadersShown, ShownAs
<1>4. FeedLog' = FeedLog
  BY <1>1 DEF FeedLog
<1>5. FeedSeen' = [FeedSeen EXCEPT ![s] = stream'[s].seen]
  BY <1>1 DEF FeedSeen
<1>6. FeedReading' = [FeedReading EXCEPT ![s] =
        IF stream'[s].takes # "nothing" THEN stream'[s].run ELSE Nothing]
  BY <1>1 DEF FeedReading, Attached
<1>7. FeedReader' = [FeedReader EXCEPT ![s] = ShownAs(stream'[s])]
  <2>1. /\ FeedReader = [x \in Stream |-> FeedReader[x]]
        /\ FeedReader' = [x \in Stream |-> FeedReader'[x]]
    BY DEF FeedReader
  <2>2. \A x \in Stream \ {s} : FeedReader'[x] = FeedReader[x]
    BY <1>1, <1>2, <1>3
  <2> QED BY <2>1, <2>2, <1>3
<1> QED BY <1>4, <1>5, <1>6, <1>7

-----------------------------------------------------------------------------
(* Every step of RunStore is one of EventFeed, or none                      *)

feedVars == <<FeedLog, FeedReading, FeedSeen, FeedReader>>

\* An announcement is a run saying something, and nobody has read it yet.
LEMMA AnnounceSays ==
  ASSUME FeedInv, FeedInv', NEW r \in Run, Announces(r)
  PROVE  Feed!Say(r)
<1> USE DEF FeedInv
<1>1. PICK e \in Event :
        /\ run'[r].events = Append(run[r].events, e)
        /\ stream' = [x \in Stream |->
             IF x \in watchers[r] THEN [stream[x] EXCEPT !.channel = Append(@, e)] ELSE stream[x]]
  BY DEF Announces
<1>2. ASSUME NEW s \in Stream
      PROVE  /\ stream'[s].at = stream[s].at /\ stream'[s].run = stream[s].run
             /\ stream'[s].takes = stream[s].takes /\ stream'[s].seen = stream[s].seen
  BY <1>1, StreamAfter
<1>3. /\ ~ Ended(r) /\ \A q \in Run \ {r} : run'[q] = run[q]
      /\ run[r].events \in Seq(Event)
  BY DEF Announces, Inv, StoreTyped, RunRecord
<1>4. ~ Feed!Closed(r)
  <2>1. ASSUME run[r].events # <<>>
        PROVE  ~ Finishes(Last(run[r].events))
    <3>1. Len(run[r].events) \in DOMAIN run[r].events
      BY <1>3, <2>1, EmptySeq, LenProperties
    <3> QED BY <3>1, <1>3 DEF LogsKept, Last
  <2> QED BY <2>1 DEF Feed!Closed, Feed!Last, Last, Finishes, FeedLog
<1>5. /\ Len(FeedLog'[r]) = Len(FeedLog[r]) + 1
      /\ Feed!IsPrefix(FeedLog[r], FeedLog'[r])
  <2> DEFINE log == run[r].events
             longer == Append(log, e)
  <2>1. FeedLog[r] = log /\ FeedLog'[r] = longer
    BY <1>1 DEF FeedLog
  <2>2. /\ longer \in Seq(Event) /\ Len(longer) = Len(log) + 1 /\ Len(log) \in Nat
        /\ \A i \in 1 .. Len(log) : longer[i] = log[i]
    BY <1>3, AppendProperties, LenProperties
  <2>3. \A i \in 1 .. Len(log) : log[i] \in Event
    BY <1>3, ElementOfSeq
  <2> HIDE DEF log, longer
  <2>4. \A i \in 1 .. Len(log) : longer[i] \in Event
    BY <2>2, <2>3
  <2>5. /\ SubSeq(log, 1, Len(log)) \in Seq(Event) /\ SubSeq(longer, 1, Len(log)) \in Seq(Event)
        /\ Len(SubSeq(log, 1, Len(log))) = Len(log)
        /\ Len(SubSeq(longer, 1, Len(log))) = Len(log)
        /\ \A i \in 1 .. Len(log) : SubSeq(log, 1, Len(log))[i] = log[i]
        /\ \A i \in 1 .. Len(log) : SubSeq(longer, 1, Len(log))[i] = longer[i]
    BY <2>2, <2>3, <2>4
  <2>6. SubSeq(log, 1, Len(log)) = SubSeq(longer, 1, Len(log))
    BY <2>2, <2>5, SeqEqual
  <2> QED BY <2>1, <2>2, <2>6 DEF Feed!IsPrefix
<1>6. \A q \in Run \ {r} : FeedLog'[q] = FeedLog[q]
  BY <1>3 DEF FeedLog
<1>7. FeedReading' = FeedReading /\ FeedSeen' = FeedSeen
  BY <1>2 DEF FeedReading, FeedSeen, Attached
<1>8. FeedReader' = FeedReader
  <2>1. ReadersShown /\ ReadersShown'
    BY ReadersAreShown, ReadersAreShownNext
  <2>2. \A s \in Stream : FeedReader'[s] = FeedReader[s]
    BY <1>2, <2>1 DEF ReadersShown, ShownAs
  <2>3. /\ FeedReader = [x \in Stream |-> FeedReader[x]]
        /\ FeedReader' = [x \in Stream |-> FeedReader'[x]]
    BY DEF FeedReader
  <2> QED BY <2>2, <2>3
<1> QED
  BY <1>4, <1>5, <1>6, <1>7, <1>8
  DEF Feed!Say

\* A generator takes an event of its backlog, or of its channel once that is
\* used up.
FromBacklog(t, u) ==
  /\ t.backlog # <<>>
  /\ u.seen = Append(t.seen, Head(t.backlog)) /\ u.backlog = Tail(t.backlog)
  /\ u.channel = t.channel

FromChannel(t, u) ==
  /\ t.backlog = <<>> /\ t.channel # <<>>
  /\ u.seen = Append(t.seen, Head(t.channel)) /\ u.backlog = t.backlog
  /\ u.channel = Tail(t.channel)

\* Either way it is the next event of the log.
LEMMA NextSeen ==
  ASSUME NEW t \in StreamRecord, NEW u \in StreamRecord, NEW log \in Seq(Event), Joined(t, log),
         FromBacklog(t, u) \/ FromChannel(t, u)
  PROVE  /\ Joined(u, log)
         /\ Len(t.seen) < Len(log) /\ Len(u.seen) = Len(t.seen) + 1
         /\ u.seen = Append(t.seen, log[Len(t.seen) + 1])
         /\ Last(u.seen) = log[Len(t.seen) + 1] /\ u.seen # <<>>
<1>1. t.channel \in Seq(Event) /\ t.seen \in Seq(Event) /\ t.backlog \in Seq(Event)
  BY DEF StreamRecord
<1>2. PICK a \in Nat, b \in Nat, c \in Nat, n \in Nat :
        a = Len(t.seen) /\ b = Len(t.backlog) /\ c = Len(t.channel) /\ n = Len(log)
  BY <1>1, LenProperties
<1>3. /\ a + b + c = n
      /\ \A i \in 1 .. a : t.seen[i] = log[i]
      /\ \A i \in 1 .. b : t.backlog[i] = log[a + i]
      /\ \A i \in 1 .. c : t.channel[i] = log[a + b + i]
  BY <1>2 DEF Joined
<1>4. ASSUME NEW e \in Event, e = log[a + 1], u.seen = Append(t.seen, e), a < n
      PROVE  /\ Len(u.seen) = a + 1
             /\ \A i \in 1 .. a + 1 : u.seen[i] = log[i]
             /\ Last(u.seen) = log[a + 1] /\ u.seen # <<>>
             /\ u.seen = Append(t.seen, log[a + 1])
  <2>1. /\ Len(u.seen) = a + 1 /\ u.seen # <<>> /\ u.seen[a + 1] = e
        /\ \A i \in 1 .. a : u.seen[i] = t.seen[i]
    <3> DEFINE more == Append(t.seen, e)
    <3>1. e \in Event /\ t.seen \in Seq(Event)
      BY <1>1, <1>4
    <3>2. /\ Len(more) = Len(t.seen) + 1 /\ more[Len(t.seen) + 1] = e
          /\ \A i \in 1 .. Len(t.seen) : more[i] = t.seen[i]
      BY <3>1, AppendProperties
    <3>3. more # <<>>
      <4>1. Len(<<>>) = 0
        BY EmptySeq
      <4>2. a + 1 # 0
        OBVIOUS
      <4>3. Len(more) = a + 1
        BY <3>2, <1>2
      <4> HIDE DEF more
      <4> QED BY <4>1, <4>2, <4>3
    <3>4. u.seen = more
      BY <1>4
    <3> HIDE DEF more
    <3> QED BY <3>2, <3>3, <3>4, <1>2
  <2>2. ASSUME NEW i \in 1 .. a + 1 PROVE u.seen[i] = log[i]
    <3>1. i \in 1 .. a \/ i = a + 1
      OBVIOUS
    <3> QED BY <3>1, <2>1, <1>3, <1>4
  <2> QED BY <2>1, <2>2, <1>4 DEF Last
<1>5. CASE FromBacklog(t, u)
  <2>1. /\ b # 0 /\ Head(t.backlog) = t.backlog[1] /\ Head(t.backlog) \in Event
        /\ Tail(t.backlog) \in Seq(Event) /\ Len(Tail(t.backlog)) = b - 1
        /\ \A i \in 1 .. b - 1 : Tail(t.backlog)[i] = t.backlog[i + 1]
    BY <1>1, <1>2, <1>5, EmptySeq, HeadTailProperties DEF FromBacklog
  <2>2. /\ u.seen = Append(t.seen, Head(t.backlog)) /\ u.backlog = Tail(t.backlog)
        /\ u.channel = t.channel
    BY <1>5 DEF FromBacklog
  <2>3. Head(t.backlog) = log[a + 1] /\ a < n
    BY <2>1, <1>3
  <2>4. /\ Len(u.seen) = a + 1 /\ \A i \in 1 .. a + 1 : u.seen[i] = log[i]
        /\ Last(u.seen) = log[a + 1] /\ u.seen # <<>> /\ u.seen = Append(t.seen, log[a + 1])
    BY <2>1, <2>2, <2>3, <1>4
  <2>5. \A i \in 1 .. b - 1 : u.backlog[i] = log[(a + 1) + i]
    <3> SUFFICES ASSUME NEW i \in 1 .. b - 1 PROVE u.backlog[i] = log[(a + 1) + i]
      OBVIOUS
    <3>1. i + 1 \in 1 .. b /\ a + (i + 1) = (a + 1) + i
      OBVIOUS
    <3>2. t.backlog[i + 1] = log[a + (i + 1)]
      BY <3>1, <1>3
    <3> QED BY <3>1, <3>2, <2>1, <2>2
  <2>6. \A i \in 1 .. c : u.channel[i] = log[(a + 1) + (b - 1) + i]
    <3>1. \A i \in 1 .. c : (a + 1) + (b - 1) + i = a + b + i
      OBVIOUS
    <3> QED BY <3>1, <2>2, <1>3
  <2>7. (a + 1) + (b - 1) + c = n
    BY <1>3
  <2>8. Len(u.backlog) = b - 1 /\ Len(u.channel) = c
    BY <2>1, <2>2, <1>2
  <2>9. Joined(u, log)
    BY <2>4, <2>5, <2>6, <2>7, <2>8, <1>2 DEF Joined
  <2> QED BY <2>3, <2>4, <2>9, <1>2
<1>6. CASE FromChannel(t, u)
  <2>1. /\ b = 0 /\ c # 0 /\ Head(t.channel) = t.channel[1] /\ Head(t.channel) \in Event
        /\ Tail(t.channel) \in Seq(Event) /\ Len(Tail(t.channel)) = c - 1
        /\ \A i \in 1 .. c - 1 : Tail(t.channel)[i] = t.channel[i + 1]
    BY <1>1, <1>2, <1>6, EmptySeq, HeadTailProperties DEF FromChannel
  <2>2. /\ u.seen = Append(t.seen, Head(t.channel)) /\ u.backlog = t.backlog
        /\ u.channel = Tail(t.channel)
    BY <1>6 DEF FromChannel
  <2>3. Head(t.channel) = log[a + 1] /\ a < n
    <3>1. 1 \in 1 .. c /\ a + b + 1 = a + 1 /\ a < n
      BY <2>1, <1>3
    <3> QED BY <3>1, <2>1, <1>3
  <2>4. /\ Len(u.seen) = a + 1 /\ \A i \in 1 .. a + 1 : u.seen[i] = log[i]
        /\ Last(u.seen) = log[a + 1] /\ u.seen # <<>> /\ u.seen = Append(t.seen, log[a + 1])
    BY <2>1, <2>2, <2>3, <1>4
  <2>5. \A i \in 1 .. c - 1 : u.channel[i] = log[(a + 1) + b + i]
    <3> SUFFICES ASSUME NEW i \in 1 .. c - 1 PROVE u.channel[i] = log[(a + 1) + b + i]
      OBVIOUS
    <3>1. i + 1 \in 1 .. c /\ a + b + (i + 1) = (a + 1) + b + i
      OBVIOUS
    <3>2. t.channel[i + 1] = log[a + b + (i + 1)]
      BY <3>1, <1>3
    <3> QED BY <3>1, <3>2, <2>1, <2>2
  <2>6. (a + 1) + b + (c - 1) = n
    BY <1>3
  <2>7. Len(u.backlog) = b /\ Len(u.channel) = c - 1
    BY <2>1, <2>2, <1>2
  <2>8. \A i \in 1 .. b : u.backlog[i] = log[(a + 1) + i]
    BY <2>1
  <2>9. Joined(u, log)
    BY <2>4, <2>5, <2>6, <2>7, <2>8, <1>2 DEF Joined
  <2> QED BY <2>3, <2>4, <2>9, <1>2
<1> QED BY <1>5, <1>6

\* A function set to what it is.
LEMMA Unchanged ==
  ASSUME NEW S, NEW f, f = [x \in S |-> f[x]], NEW s \in S, NEW v, f[s] = v
  PROVE  [f EXCEPT ![s] = v] = f
OBVIOUS

\* What a step of a browser may be to EventFeed.
Shown(s) == Feed!Attach(s) \/ Feed!Read(s) \/ Feed!Leave(s) \/ UNCHANGED feedVars

\* A stream that is opened has not read anything yet.
LEMMA OpenShown ==
  ASSUME FeedInv, NEW s \in Stream, Open(s)
  PROVE  FeedInv' /\ Shown(s)
<1> USE DEF FeedInv
<1>1. PICK r \in Run : stream' = [stream EXCEPT ![s].at = "opened", ![s].run = r]
  BY DEF Open
<1> DEFINE t == stream[s]
           u == [t EXCEPT !.at = "opened", !.run = r]
<1>2. t \in StreamRecord /\ t.at = "idle" /\ t.takes = "nothing" /\ t.seen = <<>>
      /\ t.channel = <<>>
  BY DEF Open, StreamsTyped, Feeding
<1>3. u \in StreamRecord /\ u.at = "opened" /\ u.run = r /\ u.takes = "nothing" /\ u.seen = <<>>
      /\ u.channel = <<>>
  BY <1>2 DEF StreamRecord
<1>4. stream' = [stream EXCEPT ![s] = u]
  BY <1>1, <1>2 DEF StreamsTyped
<1> HIDE DEF u
<1>5. stream'[s] = u /\ StreamsTyped' /\ Alone(s)
  BY <1>3, <1>4, SetStream DEF Open
<1>6. \A q \in Run : s \notin watchers'[q]
  BY <1>2 DEF Open, Feeding
<1>7. FeedInv'
  BY <1>3, <1>5, <1>6, AloneFeeds
<1>8. UNCHANGED feedVars
  <2>1. /\ FeedLog' = FeedLog
        /\ FeedSeen' = [FeedSeen EXCEPT ![s] = u.seen]
        /\ FeedReading' = [FeedReading EXCEPT ![s] =
             IF u.takes # "nothing" THEN u.run ELSE Nothing]
        /\ FeedReader' = [FeedReader EXCEPT ![s] = ShownAs(u)]
    BY <1>5, <1>7, AloneShown
  <2>2. FeedSeen[s] = <<>> /\ FeedReading[s] = Nothing
    BY <1>2 DEF FeedSeen, FeedReading, Attached
  <2>3. FeedReader[s] = "idle" /\ ShownAs(u) = "idle"
    BY <1>2, <1>3, ReaderIsShown DEF ShownAs
  <2>4. FeedSeen' = FeedSeen
    BY <1>3, <2>1, <2>2, Unchanged DEF FeedSeen
  <2>5. FeedReading' = FeedReading
    BY <1>3, <2>1, <2>2, Unchanged DEF FeedReading
  <2>6. FeedReader' = FeedReader
    BY <2>1, <2>3, Unchanged DEF FeedReader
  <2> QED BY <2>1, <2>4, <2>5, <2>6 DEF feedVars
<1> QED BY <1>7, <1>8 DEF Shown

\* A generator that ends without its backlog pending leaves no subscription.
LEMMA LeaveShown ==
  ASSUME FeedInv, NEW s \in Stream, NEW u \in StreamRecord, NEW r \in Run,
         stream[s].at \in {"opened", "following"}, r = stream[s].run,
         u.takes = "nothing" /\ u.seen = <<>> /\ u.channel = <<>>,
         u.at \in {"left", "refused"},
         stream' = [stream EXCEPT ![s] = u],
         \/ watchers' = watchers /\ stream[s].at = "opened"
         \/ watchers' = [watchers EXCEPT ![r] = @ \ {s}],
         UNCHANGED <<run, order, busy, sequence, thread, journal>>
  PROVE  FeedInv' /\ Feed!Leave(s)
<1> USE DEF FeedInv
<1>1. stream'[s] = u /\ StreamsTyped' /\ Alone(s)
  BY SetStream
<1>2. \A q \in Run : s \notin watchers'[q]
  BY DEF Feeding, StreamsTyped
<1>3. FeedInv'
  BY <1>1, <1>2, AloneFeeds
<1>4. /\ FeedLog' = FeedLog
      /\ FeedSeen' = [FeedSeen EXCEPT ![s] = <<>>]
      /\ FeedReading' = [FeedReading EXCEPT ![s] = Nothing]
      /\ FeedReader' = [FeedReader EXCEPT ![s] = "left"]
  <2>1. ShownAs(u) = "left"
    BY DEF ShownAs
  <2> QED BY <1>1, <1>3, <2>1, AloneShown
<1>5. FeedReader[s] # "left"
  BY ReaderIsShown DEF ShownAs
<1> QED BY <1>3, <1>4, <1>5 DEF Feed!Leave

\* Backlog and subscription are taken together, or the stream is refused.
LEMMA SubscribeShown ==
  ASSUME FeedInv, NEW s \in Stream, Subscribe(s)
  PROVE  FeedInv' /\ Shown(s)
<1> USE DEF FeedInv
<1> DEFINE t == stream[s]
           r == stream[s].run
<1>1. /\ t \in StreamRecord /\ t.at = "opened" /\ r \in Run /\ t.takes = "nothing"
      /\ t.seen = <<>> /\ t.channel = <<>>
  BY DEF Subscribe, StreamsTyped, Feeding
<1>2. /\ run[r] \in RunRecord /\ run[r].events \in Seq(Event)
      /\ run[r].status \in {"none", "running", "completed", "failed"}
  BY <1>1 DEF Inv, StoreTyped, RunRecord, Status
<1>3. CASE Known(r)
  <2> DEFINE live == run[r].status = "running"
             u == [t EXCEPT !.at = "replaying", !.backlog = run[r].events,
                            !.takes = IF live THEN "both" ELSE "backlog"]
  <2>1. UNCHANGED <<run, order, busy, sequence, thread, journal>>
    BY DEF Subscribe
  <2>2. /\ watchers' = [watchers EXCEPT ![r] = IF live THEN @ \cup {s} ELSE @]
        /\ stream' = [stream EXCEPT ![s] = u]
    BY <1>1, <1>3 DEF Subscribe, StreamsTyped
  <2>3. /\ u \in StreamRecord /\ u.at = "replaying" /\ u.run = r /\ u.seen = <<>>
        /\ u.takes = (IF live THEN "both" ELSE "backlog") /\ u.backlog = run[r].events
        /\ u.channel = t.channel
    BY <1>1, <1>2 DEF StreamRecord
  <2>4. watchers' = watchers \/ watchers' = [watchers EXCEPT ![r] = @ \cup {s}]
    BY <2>2 DEF StreamsTyped
  <2> HIDE DEF u
  <2>5. stream'[s] = u /\ StreamsTyped' /\ Alone(s)
    BY <1>1, <2>1, <2>2, <2>3, <2>4, SetStream
  <2>6. run[r].status # "none" /\ run[r].events # <<>>
    BY <1>1, <1>3 DEF LogsKept
  <2>7. t.channel = <<>>
    BY <1>1
  <2>8. Joined(u, run[r].events)
    BY <2>3, <2>7, <1>2, LenProperties, EmptySeq DEF Joined
  <2>9. Fed(s)'
    <3>1. live => \A i \in 1 .. Len(u.seen) + Len(u.backlog) : ~ Finishes(run[r].events[i])
      <4>1. Len(u.seen) + Len(u.backlog) = Len(run[r].events)
            /\ DOMAIN run[r].events = 1 .. Len(run[r].events)
        BY <1>2, <2>3, LenProperties, EmptySeq
      <4>2. live => ~ Ended(r)
        BY DEF Ended
      <4> QED BY <4>1, <4>2, <1>1 DEF LogsKept
    <3>2. live => s \in watchers'[r]
      BY <1>1, <2>2 DEF StreamsTyped
    <3>3. ~ live => Ended(r)
      BY <1>2, <2>6 DEF Ended
    <3> QED BY <1>1, <2>1, <2>3, <2>5, <2>6, <2>7, <2>8, <3>1, <3>2, <3>3 DEF Fed, FedBy, Ended
  <2>10. \A q \in Run : s \in watchers'[q] => q = r /\ live
    BY <1>1, <2>2 DEF Feeding, StreamsTyped
  <2>11. FeedInv'
    BY <2>3, <2>5, <2>9, <2>10, AloneFeeds
  <2>12. /\ FeedLog' = FeedLog
         /\ FeedSeen' = [FeedSeen EXCEPT ![s] = u.seen]
         /\ FeedReading' = [FeedReading EXCEPT ![s] =
              IF u.takes # "nothing" THEN u.run ELSE Nothing]
         /\ FeedReader' = [FeedReader EXCEPT ![s] = ShownAs(u)]
    BY <2>5, <2>11, AloneShown
  <2>13. /\ FeedReader[s] = "idle" /\ FeedLog[r] # <<>> /\ ShownAs(u) = "reading"
         /\ FeedSeen' = FeedSeen
    <3>1. FeedSeen[s] = <<>>
      BY <1>1 DEF FeedSeen
    <3>2. FeedSeen' = FeedSeen
      BY <2>3, <2>12, <3>1, Unchanged DEF FeedSeen
    <3>3. FeedReader[s] = "idle"
      BY <1>1, ReaderIsShown DEF ShownAs
    <3>4. ShownAs(u) = "reading"
      BY <2>3 DEF ShownAs
    <3> QED BY <1>1, <2>6, <3>2, <3>3, <3>4 DEF FeedLog
  <2>14. FeedReading' = [FeedReading EXCEPT ![s] = r]
    BY <2>3, <2>12
  <2> QED BY <1>1, <2>11, <2>12, <2>13, <2>14 DEF Shown, Feed!Attach
<1>4. CASE ~ Known(r)
  <2> DEFINE u == [t EXCEPT !.at = "refused"]
  <2>1. /\ stream' = [stream EXCEPT ![s] = u] /\ watchers' = watchers
        /\ UNCHANGED <<run, order, busy, sequence, thread, journal>>
    BY <1>1, <1>4 DEF Subscribe, Goto, StreamsTyped
  <2>2. u \in StreamRecord /\ u.at = "refused" /\ u.takes = "nothing" /\ u.seen = <<>>
        /\ u.channel = <<>>
    BY <1>1 DEF StreamRecord
  <2> HIDE DEF u
  <2>3. FeedInv' /\ Feed!Leave(s)
    BY <1>1, <2>1, <2>2, LeaveShown
  <2> QED BY <2>3 DEF Shown
<1> QED BY <1>3, <1>4

\* What a generator that reads does with the closing event.
Closing(log, ended) ==
  \A i \in DOMAIN log : Finishes(log[i]) <=> ended /\ i = Len(log)

Reads(t, u) ==
  \/ t.at = "replaying" /\ FromBacklog(t, u) /\ u.at = "replaying"
  \/ /\ t.at = "following" /\ FromChannel(t, u)
     /\ u.at = IF Finishes(Head(t.channel)) THEN "complete" ELSE "following"

\* A stream that reads the next event of the log it is fed from has not read
\* the closing one, and stays fed from it.
LEMMA ReadsOn ==
  ASSUME NEW t \in StreamRecord, NEW u \in StreamRecord, NEW log \in Seq(Event),
         NEW ended \in BOOLEAN, FedBy(t, log, ended), Closing(log, ended),
         u.takes = t.takes, Reads(t, u)
  PROVE  LET event == log[Len(t.seen) + 1] IN
         /\ FedBy(u, log, ended)
         /\ Len(t.seen) < Len(log) /\ u.seen = Append(t.seen, event)
         /\ u.seen # <<>> /\ Last(u.seen) = event
         /\ u.at = "complete" => Finishes(event)
         /\ ~ (t.seen # <<>> /\ Finishes(Last(t.seen)))
<1>1. /\ t.seen \in Seq(Event) /\ t.backlog \in Seq(Event) /\ t.channel \in Seq(Event)
      /\ u.seen \in Seq(Event) /\ u.backlog \in Seq(Event) /\ u.channel \in Seq(Event)
  BY DEF StreamRecord
<1>2. PICK a \in Nat, b \in Nat, c \in Nat, n \in Nat :
        a = Len(t.seen) /\ b = Len(t.backlog) /\ c = Len(t.channel) /\ n = Len(log)
  BY <1>1, LenProperties
<1> DEFINE event == log[a + 1]
<1>3. /\ Joined(t, log) /\ t.takes # "nothing" /\ log # <<>>
      /\ DOMAIN log = 1 .. n
  BY <1>2, LenProperties DEF FedBy
<1>4. FromBacklog(t, u) \/ FromChannel(t, u)
  BY DEF Reads
<1>5. /\ Joined(u, log) /\ a < n /\ Len(u.seen) = a + 1 /\ u.seen = Append(t.seen, event)
      /\ Last(u.seen) = event /\ u.seen # <<>>
  BY <1>2, <1>3, <1>4, NextSeen
<1>6. a + 1 \in 1 .. n
  <2>1. a < n
    BY <1>5
  <2> QED BY <2>1
<1>7. t.at = "following" => Head(t.channel) = event
  <2> SUFFICES ASSUME t.at = "following" PROVE Head(t.channel) = event
    OBVIOUS
  <2>1. FromChannel(t, u)
    BY DEF Reads
  <2>2. Head(t.channel) \in Event
    BY <2>1, <1>1, HeadTailProperties DEF FromChannel
  <2>3. event \in Event
    BY <1>3, <1>6, ElementOfSeq
  <2>4. Append(t.seen, Head(t.channel)) = Append(t.seen, event)
    BY <2>1, <1>5 DEF FromChannel
  <2> HIDE DEF event
  <2> QED BY <1>1, <2>2, <2>3, <2>4, AppendInjective
<1> HIDE DEF event
<1>8. u.at = "complete" <=> t.at = "following" /\ Finishes(event)
  BY <1>7 DEF Reads
<1>9. u.at = "complete" => u.backlog = <<>> /\ u.channel = <<>> /\ ended
  <2> SUFFICES ASSUME u.at = "complete" PROVE u.backlog = <<>> /\ u.channel = <<>> /\ ended
    OBVIOUS
  <2>1. u.backlog = <<>>
    BY <1>8 DEF Reads, FromChannel
  <2>2. Finishes(event)
    BY <1>8
  <2>3. ended /\ a + 1 = n
    BY <2>2, <1>2, <1>3, <1>6 DEF Closing, event
  <2>4. PICK d \in Nat : d = Len(u.channel)
    BY <1>1, LenProperties
  <2>5. (a + 1) + 0 + d = n
    BY <2>1, <2>4, <1>2, <1>5, EmptySeq DEF Joined
  <2>6. d = 0
    BY <2>3, <2>5
  <2> QED BY <1>1, <2>1, <2>3, <2>4, <2>6, EmptySeq
<1>10. u.takes = "backlog" => u.channel = <<>> /\ ended /\ u.at # "following"
  <2>1. t.takes = "backlog" => t.channel = <<>> /\ ended /\ t.at # "following"
    BY DEF FedBy
  <2> QED BY <2>1 DEF Reads, FromBacklog
<1>11. u.at = "following" => u.backlog = <<>>
  BY DEF Reads, FromChannel
<1>12. u.takes = "both" /\ u.at # "complete" =>
         \A i \in 1 .. Len(u.seen) + Len(u.backlog) : ~ Finishes(log[i])
  <2> SUFFICES ASSUME t.takes = "both", u.at # "complete"
               PROVE  \A i \in 1 .. Len(u.seen) + Len(u.backlog) : ~ Finishes(log[i])
    OBVIOUS
  <2>1. \A i \in 1 .. a + b : ~ Finishes(log[i])
    <3>1. t.at # "complete"
      BY DEF Reads
    <3> QED BY <3>1, <1>2 DEF FedBy
  <2>2. CASE t.at = "replaying"
    <3>1. t.backlog # <<>> /\ u.backlog = Tail(t.backlog)
      BY <2>2 DEF Reads, FromBacklog
    <3>2. Len(u.backlog) = b - 1
      BY <3>1, <1>1, <1>2, HeadTailProperties
    <3>3. (a + 1) + (b - 1) = a + b
      OBVIOUS
    <3> QED BY <2>1, <3>2, <3>3, <1>5
  <2>3. CASE t.at = "following"
    <3>1. t.backlog = <<>> /\ u.backlog = <<>>
      BY <2>3 DEF Reads, FromChannel
    <3>2. b = 0 /\ Len(u.backlog) = 0
      BY <3>1, <1>2, EmptySeq
    <3>3. ~ Finishes(event)
      BY <1>8, <2>3
    <3>4. \A i \in 1 .. (a + 1) + 0 : i \in 1 .. a + 0 \/ i = a + 1
      OBVIOUS
    <3> QED BY <2>1, <3>2, <3>3, <3>4, <1>5 DEF event
  <2> QED BY <2>2, <2>3 DEF Reads
<1>13. FedBy(u, log, ended)
  BY <1>3, <1>5, <1>9, <1>10, <1>11, <1>12 DEF FedBy
<1>14. ~ (t.seen # <<>> /\ Finishes(Last(t.seen)))
  <2> SUFFICES ASSUME t.seen # <<>> PROVE ~ Finishes(Last(t.seen))
    OBVIOUS
  <2>1. a # 0
    BY <1>1, <1>2, EmptySeq
  <2>2. a < n
    BY <1>5
  <2>3. a \in 1 .. a /\ a \in 1 .. n /\ a # n
    BY <2>1, <2>2
  <2>4. t.seen[a] = log[a]
    BY <2>3, <1>2, <1>3 DEF Joined
  <2>5. ~ Finishes(log[a])
    BY <2>3, <1>2, <1>3 DEF Closing
  <2> QED BY <2>4, <2>5, <1>2 DEF Last
<1> QED BY <1>2, <1>5, <1>8, <1>13, <1>14 DEF event

\* The next event of a generator is the next event of the log.
LEMMA ReadShown ==
  ASSUME FeedInv, NEW s \in Stream, NEW u \in StreamRecord, NEW r \in Run, r = stream[s].run,
         stream' = [stream EXCEPT ![s] = u], UNCHANGED <<run, order, busy, sequence, thread, journal>>,
         watchers' = IF u.at = "complete" THEN [watchers EXCEPT ![r] = @ \ {s}] ELSE watchers,
         u.run = r, u.takes = stream[s].takes, Reads(stream[s], u)
  PROVE  FeedInv' /\ Feed!Read(s)
<1> DEFINE t == stream[s]
           log == run[r].events
           event == log[Len(t.seen) + 1]
<1>1. t.at \in {"replaying", "following"} /\ u.at \in {"replaying", "following", "complete"}
  BY DEF Reads
<1>2. t \in StreamRecord /\ Fed(s)
  BY <1>1 DEF FeedInv, StreamsTyped, Feeding
<1>3. FedBy(t, log, Ended(r)) /\ log \in Seq(Event) /\ Closing(log, Ended(r)) /\ t.takes # "nothing"
  BY <1>2 DEF FeedInv, Fed, FedBy, Inv, StoreTyped, RunRecord, LogsKept, Closing
<1>4. /\ FedBy(u, log, Ended(r))
      /\ Len(t.seen) < Len(log) /\ u.seen = Append(t.seen, event)
      /\ u.seen # <<>> /\ Last(u.seen) = event
      /\ u.at = "complete" => Finishes(event)
      /\ ~ (t.seen # <<>> /\ Finishes(Last(t.seen)))
  <2>1. Ended(r) \in BOOLEAN
    BY DEF Ended
  <2> HIDE DEF log
  <2> QED BY <1>2, <1>3, <2>1, ReadsOn
<1>5. stream'[s] = u /\ StreamsTyped' /\ Alone(s)
  <2>1. \/ watchers' = watchers
        \/ watchers' = [watchers EXCEPT ![r] = @ \ {s}]
    OBVIOUS
  <2> QED BY <2>1, SetStream
<1>6. Fed(s)'
  <2>1. u.takes = "both" /\ u.at # "complete" /\ ~ Ended(r) => s \in watchers'[r]
    BY <1>1, <1>2 DEF Fed
  <2>2. run' = run /\ Ended(r)' = Ended(r)
    BY DEF Ended
  <2> QED BY <1>4, <1>5, <2>1, <2>2 DEF Fed
<1>7. \A q \in Run : s \in watchers'[q] =>
        u.run = q /\ u.takes = "both" /\ u.at \in {"replaying", "following"}
  <2>1. \A q \in Run : s \in watchers'[q] => s \in watchers[q] /\ (q = r => u.at # "complete")
    BY DEF FeedInv, StreamsTyped
  <2>2. \A q \in Run : s \in watchers[q] => q = r /\ t.takes = "both"
    BY DEF FeedInv, Feeding
  <2> QED BY <1>1, <2>1, <2>2
<1>8. FeedInv'
  BY <1>1, <1>5, <1>6, <1>7, AloneFeeds
<1>9. /\ FeedLog' = FeedLog
      /\ FeedSeen' = [FeedSeen EXCEPT ![s] = Append(t.seen, event)]
      /\ FeedReading' = FeedReading
      /\ FeedReader' = [FeedReader EXCEPT ![s] = ShownAs(u)]
  <2>1. /\ FeedLog' = FeedLog
        /\ FeedSeen' = [FeedSeen EXCEPT ![s] = u.seen]
        /\ FeedReading' = [FeedReading EXCEPT ![s] =
             IF u.takes # "nothing" THEN u.run ELSE Nothing]
        /\ FeedReader' = [FeedReader EXCEPT ![s] = ShownAs(u)]
    BY <1>5, <1>8, AloneShown DEF FeedInv
  <2>2. FeedReading[s] = r
    BY <1>3 DEF FeedReading, Attached
  <2>3. FeedReading' = FeedReading
    BY <1>3, <2>1, <2>2, Unchanged DEF FeedReading
  <2> QED BY <1>4, <2>1, <2>3
<1>10. FeedReader[s] = "reading"
  BY <1>1, <1>4, ReaderIsShown DEF ShownAs
<1>11. ShownAs(u) = IF Finishes(event) THEN "complete" ELSE FeedReader[s]
  BY <1>1, <1>4, <1>10 DEF ShownAs
<1>12. FeedSeen[s] = t.seen /\ FeedReading[s] = r /\ FeedLog[r] = log
  BY <1>3 DEF FeedSeen, FeedReading, FeedLog, Attached
<1>13. /\ Len(FeedSeen[s]) < Len(FeedLog[FeedReading[s]])
       /\ FeedLog[FeedReading[s]][Len(FeedSeen[s]) + 1] = event
       /\ FeedSeen' = [FeedSeen EXCEPT ![s] = Append(@, event)]
  BY <1>4, <1>9, <1>12
<1> HIDE DEF event, log, t
<1>14. Feed!Read(s)
  BY <1>9, <1>10, <1>11, <1>13 DEF Feed!Read, Finishes
<1> QED BY <1>8, <1>14

\* The generator plays its backlog, and then follows or is over.
LEMMA ReplayShown ==
  ASSUME FeedInv, NEW s \in Stream, Replay(s)
  PROVE  FeedInv' /\ Shown(s)
<1> USE DEF FeedInv
<1> DEFINE t == stream[s]
           r == stream[s].run
<1>1. /\ t \in StreamRecord /\ t.at = "replaying" /\ Fed(s) /\ r \in Run
      /\ t.takes \in {"both", "backlog"} /\ t.backlog \in Seq(Event) /\ t.seen \in Seq(Event)
      /\ UNCHANGED <<run, order, busy, watchers, sequence, thread, journal>>
  BY DEF Replay, StreamsTyped, Feeding, Fed, FedBy, StreamRecord
<1>2. CASE t.backlog # <<>>
  <2> DEFINE u == [t EXCEPT !.backlog = Tail(@), !.seen = Append(@, Head(t.backlog))]
  <2>1. stream' = [stream EXCEPT ![s] = u]
    BY <1>1, <1>2 DEF Replay, StreamsTyped
  <2>2. Head(t.backlog) \in Event /\ Tail(t.backlog) \in Seq(Event)
    BY <1>1, <1>2, HeadTailProperties
  <2>3. Append(t.seen, Head(t.backlog)) \in Seq(Event)
    BY <1>1, <2>2, AppendProperties
  <2>4. /\ u \in StreamRecord /\ u.at = "replaying" /\ u.run = r /\ u.takes = t.takes
        /\ u.seen = Append(t.seen, Head(t.backlog)) /\ u.backlog = Tail(t.backlog)
        /\ u.channel = t.channel
    BY <1>1, <2>2, <2>3 DEF StreamRecord
  <2> HIDE DEF u
  <2>5. Reads(t, u)
    BY <1>1, <1>2, <2>4 DEF Reads, FromBacklog
  <2>6. FeedInv' /\ Feed!Read(s)
    BY <1>1, <2>1, <2>4, <2>5, ReadShown
  <2> QED BY <2>6 DEF Shown
<1>3. CASE t.backlog = <<>>
  <2> DEFINE u == [t EXCEPT !.at = IF t.takes = "both" THEN "following" ELSE "complete"]
  <2>1. stream' = [stream EXCEPT ![s] = u] /\ watchers' = watchers
    BY <1>1, <1>3 DEF Replay, StreamsTyped
  <2>2. /\ u \in StreamRecord /\ u.run = r /\ u.takes = t.takes /\ u.seen = t.seen
        /\ u.backlog = t.backlog /\ u.channel = t.channel
        /\ u.at = (IF t.takes = "both" THEN "following" ELSE "complete")
    BY <1>1 DEF StreamRecord
  <2> HIDE DEF u
  <2>3. stream'[s] = u /\ StreamsTyped' /\ Alone(s)
    BY <1>1, <2>1, <2>2, SetStream
  <2>4. Fed(s)'
    <3>1. Joined(u, run[r].events)
      BY <1>1, <2>2 DEF Fed, FedBy, Joined
    <3> QED BY <1>1, <1>3, <2>1, <2>2, <2>3, <3>1 DEF Fed, FedBy, Ended
  <2>5. \A q \in Run : s \in watchers'[q] => u.run = q /\ u.takes = "both" /\ u.at = "following"
    BY <2>1, <2>2 DEF Feeding
  <2>6. FeedInv'
    BY <2>2, <2>3, <2>4, <2>5, AloneFeeds
  <2>7. /\ FeedLog' = FeedLog
        /\ FeedSeen' = [FeedSeen EXCEPT ![s] = u.seen]
        /\ FeedReading' = [FeedReading EXCEPT ![s] =
             IF u.takes # "nothing" THEN u.run ELSE Nothing]
        /\ FeedReader' = [FeedReader EXCEPT ![s] = ShownAs(u)]
    BY <2>3, <2>6, AloneShown
  <2>8. FeedSeen[s] = u.seen /\ FeedReading[s] = u.run /\ u.takes # "nothing"
    BY <1>1, <2>2 DEF FeedSeen, FeedReading, Attached
  <2>9. FeedReader[s] = ShownAs(u)
    <3>1. FeedReader[s] = ShownAs(t)
      BY ReaderIsShown
    <3>2. ShownAs(t) = ShownAs(u)
      BY <1>1, <2>2 DEF ShownAs
    <3> QED BY <3>1, <3>2
  <2>10. FeedSeen' = FeedSeen
    BY <2>7, <2>8, Unchanged DEF FeedSeen
  <2>11. FeedReading' = FeedReading
    BY <2>7, <2>8, Unchanged DEF FeedReading
  <2>12. FeedReader' = FeedReader
    BY <2>7, <2>9, Unchanged DEF FeedReader
  <2> QED BY <2>6, <2>7, <2>10, <2>11, <2>12 DEF Shown, feedVars
<1> QED BY <1>2, <1>3

\* The generator takes the next event of its channel.
LEMMA FollowShown ==
  ASSUME FeedInv, NEW s \in Stream, Follow(s)
  PROVE  FeedInv' /\ Shown(s)
<1> USE DEF FeedInv
<1> DEFINE t == stream[s]
           r == stream[s].run
           event == Head(t.channel)
           u == [t EXCEPT !.channel = Tail(@), !.seen = Append(@, event),
                          !.at = IF Finishes(event) THEN "complete" ELSE @]
<1>1. /\ t \in StreamRecord /\ t.at = "following" /\ Fed(s) /\ r \in Run /\ t.channel # <<>>
      /\ t.channel \in Seq(Event) /\ t.seen \in Seq(Event)
      /\ UNCHANGED <<run, order, busy, sequence, thread, journal>>
  BY DEF Follow, StreamsTyped, Feeding, Fed, FedBy, StreamRecord
<1>2. /\ stream' = [stream EXCEPT ![s] = u]
      /\ watchers' = IF Finishes(event) THEN [watchers EXCEPT ![r] = @ \ {s}] ELSE watchers
  BY <1>1 DEF Follow, Unsubscribed, Finishes, StreamsTyped
<1>3. event \in Event /\ Tail(t.channel) \in Seq(Event)
  BY <1>1, HeadTailProperties
<1>4. Append(t.seen, event) \in Seq(Event)
  BY <1>1, <1>3, AppendProperties
<1>5. /\ u \in StreamRecord /\ u.run = r /\ u.takes = t.takes /\ u.seen = Append(t.seen, event)
      /\ u.backlog = t.backlog /\ u.channel = Tail(t.channel)
      /\ u.at = (IF Finishes(event) THEN "complete" ELSE "following")
  BY <1>1, <1>3, <1>4 DEF StreamRecord
<1> HIDE DEF u
<1>6. Reads(t, u)
  BY <1>1, <1>5 DEF Reads, FromChannel, Fed, FedBy
<1>7. watchers' = IF u.at = "complete" THEN [watchers EXCEPT ![r] = @ \ {s}] ELSE watchers
  BY <1>2, <1>5
<1>8. FeedInv' /\ Feed!Read(s)
  BY <1>1, <1>2, <1>5, <1>6, <1>7, ReadShown
<1> QED BY <1>8 DEF Shown

\* A browser leaves, but not from within its backlog.
LEMMA LeavingShown ==
  ASSUME FeedInv, NEW s \in Stream, Leave(s), "leaves_replaying" \notin Faults
  PROVE  FeedInv' /\ Shown(s)
<1> USE DEF FeedInv
<1> DEFINE u == [Idle EXCEPT !.at = "left"]
           r == stream[s].run
<1>1. stream[s].at \in {"opened", "following"}
  BY DEF Leave, Fault
<1>2. r \in Run
  BY <1>1 DEF Feeding, Fed, FedBy
<1>3. /\ stream' = [stream EXCEPT ![s] = u]
      /\ UNCHANGED <<run, order, busy, sequence, thread, journal>>
  BY DEF Leave
<1>4. \/ watchers' = watchers /\ stream[s].at = "opened"
      \/ watchers' = [watchers EXCEPT ![r] = @ \ {s}]
  BY <1>1 DEF Leave, Unsubscribed
<1>5. /\ u \in StreamRecord /\ u.at = "left" /\ u.takes = "nothing" /\ u.seen = <<>>
      /\ u.channel = <<>>
  <2>1. <<>> \in Seq(Event)
    BY EmptySeq
  <2> QED BY <2>1 DEF Idle, StreamRecord
<1> HIDE DEF u
<1>6. FeedInv' /\ Feed!Leave(s)
  BY <1>1, <1>2, <1>3, <1>4, <1>5, LeaveShown
<1> QED BY <1>6 DEF Shown

-----------------------------------------------------------------------------
(* The refinement                                                           *)

\* Nothing is said and nobody reads before the console has been asked.
LEMMA FeedInit == Init => FeedInv /\ Feed!Init
<1> SUFFICES ASSUME Init PROVE FeedInv /\ Feed!Init
  OBVIOUS
<1>1. Inv
  BY StoreInit
<1>2. StreamsTyped /\ LogsKept /\ Feeding
  <2>1. <<>> \in Seq(Event)
    BY EmptySeq
  <2>2. StreamsTyped
    BY <2>1 DEF Init, StreamsTyped, StreamRecord, Idle
  <2>3. LogsKept
    BY DEF Init, LogsKept, Known, Blank, Ended
  <2>4. Feeding
    BY DEF Init, Feeding, Idle
  <2> QED BY <2>2, <2>3, <2>4
<1>3. Feed!Init
  <2>1. FeedLog = [r \in Run |-> <<>>] /\ FeedReading = [s \in Stream |-> Nothing]
        /\ FeedSeen = [s \in Stream |-> <<>>]
    BY DEF Init, FeedLog, FeedReading, FeedSeen, Attached, Blank, Idle
  <2>2. \A s \in Stream : FeedReader[s] = "idle"
    BY <1>1, <1>2, ReaderIsShown DEF FeedInv, Init, Idle, ShownAs
  <2>3. FeedReader = [s \in Stream |-> FeedReader[s]]
    BY DEF FeedReader
  <2> QED BY <2>1, <2>2, <2>3 DEF Feed!Init
<1> QED BY <1>1, <1>2, <1>3 DEF FeedInv

\* A step that touches neither runs nor browsers.
LEMMA QuietStep ==
  ASSUME FeedInv, Inv', UNCHANGED <<run, order, watchers, stream>>
  PROVE  FeedInv' /\ UNCHANGED feedVars
<1>1. StreamsTyped' /\ LogsKept'
  BY DEF FeedInv, StreamsTyped, LogsKept, Known, Ended
<1>2. Feeding'
  <2>1. \A s \in Stream : Fed(s)' <=> Fed(s)
    BY DEF Fed, Ended
  <2> QED BY <2>1 DEF FeedInv, Feeding
<1>3. UNCHANGED feedVars
  BY DEF feedVars, FeedLog, FeedReading, FeedSeen, FeedReader, Attached, Subscribed, SeenAll,
     ReaderAt
<1> QED BY <1>1, <1>2, <1>3 DEF FeedInv

\* Whatever the console does keeps the invariant, and is a step of EventFeed or
\* none.
LEMMA FeedStep ==
  ASSUME "leaves_replaying" \notin Faults
  PROVE  FeedInv /\ [Next]_storeVars => FeedInv' /\ [Feed!Next]_feedVars
<1> SUFFICES ASSUME FeedInv, [Next]_storeVars
             PROVE  FeedInv' /\ [Feed!Next]_feedVars
  OBVIOUS
<1>1. Inv'
  BY StepKeeps DEF FeedInv
<1>2. ASSUME NEW r \in Run, Announces(r)
      PROVE  FeedInv' /\ [Feed!Next]_feedVars
  <2>1. FeedInv'
    BY <1>1, <1>2, AnnounceLogs, AnnounceFeeds DEF FeedInv
  <2>2. Feed!Say(r)
    BY <1>2, <2>1, AnnounceSays
  <2> QED BY <2>1, <2>2 DEF Feed!Next
<1>3. ASSUME NEW s \in Stream, FeedInv' /\ Shown(s)
      PROVE  FeedInv' /\ [Feed!Next]_feedVars
  BY <1>3 DEF Shown, Feed!Next
<1>4. ASSUME UNCHANGED <<run, order, watchers, stream>>
      PROVE  FeedInv' /\ [Feed!Next]_feedVars
  BY <1>1, <1>4, QuietStep
<1>5. CASE \E h \in Host, mutating \in BOOLEAN : Start(h, mutating)
  BY <1>2, <1>5, StartAnnounces
<1>6. CASE \E r \in Run : ThreadNext(r)
  <2>1. PICK r \in Run : ThreadNext(r)
    BY <1>6
  <2>2. CASE StartThread(r) \/ WorkReturns(r) \/ ReportRaises(r)
    BY <1>4, <2>2 DEF StartThread, WorkReturns, ReportRaises
  <2>3. CASE Completes(r) \/ WorkRaises(r)
    BY <1>2, <2>3, FinishAnnounces
  <2>4. CASE \E name \in PhaseName : Begin(r, name) \/ Record(r, name)
    BY <1>2, <2>4, ReportAnnounces
  <2> QED BY <2>1, <2>2, <2>3, <2>4 DEF ThreadNext
<1>7. CASE \E s \in Stream : Open(s) \/ StreamNext(s) \/ Leave(s)
  <2>1. PICK s \in Stream : Open(s) \/ StreamNext(s) \/ Leave(s)
    BY <1>7
  <2>2. FeedInv' /\ Shown(s)
    BY <2>1, OpenShown, SubscribeShown, ReplayShown, FollowShown, LeavingShown DEF StreamNext
  <2> QED BY <1>3, <2>2
<1>8. CASE UNCHANGED storeVars
  BY <1>4, <1>8 DEF storeVars
<1> QED BY <1>5, <1>6, <1>7, <1>8 DEF Next

\* As long as no browser leaves while its backlog is being replayed, what the
\* browsers are shown is EventFeed: every log grows by one event at a time and
\* ends with the closing one, every browser reads its run's log from the
\* beginning, in order, each event once, and is complete only with the closing
\* event (runs.py:239), for any number of runs, Hosts, browsers and events.
THEOREM FeedImplemented ==
  ASSUME "leaves_replaying" \notin Faults
  PROVE  Spec => FeedKept
<1>1. Init => FeedInv /\ Feed!Init
  BY FeedInit
<1>2. FeedInv /\ [Next]_storeVars => FeedInv' /\ [Feed!Next]_feedVars
  BY FeedStep
<1> QED BY <1>1, <1>2, PTL DEF Spec, FeedKept, Feed!Spec, feedVars
=============================================================================
