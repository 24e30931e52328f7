------------------------------ MODULE RunStore ------------------------------
(***************************************************************************)
(* The runs of the local console (console/runs.py): one lock, a claim per   *)
(* Host for runs that mutate it, an event log per run, the browsers that    *)
(* replay and follow it, and a bounded memory of finished runs.  A run      *)
(* works on a thread of its own and reports through progress.Journal.       *)
(*                                                                         *)
(* Everything the code does inside one `with self._lock` is one action.     *)
(* What it does outside (starting the thread, building the report, yielding *)
(* the backlog) is an action of its own.                                    *)
(***************************************************************************)
EXTENDS Naturals, Sequences, FiniteSets, SequencesExt, Functions

CONSTANTS
  Host,         \* the Hosts of the registry
  Stream,       \* the browsers that follow a run
  PhaseName,    \* the phases an operation may announce
  MaxRuns,      \* bound: requests the console accepts
  MaxEvents,    \* bound: requests and announcements of all runs
  Retain,       \* the runs the store remembers
  Nothing,      \* no run
  Faults        \* the faults of this instance

ASSUME StoreAssumption ==
  /\ MaxRuns \in Nat /\ Retain \in Nat \ {0}
  /\ MaxEvents \in Nat
  /\ Nothing \notin Nat

Run == 1 .. MaxRuns

VARIABLES
  run,          \* the Run objects, also those the store has forgotten
  order,        \* _order: the runs the store knows; a run's number is its age
  busy,         \* _busy: the mutating run of each Host
  watchers,     \* _watchers: the streams subscribed to each run
  sequence,     \* _sequence
  thread,       \* where the thread of each run is
  journal,      \* progress.Journal of each run: what its report will say
  stream        \* each browser's generator

storeVars == <<run, order, busy, watchers, sequence, thread, journal, stream>>

Fault(f) == f \in Faults

\* Bound on what is asked and announced; the closing events come on top.
MayHappen ==
  sequence - Cardinality({r \in Run : run[r].status \in {"completed", "failed"}}) < MaxEvents

Known(r) == r \in order

\* A Run before it exists, and a generator before it is asked for.
Blank == [status |-> "none", host |-> Nothing, mutating |-> FALSE,
          phases |-> <<>>, events |-> <<>>]
Idle == [at |-> "idle", run |-> Nothing, takes |-> "nothing", backlog |-> <<>>,
         channel |-> <<>>, seen |-> <<>>]

Init ==
  /\ run = [r \in Run |-> Blank]
  /\ order = {}
  /\ busy = [h \in Host |-> Nothing]
  /\ watchers = [r \in Run |-> {}]
  /\ sequence = 0
  /\ thread = [r \in Run |-> "none"]
  /\ journal = [r \in Run |-> <<>>]
  /\ stream = [s \in Stream |-> Idle]

-----------------------------------------------------------------------------
\* Inside the lock.

\* _publish: record an event of a run with the phases it moved within, and
\* hand it to everyone watching.
Publish(r, kind, record) ==
  LET event == [seq |-> sequence + 1, kind |-> kind,
                phases |-> [i \in DOMAIN record.phases |-> record.phases[i].status]] IN
  /\ sequence' = sequence + 1
  /\ run' = [run EXCEPT ![r] = [record EXCEPT !.events = Append(@, event)]]
  /\ stream' = [s \in Stream |->
       IF s \in watchers[r] THEN [stream[s] EXCEPT !.channel = Append(@, event)]
       ELSE stream[s]]

\* What is left of the runs once those that ended before r are forgotten.
Ended(r) == run[r].status \in {"completed", "failed"}
Outlasting(r, runs) == runs \ {q \in runs : Ended(q) /\ q < r}

\* Mutant: one run comes, so one run goes.
ForgetOne(runs) ==
  {r \in runs : Ended(r) /\ Cardinality(runs) > Retain /\ Outlasting(r, runs) = runs}

\* _prune: as long as too many are known, the oldest run that has ended goes.
\* Runs that go on outgrow the memory, and many may have to go at once later.
Forgotten(runs) == {r \in runs : Ended(r) /\ Cardinality(Outlasting(r, runs)) > Retain}

\* start: claim the Host if the run mutates it; a busy Host is a 409.
Start(h, mutating) ==
  \E r \in Run :
    /\ MayHappen
    /\ run[r].status = "none" /\ \A q \in Run : q < r => run[q].status # "none"
    /\ ~(mutating /\ busy[h] # Nothing)
    /\ LET gone == Forgotten(order \cup {r}) IN
         /\ order' = (order \cup {r}) \ gone
         /\ watchers' = [q \in Run |-> IF q \in gone THEN {} ELSE watchers[q]]
    /\ busy' = [busy EXCEPT ![h] = IF mutating THEN r ELSE @]
    /\ Publish(r, "run.started",
               [Blank EXCEPT !.status = "running", !.host = h, !.mutating = mutating])
    /\ thread' = [thread EXCEPT ![r] = "starting"]
    /\ UNCHANGED journal

\* _phase_began: phases are sequential, so a phase that starts is also the
\* completion of the one before.
Settled(phases, status) ==
  [i \in DOMAIN phases |->
     IF phases[i].status = "running" THEN [phases[i] EXCEPT !.status = status] ELSE phases[i]]

PhaseBegan(r, name) ==
  /\ Publish(r, "phase.began",
       [run[r] EXCEPT !.phases = Append(Settled(@, "done"), [name |-> name, status |-> "running"])])
  /\ UNCHANGED <<order, busy, watchers>>

\* _phase_recorded: the latest running phase of that name, or one that never
\* announced its start.
PhaseRecorded(r, name) ==
  LET open == {i \in DOMAIN run[r].phases : run[r].phases[i] = [name |-> name, status |-> "running"]}
      done == [name |-> name, status |-> "done"] IN
  /\ Publish(r, "phase.recorded",
       [run[r] EXCEPT !.phases =
          IF open = {} THEN Append(@, done)
          ELSE [@ EXCEPT ![CHOOSE i \in open : \A j \in open : j <= i] = done]])
  /\ UNCHANGED <<order, busy, watchers>>

\* _finish: settle what was running, release the Host if it is this run's,
\* and close the log.
\* Mutant: what was running stays as it was.
SettleNothing(phases, status) == phases

Settle(phases, status) == Settled(phases, IF status = "failed" THEN "failed" ELSE "done")

\* Mutant: only a run that completes frees its Host.
ReleaseCompleted(r) ==
  [h \in Host |-> IF busy[h] = r /\ thread[r] = "reporting" THEN Nothing ELSE busy[h]]

\* Mutant: whoever finishes on a Host frees it.
ReleaseHostOf(r) == [busy EXCEPT ![run[r].host] = Nothing]

Release(r) == [h \in Host |-> IF busy[h] = r THEN Nothing ELSE busy[h]]

Finish(r, status) ==
  /\ busy' = Release(r)
  /\ Publish(r, "run.finished",
       [run[r] EXCEPT !.status = status, !.phases = Settle(@, status)])
  /\ UNCHANGED <<order, watchers>>

-----------------------------------------------------------------------------
\* The thread of a run.

\* thread.start, after the lock is released; a process out of threads raises.
StartThread(r) ==
  /\ thread[r] = "starting"
  /\ \/ thread' = [thread EXCEPT ![r] = "working"]
     \/ Fault("no_thread") /\ thread' = [thread EXCEPT ![r] = "ended"]
  /\ UNCHANGED <<run, order, busy, watchers, sequence, journal, stream>>

Reports(r) == thread[r] = "working" /\ MayHappen

\* Journal.begin and Journal.append, as the operation calls them.
Begin(r, name) ==
  /\ Reports(r)
  /\ PhaseBegan(r, name)
  /\ UNCHANGED <<thread, journal>>

Record(r, name) ==
  /\ Reports(r)
  /\ journal' = [journal EXCEPT ![r] = Append(@, name)]
  /\ PhaseRecorded(r, name)
  /\ UNCHANGED thread

\* The work returns evidence, and the report is built from it outside the
\* try; a report that cannot be built ends the thread and nothing else.
WorkReturns(r) ==
  /\ thread[r] = "working"
  /\ thread' = [thread EXCEPT ![r] = "reporting"]
  /\ UNCHANGED <<run, order, busy, watchers, sequence, journal, stream>>

ReportRaises(r) ==
  /\ Fault("report_raises")
  /\ thread[r] = "reporting"
  /\ thread' = [thread EXCEPT ![r] = "ended"]
  /\ UNCHANGED <<run, order, busy, watchers, sequence, journal, stream>>

Completes(r) ==
  /\ thread[r] = "reporting"
  /\ Finish(r, "completed")
  /\ thread' = [thread EXCEPT ![r] = "ended"]
  /\ UNCHANGED journal

\* A failed run is a result.
WorkRaises(r) ==
  /\ thread[r] = "working"
  /\ Finish(r, "failed")
  /\ thread' = [thread EXCEPT ![r] = "ended"]
  /\ UNCHANGED journal

-----------------------------------------------------------------------------
\* The generator behind one browser.

Goto(s, at) == stream' = [stream EXCEPT ![s].at = at]

\* run_events refuses an unknown run before it opens a stream.
Open(s) ==
  /\ stream[s].at = "idle"
  /\ \E r \in Run :
        /\ Known(r)
        /\ stream' = [stream EXCEPT ![s].at = "opened", ![s].run = r]
  /\ UNCHANGED <<run, order, busy, watchers, sequence, thread, journal>>

\* Mutant: the subscription comes first, and the backlog holds what it got.
SubscribeTwice(s) ==
  LET r == stream[s].run IN
  /\ stream[s].at = "opened"
  /\ stream' = [stream EXCEPT ![s].at = "replaying", ![s].backlog = run[r].events,
                              ![s].takes = "both", ![s].channel = <<Last(run[r].events)>>]
  /\ watchers' = [watchers EXCEPT ![r] = @ \cup {s}]
  /\ UNCHANGED <<run, order, busy, sequence, thread, journal>>

\* The backlog and the subscription are taken under one lock; a run pruned
\* since the stream was opened is refused here.
Subscribe(s) ==
  LET r == stream[s].run IN
  /\ stream[s].at = "opened"
  /\ IF Known(r)
     THEN LET live == run[r].status = "running" IN
          /\ stream' = [stream EXCEPT ![s].at = "replaying", ![s].backlog = run[r].events,
                                      ![s].takes = IF live THEN "both" ELSE "backlog"]
          /\ watchers' = [watchers EXCEPT ![r] = IF live THEN @ \cup {s} ELSE @]
     ELSE Goto(s, "refused") /\ UNCHANGED watchers
  /\ UNCHANGED <<run, order, busy, sequence, thread, journal>>

\* `yield from backlog`; then a stream without a channel is over, whatever
\* the last event was.
Replay(s) ==
  /\ stream[s].at = "replaying"
  /\ IF stream[s].backlog # <<>>
     THEN stream' = [stream EXCEPT ![s].backlog = Tail(@),
                                   ![s].seen = Append(@, Head(stream[s].backlog))]
     ELSE stream' = [stream EXCEPT ![s].at =
            IF stream[s].takes = "both" THEN "following" ELSE "complete"]
  /\ UNCHANGED <<run, order, busy, watchers, sequence, thread, journal>>

Unsubscribed(s) == [watchers EXCEPT ![stream[s].run] = @ \ {s}]

\* The next event of the channel; the terminal one ends the stream.  A
\* keepalive changes nothing.
Follow(s) ==
  /\ stream[s].at = "following" /\ stream[s].channel # <<>>
  /\ LET event == Head(stream[s].channel)
         over == event.kind = "run.finished" IN
       /\ stream' = [stream EXCEPT ![s].channel = Tail(@), ![s].seen = Append(@, event),
                                   ![s].at = IF over THEN "complete" ELSE @]
       /\ watchers' = IF over THEN Unsubscribed(s) ELSE watchers
  /\ UNCHANGED <<run, order, busy, sequence, thread, journal>>

\* The browser leaves.  The subscription is undone in the finally block,
\* which a generator suspended in the backlog has not reached.
Leave(s) ==
  /\ stream[s].at \in {"opened", "replaying", "following"}
  /\ stream[s].at = "replaying" => Fault("leaves_replaying")
  /\ stream' = [stream EXCEPT ![s] = [Idle EXCEPT !.at = "left"]]
  /\ watchers' = IF stream[s].at = "following" THEN Unsubscribed(s) ELSE watchers
  /\ UNCHANGED <<run, order, busy, sequence, thread, journal>>

-----------------------------------------------------------------------------
ThreadNext(r) ==
  \/ StartThread(r) \/ WorkReturns(r) \/ ReportRaises(r) \/ Completes(r) \/ WorkRaises(r)
  \/ \E name \in PhaseName : Begin(r, name) \/ Record(r, name)

StreamNext(s) == Subscribe(s) \/ Replay(s) \/ Follow(s)

Next ==
  \/ \E h \in Host, mutating \in BOOLEAN : Start(h, mutating)
  \/ \E r \in Run : ThreadNext(r)
  \/ \E s \in Stream : Open(s) \/ StreamNext(s) \/ Leave(s)

Spec == Init /\ [][Next]_storeVars

\* A thread runs, every operation ends, and a browser that stays is served.
FairSpec ==
  /\ Spec
  /\ \A r \in Run : WF_storeVars(ThreadNext(r))
  /\ \A s \in Stream : WF_storeVars(StreamNext(s))
-----------------------------------------------------------------------------
\* Properties.

\* One boundary action at a time (runs.py:211): the claim of a Host is held by
\* exactly the mutating run that is running on it, and the store still knows
\* that run when it has to name it in a refusal, whatever finishes, fails or
\* is forgotten meanwhile.
OneActionPerHost ==
  \A h \in Host : \A r \in Run :
    (busy[h] = r) <=> (run[r].status = "running" /\ run[r].mutating /\ run[r].host = h /\ Known(r))

\* What a finished run is shown as: no phase is left running, a failed run
\* shows a failed phase only where it stopped, and every phase its report
\* holds evidence for is shown done.
FinishedIsSettled ==
  \A r \in Run : run[r].status \in {"completed", "failed"} =>
    LET shown == ToSet(run[r].phases) IN
      /\ \A p \in shown : p.status # "running" /\ (p.status = "failed" => run[r].status = "failed")
      /\ Cardinality({i \in DOMAIN run[r].phases : run[r].phases[i].status = "failed"}) <= 1
      /\ \A i \in DOMAIN journal[r] : [name |-> journal[r][i], status |-> "done"] \in shown

\* The memory of the store (runs.py:407).  It outgrows what it retains only while
\* runs that go on fill it, however many ended since the last request; what is
\* forgotten had ended, before any ended run that is still shown, and no earlier
\* than its place was needed.
MemoryKept ==
  [][LET gone == order \ order' IN
     /\ order' # order /\ Cardinality(order') > Retain => \A r \in order' : ~ Ended(r)'
     /\ \A r \in gone : Ended(r) /\ \A q \in order' : Ended(q) => r < q
     /\ gone # {} => Cardinality(order') >= Retain]_storeVars

\* Replay and live events together are the run's log, each event once, in
\* order and without a gap, and a stream ends with the closing event even when
\* the run is forgotten under it (runs.py:239).  A subscription costs memory for
\* every event of its run: whoever holds one still reads.
Attached(s) == stream[s].takes # "nothing"
Subscribed(s) == \E r \in Run : s \in watchers[r]
SeenAll(s) == stream[s].seen # <<>> /\ Last(stream[s].seen).kind = "run.finished"
Finishes(event) == event.kind = "run.finished"
ReaderAt(s) ==
  CASE stream[s].at \in {"idle", "opened"} -> "idle"
    [] stream[s].at \in {"replaying", "following"} -> "reading"
    [] stream[s].at \in {"left", "refused"} -> "left"
    [] OTHER -> "complete"
FeedLog == [r \in Run |-> run[r].events]
FeedReading == [s \in Stream |-> IF Attached(s) THEN stream[s].run ELSE Nothing]
FeedSeen == [s \in Stream |-> stream[s].seen]
FeedReader == [s \in Stream |->
  IF Subscribed(s) THEN "reading" ELSE IF SeenAll(s) THEN "complete" ELSE ReaderAt(s)]
Feed == INSTANCE EventFeed WITH
  Reader <- Stream, Closes <- Finishes, log <- FeedLog, reading <- FeedReading,
  seen <- FeedSeen, reader <- FeedReader
FeedKept == Feed!Spec

\* A browser that stays sees its run to the end, and a Host comes free again;
\* both, unless the run lost its thread before it was started or while its
\* report was built, which nothing notices (runs.py:232, runs.py:291).
Lost(r) == r \in Run /\ run[r].status = "running" /\ thread[r] = "ended"
StreamsEnd ==
  /\ \A s \in Stream : stream[s].at = "opened" ~>
       \/ stream[s].at \in {"complete", "left", "refused"}
       \/ Lost(stream[s].run)
  /\ \A h \in Host : busy[h] # Nothing ~> busy[h] = Nothing \/ Lost(busy[h])
=============================================================================
