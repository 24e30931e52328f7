------------------------------ MODULE EventFeed ------------------------------
(***************************************************************************)
(* What the console promises about the events of its runs: every run has a  *)
(* log that only grows, ends with one closing event, and is read from its   *)
(* beginning by any number of readers, each of which sees every event once  *)
(* and in order.  A reader is complete only when it has seen the closing    *)
(* event; it may also leave.                                                *)
(***************************************************************************)
EXTENDS Sequences, SequencesExt, Naturals

CONSTANTS
  Run,          \* the runs a log is kept for
  Reader,       \* the browsers
  Nothing,      \* the run a reader without one reads
  Closes(_)     \* the events that end a log

VARIABLES
  log,          \* the events of each run
  reading,      \* the run a reader reads
  seen,         \* what a reader has seen
  reader        \* "idle", "reading", "complete" or "left"


\* A log that has been closed.
Closed(r) == log[r] # <<>> /\ Closes(Last(log[r]))

Init ==
  /\ log = [r \in Run |-> <<>>]
  /\ reading = [s \in Reader |-> Nothing]
  /\ seen = [s \in Reader |-> <<>>]
  /\ reader = [s \in Reader |-> "idle"]

\* A run says something more.
Say(r) ==
  /\ ~Closed(r)
  /\ Len(log'[r]) = Len(log[r]) + 1
  /\ IsPrefix(log[r], log'[r])
  /\ \A q \in Run \ {r} : log'[q] = log[q]
  /\ UNCHANGED <<reading, seen, reader>>

\* A reader starts at the beginning.
Attach(s) ==
  /\ reader[s] = "idle"
  /\ \E r \in Run :
        /\ log[r] # <<>>
        /\ reading' = [reading EXCEPT ![s] = r]
  /\ reader' = [reader EXCEPT ![s] = "reading"]
  /\ UNCHANGED <<log, seen>>

\* A reader sees the next event, and is complete with the closing one.
Read(s) ==
  /\ reader[s] = "reading"
  /\ Len(seen[s]) < Len(log[reading[s]])
  /\ LET event == log[reading[s]][Len(seen[s]) + 1] IN
       /\ seen' = [seen EXCEPT ![s] = Append(@, event)]
       /\ reader' = [reader EXCEPT ![s] = IF Closes(event) THEN "complete" ELSE @]
  /\ UNCHANGED <<log, reading>>

Leave(s) ==
  /\ reader[s] # "left"
  /\ reader' = [reader EXCEPT ![s] = "left"]
  /\ reading' = [reading EXCEPT ![s] = Nothing]
  /\ seen' = [seen EXCEPT ![s] = <<>>]
  /\ UNCHANGED log

Next ==
  \/ \E r \in Run : Say(r)
  \/ \E s \in Reader : Attach(s) \/ Read(s) \/ Leave(s)

Spec == Init /\ [][Next]_<<log, reading, seen, reader>>
=============================================================================
