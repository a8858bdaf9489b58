------------------------------ MODULE EventLog ------------------------------
(***************************************************************************)
(* The activity log (internal/events/store.go), the sampler's ring beside  *)
(* it (agent/sampler.go), and a console that polls the log over IPC.       *)
(*                                                                         *)
(* Append holds the mutex while it numbers, stamps and keeps the event,    *)
(* and rewrites the whole file by way of a temporary one.  What fails in   *)
(* that is ignored: the file may stay behind memory, and a start takes the *)
(* file for the truth.                                                     *)
(***************************************************************************)
EXTENDS Naturals, Sequences

CONSTANTS
  Capacity,   \* events, or samples, a ring holds
  MaxEvents,  \* bound: events, and samples, recorded
  MaxTime,    \* bound: the clock, in milliseconds
  Corrupt     \* a file that does not parse

ASSUME LogAssumption ==
  {Capacity, MaxEvents, MaxTime} \subseteq Nat \ {0}

VARIABLES
  evUp,    \* the process runs
  log,     \* Store.events
  nextID,
  logFile, \* external: events.json, or Corrupt
  samples, \* metricSampler.samples, numbered
  taken,   \* history: samples taken in this life
  clock,   \* external: the wall clock; one that is set back is left out
  since,   \* external: the time of the newest event the console has
  told,    \* history: serial numbers of the events the console was sent
  passed,  \* history: those recorded in the millisecond "since" names, and
           \* those pushed out of a full ring
  serial   \* history: events recorded, over all lives

consoleVars == <<since, told>>
logVars == <<evUp, log, nextID, logFile, samples, taken, clock, consoleVars,
             passed, serial>>

Events == [id : 1..MaxEvents, t : 0..MaxTime, n : 1..MaxEvents]

LogTypeOK ==
  /\ evUp \in BOOLEAN
  /\ log \in Seq(Events) /\ Len(log) <= Capacity
  /\ nextID \in 0..MaxEvents
  /\ logFile # Corrupt => logFile \in Seq(Events) /\ Len(logFile) <= Capacity
  /\ samples \in Seq(1..MaxEvents) /\ taken \in 0..MaxEvents
  /\ clock \in 0..MaxTime /\ since \in 0..MaxTime
  /\ (told \cup passed) \subseteq 1..MaxEvents /\ serial \in 0..MaxEvents

LogInit ==
  /\ evUp = TRUE /\ log = <<>> /\ nextID = 0 /\ logFile = <<>>
  /\ samples = <<>> /\ taken = 0 /\ clock = 1 /\ since = 0 /\ told = {}
  /\ passed = {} /\ serial = 0

\* A full ring gives up its oldest entry.
Pushed(ring, entry) ==
  Append(IF Len(ring) >= Capacity THEN Tail(ring) ELSE ring, entry)

\* Mutant: the event is stamped before the mutex is taken.
StampsBefore == {clock - 1, clock}

\* The times an event recorded now may be stamped with: the mutex is held.
Stamps == {clock}

\* saveLocked, which may fail and never says so.
Record ==
  /\ evUp /\ serial < MaxEvents
  /\ serial' = serial + 1 /\ nextID' = nextID + 1
  /\ \E t \in Stamps :
       /\ log' = Pushed(log, [id |-> nextID + 1, t |-> t, n |-> serial + 1])
       /\ passed' = passed \cup {n \in {serial + 1} : t = since}
                          \cup {n \in {log[i].n : i \in DOMAIN log} :
                                 n \notin {log'[i].n : i \in DOMAIN log'}}
  /\ logFile' \in {log', logFile}
  /\ UNCHANGED <<evUp, samples, taken, clock, consoleVars>>

\* samplerLoop; a collection that fails leaves a gap and no sample.
Sample ==
  /\ evUp /\ taken < MaxEvents
  /\ taken' = taken + 1 /\ samples' = Pushed(samples, taken + 1)
  /\ UNCHANGED <<evUp, log, nextID, logFile, clock, consoleVars, passed, serial>>

\* HandleEvents, Snapshot: what is newer than the time asked for.
Snapshot(t) == {i \in DOMAIN log : log[i].t > t}

\* External: the console polls as HandleEvents says it should.
Poll ==
  /\ evUp
  /\ told' = told \cup {log[i].n : i \in Snapshot(since)}
  /\ \E last \in Snapshot(since) :
       /\ \A i \in Snapshot(since) : i <= last
       /\ since' = log[last].t
  /\ UNCHANGED <<evUp, log, nextID, logFile, samples, taken, clock, passed, serial>>

Tick ==
  /\ clock < MaxTime /\ clock' = clock + 1
  /\ UNCHANGED <<evUp, log, nextID, logFile, samples, taken, consoleVars, passed,
                 serial>>

\* External: the process ends, or the machine does.  Nothing is synced: the
\* renamed file may come back empty.
Die ==
  /\ evUp /\ evUp' = FALSE
  /\ log' = <<>> /\ nextID' = 0 /\ samples' = <<>> /\ taken' = 0
  /\ logFile' \in {logFile, Corrupt}
  /\ UNCHANGED <<clock, consoleVars, passed, serial>>

\* NewStore, load: a file that does not parse is ignored.
Load ==
  /\ ~evUp /\ evUp' = TRUE
  /\ log' = IF logFile = Corrupt THEN <<>> ELSE logFile
  /\ nextID' = IF log' = <<>> THEN 0 ELSE log'[Len(log')].id
  /\ UNCHANGED <<logFile, samples, taken, clock, consoleVars, passed, serial>>

LogNext == Record \/ Sample \/ Poll \/ Tick \/ Die \/ Load

LogSpec == LogInit /\ [][LogNext]_logVars

-----------------------------------------------------------------------------
\* Both rings hold the newest of what was recorded and nothing else, without
\* a hole, through evictions, lost saves and restarts: an event's number says
\* how many came before it.
RingsHoldNewest ==
  /\ Len(log) <= Capacity /\ Len(samples) <= Capacity
  /\ \A i \in 1 .. Len(log) - 1 : log[i + 1].id = log[i].id + 1
  /\ log # <<>> => log[Len(log)].id = nextID
  /\ \A i \in 1 .. Len(samples) - 1 : samples[i + 1] = samples[i] + 1
  /\ samples # <<>> => samples[Len(samples)] = taken

\* A console that asks for what is newer than the newest event it has misses
\* none of the log but those recorded in that very millisecond; unless one had
\* left the ring and a restart brought it back.
PollMissesOnlyTies ==
  \A i \in DOMAIN log : log[i].t <= since => log[i].n \in told \cup passed

\* The inductive form.  The file's events are of the log, or have left it;
\* serial numbers tell events apart over all lives.
Whole(events) ==
  /\ \A i \in 1 .. Len(events) - 1 : events[i + 1].id = events[i].id + 1
  /\ \A i, j \in DOMAIN events : i < j => events[i].n < events[j].n
  /\ \A i \in DOMAIN events : /\ events[i].n <= serial /\ events[i].id <= serial
                              /\ events[i].t <= clock

LogInv ==
  /\ LogTypeOK /\ RingsHoldNewest /\ PollMissesOnlyTies
  /\ nextID <= serial /\ since <= clock
  /\ Whole(log)
  /\ ~evUp => log = <<>> /\ samples = <<>> /\ taken = 0
  /\ logFile # Corrupt =>
       /\ Whole(logFile)
       /\ \A i \in DOMAIN logFile :
            /\ logFile[i].t <= since => logFile[i].n \in told \cup passed
            /\ evUp => \/ logFile[i].n \in passed
                       \/ \E j \in DOMAIN log : log[j] = logFile[i]
=============================================================================
