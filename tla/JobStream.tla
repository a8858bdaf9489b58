----------------------------- MODULE JobStream -----------------------------
(***************************************************************************)
(* Jobs, their ring buffers and the registry (internal/jobs/jobs.go), and  *)
(* the replay of handleSubscribe (internal/agent/agent.go) that races with *)
(* the goroutine that pushes a job's events.                               *)
(*                                                                         *)
(* Push is two steps: the event is recorded under j.mu and streamed after  *)
(* the unlock.  Events are numbered per job, as history; the viewer is the *)
(* panel's end of the job's channel, from the moment it subscribes.        *)
(***************************************************************************)
EXTENDS Naturals, Sequences, FiniteSets

CONSTANTS
  Jobs,      \* jobs the agent starts, each by a goroutine of its own
  MaxJobs,   \* maxJobs of the registry (64)
  Cap,       \* cap of a job's ring buffer (64, 200 or 500)
  MaxEvents  \* bound: events a job pushes, the done event included

ASSUME JobsAssumption ==
  /\ IsFiniteSet(Jobs) /\ "none" \notin Jobs
  /\ MaxJobs \in Nat \ {0} /\ Cap \in Nat \ {0} /\ MaxEvents \in Nat \ {0}

VARIABLES
  order,     \* r.order
  jobs,      \* the keys of r.jobs
  ring,      \* per job: j.events
  head,      \* per job: j.head
  full,      \* per job: j.full
  done,      \* per job: j.done is closed
  pushing,   \* per job: the event recorded and not yet streamed, or 0
  reader,    \* handleSubscribe: what is left to replay, or idle
  received,  \* panel: per job, the events that arrived since it subscribed
  watching,  \* panel: jobs it has subscribed to
  lossy,     \* history: a SendStream has failed
  history,   \* history: per job, the events pushed
  started,   \* history: jobs in the order New registered them
  since      \* history: per job, the first event the replay covered

registryVars == <<order, jobs, started>>
bufferVars == <<ring, head, full, history>>
panelVars == <<received, watching, lossy>>
vars == <<registryVars, bufferVars, done, pushing, reader, panelVars, since>>

Idle == [job |-> "none", rest |-> <<>>]
Slots == 0..Cap - 1

\* Replay: the buffered events in chronological order.
\* Mutant: a full ring is read from its first slot.
ReplayUnrotated(j) == [i \in 1..(IF full[j] THEN Cap ELSE head[j]) |-> ring[j][i - 1]]
Segment(f, from, to) == [i \in 1..to - from |-> f[from + i - 1]]
Replay(j) ==
  IF full[j] THEN Segment(ring[j], head[j], Cap) \o Segment(ring[j], 0, head[j])
             ELSE Segment(ring[j], 0, head[j])

Init ==
  /\ order = <<>> /\ jobs = {} /\ started = <<>>
  /\ ring = [j \in Jobs |-> [i \in Slots |-> 0]]
  /\ head = [j \in Jobs |-> 0] /\ full = [j \in Jobs |-> FALSE]
  /\ history = [j \in Jobs |-> <<>>]
  /\ done = [j \in Jobs |-> FALSE] /\ pushing = [j \in Jobs |-> 0]
  /\ reader = Idle
  /\ received = [j \in Jobs |-> <<>>] /\ watching = {} /\ lossy = FALSE
  /\ since = [j \in Jobs |-> 0]

-----------------------------------------------------------------------------
(* The registry and the pushing goroutines.                                *)

Started(j) == \E i \in DOMAIN started : started[i] = j
Newest(s) == IF Len(s) > MaxJobs THEN Tail(s) ELSE s

\* Registry.New: register, and trim the oldest job over capacity.
New(j) ==
  /\ ~Started(j)
  /\ started' = Append(started, j)
  /\ order' = Newest(Append(order, j))
  /\ jobs' = IF Len(order) < MaxJobs THEN jobs \cup {j}
             ELSE (jobs \cup {j}) \ {Head(Append(order, j))}
  /\ UNCHANGED <<bufferVars, done, pushing, reader, panelVars, since>>

Advance(h) == (h + 1) % Cap

\* Push, under j.mu: into the ring.
Record(j) ==
  LET e == Len(history[j]) + 1 IN
  /\ Started(j) /\ ~done[j] /\ pushing[j] = 0 /\ e <= MaxEvents
  /\ ring' = [ring EXCEPT ![j][head[j]] = e]
  /\ head' = [head EXCEPT ![j] = Advance(@)]
  /\ full' = [full EXCEPT ![j] = @ \/ Advance(head[j]) = 0]
  /\ history' = [history EXCEPT ![j] = Append(@, e)]
  /\ pushing' = [pushing EXCEPT ![j] = e]
  /\ \E final \in BOOLEAN :
       /\ e = MaxEvents => final
       /\ done' = [done EXCEPT ![j] = final]
  /\ UNCHANGED <<registryVars, reader, panelVars, since>>

Arrive(j, e, replayed) ==
  received' = IF j \in watching
              THEN [received EXCEPT ![j] = Append(@, [n |-> e, replayed |-> replayed])]
              ELSE received

\* Mutant: a live event is dropped while its job is being replayed.
StreamUnlessReplaying(j) ==
  /\ pushing[j] # 0
  /\ pushing' = [pushing EXCEPT ![j] = 0]
  /\ IF reader.job = j THEN UNCHANGED received ELSE Arrive(j, pushing[j], FALSE)
  /\ UNCHANGED <<registryVars, bufferVars, done, reader, watching, lossy, since>>
\* Push, after the unlock: onto the transport, which may refuse; the callers
\* ignore the error.
Stream(j) ==
  /\ pushing[j] # 0
  /\ pushing' = [pushing EXCEPT ![j] = 0]
  /\ \/ Arrive(j, pushing[j], FALSE) /\ UNCHANGED lossy
     \/ lossy' = TRUE /\ UNCHANGED received
  /\ UNCHANGED <<registryVars, bufferVars, done, reader, watching, since>>

-----------------------------------------------------------------------------
(* A subscription.                                                         *)

\* The panel joins the channel and its request reaches handleSubscribe, which
\* looks the job up and takes a snapshot of its ring.
Subscribe(j) ==
  /\ reader = Idle /\ j \notin watching /\ Started(j)
  /\ watching' = watching \cup {j}
  /\ IF j \in jobs
     THEN /\ reader' = [job |-> j, rest |-> Replay(j)]
          /\ since' = [since EXCEPT ![j] = Len(history[j]) - Len(Replay(j)) + 1]
     ELSE UNCHANGED <<reader, since>>
  /\ UNCHANGED <<registryVars, bufferVars, done, pushing, received, lossy>>

\* One SendStream of the replay; the first failure ends it.
ReplayOne ==
  /\ reader.rest # <<>>
  /\ \/ /\ Arrive(reader.job, Head(reader.rest), TRUE) /\ UNCHANGED lossy
        /\ reader' = [reader EXCEPT !.rest = Tail(@)]
     \/ lossy' = TRUE /\ reader' = Idle /\ UNCHANGED received
  /\ UNCHANGED <<registryVars, bufferVars, done, pushing, watching, since>>

ReplayEnds ==
  /\ reader # Idle /\ reader.rest = <<>>
  /\ reader' = Idle
  /\ UNCHANGED <<registryVars, bufferVars, done, pushing, panelVars, since>>

Quiet ==
  /\ \A j \in Jobs : done[j] /\ pushing[j] = 0
  /\ UNCHANGED vars

Next ==
  \/ \E j \in Jobs : New(j) \/ Record(j) \/ Stream(j) \/ Subscribe(j)
  \/ ReplayOne \/ ReplayEnds \/ Quiet

Spec == Init /\ [][Next]_vars

Fairness ==
  /\ \A j \in Jobs : WF_vars(Record(j)) /\ WF_vars(Stream(j))
  /\ WF_vars(ReplayOne \/ ReplayEnds)

FairSpec == Spec /\ Fairness

-----------------------------------------------------------------------------
Last(s, n) == SubSeq(s, (IF Len(s) > n THEN Len(s) - n ELSE 0) + 1, Len(s))

TypeOK ==
  /\ jobs \subseteq Jobs /\ order \in Seq(Jobs) /\ started \in Seq(Jobs)
  /\ ring \in [Jobs -> [Slots -> 0..MaxEvents]]
  /\ head \in [Jobs -> Slots] /\ full \in [Jobs -> BOOLEAN]
  /\ history \in [Jobs -> Seq(1..MaxEvents)]
  /\ done \in [Jobs -> BOOLEAN] /\ pushing \in [Jobs -> 0..MaxEvents]
  /\ reader \in [job : Jobs \cup {"none"}, rest : Seq(1..MaxEvents)]
  /\ watching \subseteq Jobs /\ lossy \in BOOLEAN
  /\ received \in [Jobs -> Seq([n : 1..MaxEvents, replayed : BOOLEAN])]
  /\ since \in [Jobs -> 0..MaxEvents + 1]

\* Replay returns the last Cap events of the job, all of them if there are
\* fewer, oldest first, through every wrap of the ring (jobs.go:158-192).
ReplayIsSuffix == \A j \in Jobs : Replay(j) = Last(history[j], Cap)

\* The n-th event of a job is event n.
Numbered == \A j \in Jobs : \A n \in DOMAIN history[j] : history[j][n] = n

\* A replay is on its way only to a panel that has subscribed, and covers
\* nothing for one that has not.
WatchInv ==
  /\ reader # Idle => reader.job \in watching
  /\ \A j \in Jobs \ watching : since[j] = 0

BufferInv == TypeOK /\ ReplayIsSuffix /\ Numbered /\ WatchInv

\* The registry holds the MaxJobs newest jobs, and its map and its FIFO agree
\* (jobs.go:125-135).
RegistryKeepsNewest ==
  /\ order = Last(started, MaxJobs)
  /\ jobs = {order[i] : i \in DOMAIN order}

\* Both rings, the registry's of jobs and a job's of events, hold the newest of
\* what went through them, in its order, however often they have wrapped.
NewestIsKept == BufferInv /\ RegistryKeepsNewest

\* A panel that subscribes to a job the registry still knows misses nothing
\* from the oldest buffered event on, although events are pushed while the
\* buffer is being replayed: unless a send failed, each one has arrived, is
\* still to be replayed, or is about to be streamed (jobs.go:158-175,
\* agent.go:1066-1078).
NoGap ==
  lossy \/ \A j \in watching : \A n \in DOMAIN history[j] :
    since[j] \in 1..n =>
      \/ \E i \in DOMAIN received[j] : received[j][i].n = n
      \/ reader.job = j /\ \E i \in DOMAIN reader.rest : reader.rest[i] = n
      \/ pushing[j] = n

\* Nothing is told out of turn: what is replayed arrives in the order of the
\* job's events, and so does what is streamed, none of it twice, although a
\* live event may overtake the replay (jobs.go:158-175, agent.go:1066-1078).
InTurn(told) ==
  \A i, k \in DOMAIN told :
    i < k /\ told[i].replayed = told[k].replayed => told[i].n < told[k].n
InOrder == \A j \in Jobs : InTurn(received[j])

\* What the proof needs: what is left to replay comes after what has been
\* replayed, and the event about to be streamed after all that were.
JobInOrder(j) ==
  /\ j \notin watching => received[j] = <<>>
  /\ pushing[j] # 0 => pushing[j] = Len(history[j])
  /\ \A i \in DOMAIN received[j] :
       IF received[j][i].replayed
       THEN reader.job = j =>
              \A k \in DOMAIN reader.rest : received[j][i].n < reader.rest[k]
       ELSE /\ received[j][i].n <= Len(history[j])
            /\ pushing[j] # 0 => received[j][i].n < pushing[j]
  /\ InTurn(received[j])
OrderInv ==
  /\ \A i, k \in DOMAIN reader.rest : i < k => reader.rest[i] < reader.rest[k]
  /\ \A j \in Jobs : JobInOrder(j)

\* A panel that subscribes late is told what one that was there from the start
\* was told, less what the ring has lost, each part in order.
LateViewerTold == NoGap /\ InOrder

\* Such a panel learns that the job is over.
DoneArrives ==
  \A j \in Jobs :
    since[j] # 0 ~>
      \/ lossy
      \/ \E i \in DOMAIN received[j] : done[j] /\ received[j][i].n = Len(history[j])

=============================================================================
