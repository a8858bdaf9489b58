-------------------------- MODULE TransportManager --------------------------
(***************************************************************************)
(* The transport manager of internal/transport/manager.go: WebSocket       *)
(* first, and a switch to polling, for good, once the WebSocket looks      *)
(* unusable or unstable.                                                   *)
(*                                                                         *)
(* The two backends run as the specifications they implement, TransportLink*)
(* and PollLink.  Each call to the primary is a step: EverConnected and    *)
(* LastError are two, and cancelWS a third.  Times are ages: Window is     *)
(* wsFlapWindow, and an age grows at every tick of the 1 Hz monitor.       *)
(***************************************************************************)
EXTENDS Naturals, Sequences, FiniteSets

CONSTANTS
  Window,     \* wsFlapWindow, in ticks
  Threshold,  \* wsFlapThreshold
  MaxStride,  \* most ticks that pass between two receptions from the ticker
  MaxUps      \* bound: times the primary's connection comes up

ASSUME ManagerAssumption ==
  /\ Window \in Nat \ {0} /\ Threshold \in Nat \ {0} /\ MaxUps \in Nat
  /\ MaxStride \in Nat \ {0}

VARIABLES
  ctxDone,       \* the ctx given to Run is cancelled
  pc,            \* where Run is
  wsCancelled,   \* wsCtx is cancelled
  active,        \* m.active
  mode,          \* m.mode
  deadline,      \* the upgrade-deadline timer is running
  wasConnected,  \* the last sample of primary.IsConnected
  drops,         \* disconnectTimes, as ages: no two receptions share a tick
  up, everUp, err, wsRunning,  \* the primary
  stage, pollUp,               \* the fallback
  ups,           \* times the primary came up
  falls,         \* history: ages of the falls of the primary's connection
  reason         \* history: why Run gave up on the primary

runVars == <<pc, wsCancelled, active, mode, reason>>
watchVars == <<deadline, wasConnected, drops>>
wsVars == <<up, everUp, err, wsRunning>>
pollVars == <<stage, pollUp>>
seenVars == <<ups, falls>>
vars == <<ctxDone, runVars, watchVars, wsVars, pollVars, seenVars>>

Primary == INSTANCE TransportLink
             WITH None <- "none", Errs <- {"plain", "tunnel"},
                  running <- wsRunning, cancelled <- wsCancelled
Fallback == INSTANCE PollLink WITH up <- pollUp, cancelled <- ctxDone

\* Ages saturate where nothing tells them apart any more.
Aged(age, d) == IF age + d < Window + MaxStride THEN age + d ELSE Window + MaxStride
Ages == 0..Window + MaxStride

\* Drops outside the window are trimmed.
\* Mutant: none is.
AllDrops(ages) == ages
Recent(ages) == {age \in ages : age < Window}
Condemned(ages) == Cardinality(ages) >= Threshold
IsTunnelIncompat == err = "tunnel"

Init ==
  /\ ctxDone = FALSE
  /\ pc = "select" /\ wsCancelled = FALSE
  /\ active = "ws" /\ mode = "ws" /\ reason = "none"
  /\ deadline = TRUE /\ wasConnected = FALSE /\ drops = {}
  /\ up = FALSE /\ everUp = FALSE /\ err = "none" /\ wsRunning = TRUE
  /\ stage = "off" /\ pollUp = FALSE
  /\ ups = 0 /\ falls = <<>>

-----------------------------------------------------------------------------
(* The select of Run.                                                      *)

\* <-ctx.Done(): cancelWS, and wait for the primary to return.
SeesCancel ==
  /\ pc = "select" /\ ctxDone
  /\ pc' = "stopping" /\ wsCancelled' = TRUE
  /\ UNCHANGED <<ctxDone, active, mode, reason, watchVars, wsVars,
                 pollVars, seenVars>>

\* Mutant: a break that leaves the select and not the loop.
StopBreaks ==
  /\ pc = "stopping" /\ ~wsRunning
  /\ pc' = "select"
  /\ UNCHANGED <<ctxDone, wsCancelled, active, mode, reason, watchVars, wsVars,
                 pollVars, seenVars>>
StopJoined ==
  /\ pc = "stopping" /\ ~wsRunning
  /\ pc' = "returned"
  /\ UNCHANGED <<ctxDone, wsCancelled, active, mode, reason, watchVars, wsVars,
                 pollVars, seenVars>>

\* <-wsDone: return if cancelled, else fall back.
SeesReturn ==
  /\ pc = "select" /\ ~wsRunning
  /\ IF ctxDone THEN pc' = "returned" /\ UNCHANGED reason
                ELSE pc' = "switch" /\ reason' = "exited"
  /\ UNCHANGED <<ctxDone, wsCancelled, active, mode, watchVars, wsVars, pollVars,
                 seenVars>>

\* <-deadline.C with EverConnected false: LastError is asked next.
DeadlineFires ==
  /\ pc = "select" /\ deadline
  /\ deadline' = FALSE
  /\ pc' = IF everUp THEN "select" ELSE "diagnose"
  /\ UNCHANGED <<ctxDone, wsCancelled, active, mode, reason, wasConnected, drops,
                 wsVars, pollVars, seenVars>>

\* <-check.C: the same question, before and after the deadline; a primary that
\* got through stops the deadline timer.
CheckTicks ==
  /\ pc = "select"
  /\ pc' = IF everUp THEN "select" ELSE "diagnose"
  /\ deadline' = (deadline /\ ~everUp)
  /\ UNCHANGED <<ctxDone, wsCancelled, active, mode, reason, wasConnected, drops,
                 wsVars, pollVars, seenVars>>

Diagnose ==
  /\ pc = "diagnose"
  /\ pc' = IF IsTunnelIncompat THEN "tunnel" ELSE "select"
  /\ UNCHANGED <<ctxDone, wsCancelled, active, mode, reason, watchVars, wsVars,
                 pollVars, seenVars>>

\* <-stabilityTicker.C: a fall since the last sample is a drop; Threshold
\* drops within Window condemn the primary.
StabilityTicks ==
  /\ pc = "select"
  /\ wasConnected' = up
  /\ \E d \in 1..MaxStride :
       LET older == {Aged(age, d) : age \in drops} IN
       /\ falls' = [i \in DOMAIN falls |-> Aged(falls[i], d)]
       /\ drops' = IF wasConnected /\ ~up THEN Recent(older \cup {0}) ELSE older
  /\ pc' = IF wasConnected /\ ~up /\ Condemned(drops')
           THEN "flap" ELSE "select"
  /\ UNCHANGED <<ctxDone, wsCancelled, active, mode, reason, deadline, wsVars,
                 pollVars, ups>>

\* cancelWS, and then wait for the primary to return.
GiveUpOnWS ==
  /\ pc \in {"tunnel", "flap"}
  /\ reason' = pc
  /\ pc' = "joining" /\ wsCancelled' = TRUE
  /\ UNCHANGED <<ctxDone, active, mode, watchVars, wsVars, pollVars, seenVars>>

\* Mutant: the fallback starts at once.
JoinSkipped ==
  /\ pc = "joining" /\ pc' = "switch"
  /\ UNCHANGED <<ctxDone, wsCancelled, active, mode, reason, watchVars, wsVars,
                 pollVars, seenVars>>
Joined ==
  /\ pc = "joining" /\ ~wsRunning
  /\ pc' = "switch"
  /\ UNCHANGED <<ctxDone, wsCancelled, active, mode, reason, watchVars, wsVars,
                 pollVars, seenVars>>

-----------------------------------------------------------------------------
(* runFallback.                                                            *)

\* Mutants: the mode is announced first; there is no fallback.
SwitchModeFirst ==
  /\ pc = "switch"
  /\ pc' = "store" /\ mode' = "poll"
  /\ UNCHANGED <<ctxDone, wsCancelled, active, reason, watchVars, wsVars, pollVars,
                 seenVars>>
SwitchToNil ==
  /\ pc = "switch"
  /\ pc' = "store" /\ active' = "nil"
  /\ UNCHANGED <<ctxDone, wsCancelled, mode, reason, watchVars, wsVars, pollVars,
                 seenVars>>
SwitchActive ==
  /\ pc = "switch"
  /\ pc' = "store" /\ active' = "poll"
  /\ UNCHANGED <<ctxDone, wsCancelled, mode, reason, watchVars, wsVars, pollVars,
                 seenVars>>

\* The mode is stored after m.mu is released; fallback.Run is called.
StoreMode ==
  /\ pc = "store"
  /\ pc' = "polling" /\ mode' = "poll"
  /\ Fallback!Start
  /\ UNCHANGED <<wsCancelled, active, reason, watchVars, wsVars, seenVars>>

\* Run returns what fallback.Run returned.
FallbackReturned ==
  /\ pc = "polling" /\ stage = "returned"
  /\ pc' = "returned"
  /\ UNCHANGED <<ctxDone, wsCancelled, active, mode, reason, watchVars, wsVars,
                 pollVars, seenVars>>

-----------------------------------------------------------------------------
(* The backends, and the caller of Run.                                    *)

PrimaryMoves ==
  /\ Primary!Raise \/ Primary!Authenticate \/ Primary!Fail \/ Primary!Lower
  /\ ~up /\ up' => ups < MaxUps
  /\ ups' = IF ~up /\ up' THEN ups + 1 ELSE ups
  /\ falls' = IF up /\ ~up' THEN Append(falls, 0) ELSE falls
  /\ UNCHANGED <<ctxDone, runVars, watchVars, pollVars>>

PrimaryReturns ==
  /\ Primary!Return
  /\ falls' = IF up THEN Append(falls, 0) ELSE falls
  /\ UNCHANGED <<ctxDone, runVars, watchVars, pollVars, ups>>

FallbackMoves ==
  /\ Fallback!Connect \/ Fallback!Raise \/ Fallback!Lower
  /\ UNCHANGED <<runVars, watchVars, wsVars, seenVars>>

FallbackReturns ==
  /\ Fallback!GiveUp \/ Fallback!Return
  /\ UNCHANGED <<runVars, watchVars, wsVars, seenVars>>

CancelCtx ==
  /\ ~ctxDone /\ ctxDone' = TRUE /\ wsCancelled' = TRUE
  /\ UNCHANGED <<pc, active, mode, reason, watchVars, wsVars, pollVars, seenVars>>

\* Run has returned, and so has every goroutine it started.
Stopped ==
  /\ pc = "returned"
  /\ UNCHANGED vars

RunStep ==
  \/ SeesCancel \/ StopJoined \/ SeesReturn \/ DeadlineFires \/ CheckTicks
  \/ Diagnose \/ StabilityTicks \/ GiveUpOnWS \/ Joined
  \/ SwitchActive \/ StoreMode \/ FallbackReturned

Next ==
  \/ RunStep
  \/ PrimaryMoves \/ PrimaryReturns \/ FallbackMoves \/ FallbackReturns
  \/ CancelCtx \/ Stopped

Spec == Init /\ [][Next]_vars

(***************************************************************************)
(* Fairness.  Run is never descheduled for ever, and Go's select chooses   *)
(* among ready cases at random, so a case that keeps being ready is taken: *)
(* strong fairness on the ones that end the watch.  Both backends return   *)
(* once cancelled (StopsOnCancel of WsClient and of PollClient).           *)
(***************************************************************************)
Fairness ==
  /\ WF_vars(RunStep)
  /\ SF_vars(SeesCancel) /\ SF_vars(CheckTicks)
  /\ WF_vars(PrimaryReturns)
  /\ WF_vars(ctxDone /\ FallbackReturns)

FairSpec == Spec /\ Fairness

-----------------------------------------------------------------------------
TypeOK ==
  /\ ctxDone \in BOOLEAN /\ wsCancelled \in BOOLEAN
  /\ pc \in {"select", "stopping", "diagnose", "tunnel", "flap", "joining",
             "switch", "store", "polling", "returned"}
  /\ active \in {"ws", "poll"} /\ mode \in {"ws", "poll"}
  /\ reason \in {"none", "exited", "tunnel", "flap"}
  /\ deadline \in BOOLEAN /\ wasConnected \in BOOLEAN
  /\ drops \subseteq Ages /\ falls \in Seq(Ages)
  /\ up \in BOOLEAN /\ everUp \in BOOLEAN /\ wsRunning \in BOOLEAN
  /\ err \in {"none", "plain", "tunnel"}
  /\ stage \in {"off", "connecting", "serving", "returned"} /\ pollUp \in BOOLEAN
  /\ ups \in 0..MaxUps

\* The agent never talks to the panel over both transports at once: the
\* fallback runs only after the primary's Run has returned, and what Send
\* reaches (m.active) is never a fallback with the primary still up behind it
\* (manager.go:196-198, 250-252: cancelWS and <-wsDone before runFallback).
OneTransport ==
  stage # "off" \/ active = "poll" \/ mode = "poll" => ~wsRunning /\ ~up

\* The inductive form: what each place of Run says of the two transports.
ManagerInv ==
  /\ TypeOK
  /\ OneTransport
  /\ up => wsRunning
  /\ pc \in {"switch", "store", "polling"} => ~wsRunning
  /\ active = "poll" => pc \in {"store", "polling", "returned"}
  /\ pc \in {"store", "polling"} => active = "poll"
  /\ mode = "poll" => active = "poll" /\ pc # "store"
  /\ stage # "off" => active = "poll"
  /\ stage # "serving" => ~pollUp

\* "Once we've fallen back to polling, we stay there until the process
\* restarts" (manager.go:31-35): neither the active transport nor the mode it
\* is announced under goes back, and the announced mode never runs ahead.
FallbackIsSticky ==
  [][/\ active = "poll" => active' = "poll"
     /\ mode' = "poll" => active = "poll"
     /\ ~wsRunning => ~wsRunning']_vars

\* A fallback for instability is earned: at least Threshold connections really
\* fell, all of them within the window (give or take the sampling period), so a
\* drop is neither counted twice nor kept beyond its time (manager.go:225-255).
FlapsAreReal ==
  reason = "flap" =>
    Cardinality({i \in DOMAIN falls : falls[i] < Window + MaxStride}) >= Threshold

\* While Run still watches, the window holds fewer drops than condemn a link:
\* the third drop within the window is never slept through.
DropsBelowThreshold ==
  pc \in {"select", "diagnose"} =>
    Cardinality({age \in drops : age < Window}) < Threshold

\* The detector condemns a flapping primary as soon as it is one, and no other.
DropsCounted == FlapsAreReal /\ DropsBelowThreshold

\* Cancelling ctx ends Run, whatever it waits for.
StopsOnCancel == ctxDone ~> pc = "returned"

\* A primary that has never been up and keeps failing with a tunnel signature
\* is given up for polling: Run does not stay with it for ever.
TunnelIsLeft ==
  <>[](IsTunnelIncompat /\ ~everUp) => <>(active = "poll" \/ ctxDone)

\* The manager gets out of every wait for one of its transports.
RunProceeds == StopsOnCancel /\ TunnelIsLeft

=============================================================================
