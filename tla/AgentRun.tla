------------------------------ MODULE AgentRun ------------------------------
(***************************************************************************)
(* A life of the agent's process, and the next (Run, cleanup, Restart and  *)
(* the subscriptions of internal/agent/agent.go; the IPC server's Start    *)
(* and Stop, internal/ipc/server.go).                                      *)
(*                                                                         *)
(* Run starts the IPC server and the loops, waits for a signal or a        *)
(* restart request, and cleans up in a fixed order while the transport     *)
(* still delivers messages.  Two steps of cleanup wait for a mutex         *)
(* somebody else may hold for long: closing the terminals, for a Write of  *)
(* a session whose program does not read; closing the transport, for a     *)
(* write on a stalled connection.  Who starts the process again is         *)
(* external.                                                               *)
(***************************************************************************)
EXTENDS Naturals

CONSTANTS
  Streams, \* goroutines of subscriptions that may run at once
  NoStream

ASSUME RunAssumption == NoStream \notin Streams

\* One channel that streams, and one of a job: events are pushed to that.
Channels == {"metrics", "job"}

VARIABLES
  phase,      \* how far Run has come; "off" when there is no process
  supervised, \* external: the process is started again when it exits
  wanted,     \* external: an administrator wants it to run
  signalled,  \* Run's context is cancelled
  restartCh,  \* a restart request is waiting
  ipcUp,      \* the IPC server answers
  linkUp,     \* the transport delivers messages
  subs,       \* subscriptions: a channel's stream; "ended" is one whose
              \* goroutine has returned
  stream,     \* the channel of each stream that runs, or "none"
  cancelled,  \* streams whose context is cancelled
  terminals,  \* "none", "open", or "stuck": a Write holds a session's mutex
  writer      \* "idle", or "stalled": a write holds the connection's

runVars == <<phase, supervised, wanted, signalled, restartCh, ipcUp, linkUp,
             subs, stream, cancelled, terminals, writer>>
hostSide == <<supervised, wanted>>
subVars == <<subs, stream, cancelled>>

Cleanup == {"drain", "subs", "terms", "ipc", "close"}

RunTypeOK ==
  /\ phase \in {"off", "start", "serve", "run"} \cup Cleanup
  /\ {supervised, wanted, signalled, restartCh, ipcUp, linkUp} \subseteq BOOLEAN
  /\ subs \in [Channels -> Streams \cup {NoStream, "ended"}]
  /\ stream \in [Streams -> Channels \cup {"none"}]
  /\ cancelled \subseteq Streams
  /\ terminals \in {"none", "open", "stuck"}
  /\ writer \in {"idle", "stalled"}

NoProcess ==
  /\ phase' = "off" /\ signalled' = FALSE /\ restartCh' = FALSE
  /\ ipcUp' = FALSE /\ linkUp' = FALSE
  /\ subs' = [c \in Channels |-> NoStream]
  /\ stream' = [s \in Streams |-> "none"] /\ cancelled' = {}
  /\ terminals' = "none" /\ writer' = "idle"

RunInit ==
  /\ phase = "off" /\ supervised \in BOOLEAN /\ wanted = TRUE
  /\ signalled = FALSE /\ restartCh = FALSE /\ ipcUp = FALSE /\ linkUp = FALSE
  /\ subs = [c \in Channels |-> NoStream]
  /\ stream = [s \in Streams |-> "none"] /\ cancelled = {}
  /\ terminals = "none" /\ writer = "idle"

-----------------------------------------------------------------------------
(* Coming up.                                                              *)

\* External: the supervisor, or an administrator.
Boot ==
  /\ phase = "off" /\ phase' = "start" /\ wanted' = TRUE
  /\ UNCHANGED <<supervised, signalled, restartCh, ipcUp, linkUp, subVars,
                 terminals, writer>>

\* ipc.Start; the agent runs on without IPC when it fails.
StartIpc ==
  /\ phase = "start" /\ phase' = "serve" /\ ipcUp' \in BOOLEAN
  /\ UNCHANGED <<hostSide, signalled, restartCh, linkUp, subVars, terminals,
                 writer>>

StartLoops ==
  /\ phase = "serve" /\ phase' = "run" /\ linkUp' = ~signalled
  /\ UNCHANGED <<hostSide, signalled, restartCh, ipcUp, subVars, terminals,
                 writer>>

-----------------------------------------------------------------------------
(* While it runs.                                                          *)

\* Restart: over IPC, or when the agent has updated itself.  A request that
\* finds one waiting is refused.
AskRestart ==
  /\ ipcUp \/ phase \in {"run"} \cup Cleanup
  /\ restartCh' = TRUE
  /\ UNCHANGED <<phase, hostSide, signalled, ipcUp, linkUp, subVars, terminals,
                 writer>>

\* External: a signal, to stop or to restart.  It ends the loops, and has a
\* goroutine stop the IPC server.
Signal ==
  /\ phase # "off" /\ ~signalled
  /\ signalled' = TRUE /\ wanted' \in BOOLEAN
  /\ UNCHANGED <<phase, supervised, restartCh, ipcUp, linkUp, subVars,
                 terminals, writer>>

SignalHeard ==
  /\ signalled /\ phase \in {"run"} \cup Cleanup
  /\ \/ ipcUp /\ ipcUp' = FALSE /\ UNCHANGED linkUp
     \/ linkUp /\ linkUp' = FALSE /\ UNCHANGED ipcUp
  /\ UNCHANGED <<phase, hostSide, signalled, restartCh, subVars, terminals,
                 writer>>

\* Mutant: the channel's former stream is forgotten.
Subscribe_Forgets(c) ==
  /\ linkUp
  /\ UNCHANGED cancelled
  /\ IF c = "job"
     THEN /\ subs' = [subs EXCEPT ![c] = "ended"] /\ UNCHANGED stream
     ELSE \E s \in Streams :
            /\ stream[s] = "none"
            /\ stream' = [stream EXCEPT ![s] = c]
            /\ subs' = [subs EXCEPT ![c] = s]
  /\ UNCHANGED <<phase, hostSide, signalled, restartCh, ipcUp, linkUp,
                 terminals, writer>>

\* handleSubscribe.  The goroutine of a job's channel returns at once.
Subscribe(c) ==
  /\ linkUp
  /\ cancelled' = cancelled \cup (Streams \cap {subs[c]})
  /\ IF c = "job"
     THEN /\ subs' = [subs EXCEPT ![c] = "ended"] /\ UNCHANGED stream
     ELSE \E s \in Streams :
            /\ stream[s] = "none"
            /\ stream' = [stream EXCEPT ![s] = c]
            /\ subs' = [subs EXCEPT ![c] = s]
  /\ UNCHANGED <<phase, hostSide, signalled, restartCh, ipcUp, linkUp,
                 terminals, writer>>

\* handleUnsubscribe.
Unsubscribe(c) ==
  /\ linkUp /\ subs[c] # NoStream
  /\ cancelled' = cancelled \cup (Streams \cap {subs[c]})
  /\ subs' = [subs EXCEPT ![c] = NoStream]
  /\ UNCHANGED <<phase, hostSide, signalled, restartCh, ipcUp, linkUp, stream,
                 terminals, writer>>

\* streamMetrics notices that its context is done.
StreamEnds(s) ==
  /\ s \in cancelled
  /\ stream' = [stream EXCEPT ![s] = "none"] /\ cancelled' = cancelled \ {s}
  /\ UNCHANGED <<phase, hostSide, signalled, restartCh, ipcUp, linkUp, subs,
                 terminals, writer>>

\* Sessions open, their programs stop reading or read on; a connection stalls,
\* until TCP gives it up.
TerminalChanges ==
  /\ \/ linkUp /\ terminals = "none" /\ terminals' = "open"
     \/ linkUp /\ terminals = "open" /\ terminals' = "stuck"
     \/ terminals = "stuck" /\ terminals' = "open"
  /\ UNCHANGED <<phase, hostSide, signalled, restartCh, ipcUp, linkUp, subVars,
                 writer>>

WriteStalls ==
  /\ linkUp /\ writer = "idle" /\ writer' = "stalled"
  /\ UNCHANGED <<phase, hostSide, signalled, restartCh, ipcUp, linkUp, subVars,
                 terminals>>

WriteFails ==
  /\ writer = "stalled" /\ writer' = "idle"
  /\ UNCHANGED <<phase, hostSide, signalled, restartCh, ipcUp, linkUp, subVars,
                 terminals>>

-----------------------------------------------------------------------------
(* Going down.                                                             *)

\* Mutant: the request is looked at once the context is done.
Leave_WhenSignalled ==
  /\ phase = "run" /\ phase' = "drain"
  /\ signalled /\ UNCHANGED restartCh
  /\ UNCHANGED <<hostSide, signalled, ipcUp, linkUp, subVars, terminals, writer>>

\* The select of Run, which picks either when both are ready.
Leave ==
  /\ phase = "run" /\ phase' = "drain"
  /\ \/ signalled /\ UNCHANGED restartCh
     \/ restartCh /\ restartCh' = FALSE
  /\ UNCHANGED <<hostSide, signalled, ipcUp, linkUp, subVars, terminals, writer>>

\* The commands are done, or 10 s have passed (see CommandPool).
Drained ==
  /\ phase = "drain" /\ phase' = "subs"
  /\ UNCHANGED <<hostSide, signalled, restartCh, ipcUp, linkUp, subVars,
                 terminals, writer>>

CancelSubscriptions ==
  /\ phase = "subs" /\ phase' = "terms"
  /\ cancelled' = cancelled \cup {s \in Streams : \E c \in Channels : subs[c] = s}
  /\ subs' = [c \in Channels |-> NoStream]
  /\ UNCHANGED <<hostSide, signalled, restartCh, ipcUp, linkUp, stream,
                 terminals, writer>>

CloseTerminals ==
  /\ phase = "terms" /\ phase' = "ipc"
  /\ terminals # "stuck" /\ terminals' = "none"
  /\ UNCHANGED <<hostSide, signalled, restartCh, ipcUp, linkUp, subVars, writer>>

\* Shutdown waits for answers under way, 5 s.
StopIpc ==
  /\ phase = "ipc" /\ phase' = "close" /\ ipcUp' = FALSE
  /\ UNCHANGED <<hostSide, signalled, restartCh, linkUp, subVars, terminals,
                 writer>>

\* ws.Close waits for the writer; then Run returns and the process exits.
CloseLink ==
  /\ phase = "close" /\ writer = "idle"
  /\ NoProcess /\ UNCHANGED hostSide

\* External: a crash; the supervisor's SIGKILL to a process that was told to
\* stop and does not.
Dies == phase # "off" /\ NoProcess /\ UNCHANGED hostSide

-----------------------------------------------------------------------------
Comes == StartIpc \/ StartLoops
Goes == Leave \/ Drained \/ CancelSubscriptions \/ CloseTerminals \/ StopIpc
        \/ CloseLink

RunNext ==
  \/ Boot \/ Comes \/ AskRestart \/ Signal \/ SignalHeard \/ WriteStalls
  \/ WriteFails \/ TerminalChanges \/ Goes \/ Dies
  \/ \E c \in Channels : Subscribe(c) \/ Unsubscribe(c)
  \/ \E s \in Streams : StreamEnds(s)

\* Run's goroutine goes on where nothing blocks it; TCP gives a connection up
\* after some minutes; a supervisor starts what it is wanted to run.  A
\* terminal's program need never read.
RunFairness ==
  /\ WF_runVars(Comes \/ Goes) /\ SF_runVars(CloseLink) /\ WF_runVars(WriteFails)
  /\ WF_runVars(supervised /\ wanted /\ Boot)
  /\ \A s \in Streams : WF_runVars(StreamEnds(s))

RunSpec == RunInit /\ [][RunNext]_runVars /\ RunFairness

-----------------------------------------------------------------------------
\* Every stream that has not been told to end is the one its channel's
\* subscription would end: one per channel, and none that only the end of the
\* process ends; through resubscriptions, and through cleanup, which replaces
\* the map while the transport still delivers.
StreamsOwned ==
  \A s \in Streams \ cancelled :
    stream[s] # "none" => subs[stream[s]] = s

\* The inductive form.
RunInv == RunTypeOK /\ StreamsOwned

\* A restart that was accepted happens: a supervised agent comes up again,
\* however the connection stalls, unless a terminal's program holds it up or
\* an administrator has stopped it.
RestartHappens ==
  restartCh ~> \/ phase = "start"
               \/ phase = "off" /\ ~(supervised /\ wanted)
               \/ terminals = "stuck"

\* A stream that is no longer wanted ends.
StreamsEnd == \A s \in Streams : s \in cancelled ~> stream[s] = "none"
=============================================================================
