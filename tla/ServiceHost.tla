---------------------------- MODULE ServiceHost ----------------------------
(***************************************************************************)
(* The agent as a Windows service: the state the service control manager   *)
(* keeps (external), the service's Execute loop                            *)
(* (cmd/agent/service_windows.go) and the agent loop it runs               *)
(* (agentMainLoop of cmd/agent/main.go), as far as those who start and     *)
(* stop the service (the wizards, the console, the tray) can tell.         *)
(*                                                                         *)
(* The configuration is on disk in two files, config.yaml with the         *)
(* agent's ID and the key file with its credentials; each is represented   *)
(* by the pairing it came from.                                            *)
(***************************************************************************)

CONSTANTS
  Pairings, \* identities a panel has granted
  NoId      \* not paired: no configuration, or no key file

ASSUME ServiceAssumption == NoId \notin Pairings

VARIABLES
  installed, \* external: ServerKitAgent is registered with the manager
  scm,       \* external: the manager's state of the service
  loop,      \* the agent loop
  disk       \* the files

svcVars == <<installed, scm, loop, disk>>

Files == [config : Pairings \cup {NoId}, key : Pairings \cup {NoId}]

SvcTypeOK ==
  /\ installed \in BOOLEAN
  /\ scm \in {"stopped", "starting", "running", "stopping"}
  /\ loop \in {"none", "load", "run", "drain", "ended"}
  /\ disk \in Files

\* A machine the agent has been copied to, with or without the service.
SvcInit ==
  /\ installed \in BOOLEAN
  /\ disk = [config |-> NoId, key |-> NoId]
  /\ scm = "stopped" /\ loop = "none"

\* The answers of sc.exe, and what a request that is accepted does.  The
\* manager refuses to start a service that is not stopped (1056) and to stop
\* one that is not running (1061, 1062); both fail without the service (1060).
CanStart == installed /\ scm = "stopped"
CanStop == installed /\ scm = "running"

ScmStart == CanStart /\ scm' = "starting" /\ UNCHANGED loop

\* Execute reports StopPending and cancels the loop's context.
ScmStop ==
  /\ CanStop
  /\ scm' = "stopping"
  /\ loop' = IF loop \in {"load", "run"} THEN "drain" ELSE loop

\* Execute starts the loop and reports Running: before the loop has loaded
\* its configuration.
Execute ==
  /\ scm = "starting"
  /\ scm' = "running" /\ loop' = "load"
  /\ UNCHANGED <<installed, disk>>

\* Missing credentials do not keep the agent from starting; a missing
\* configuration does, and so does another process that holds the mutex or
\* the IPC port.
LoopLoads ==
  /\ loop = "load"
  /\ loop' \in IF disk.config = NoId THEN {"ended"} ELSE {"run", "ended"}
  /\ UNCHANGED <<installed, scm, disk>>

\* Run returned: its context was cancelled, or somebody asked the agent to
\* restart over IPC, which ends the loop.
LoopEnds ==
  /\ loop \in {"run", "drain"}
  /\ loop' = "ended"
  /\ UNCHANGED <<installed, scm, disk>>

ReportStopped ==
  /\ loop = "ended"
  /\ scm' = "stopped" /\ loop' = "none"
  /\ UNCHANGED <<installed, disk>>

SvcSteps == Execute \/ LoopLoads \/ ReportStopped

\* Execute and the loop are goroutines that nothing holds up; a cancelled
\* loop ends, one that runs need not.
SvcFairness ==
  /\ WF_svcVars(Execute) /\ WF_svcVars(LoopLoads) /\ WF_svcVars(ReportStopped)
  /\ WF_svcVars(loop = "drain" /\ LoopEnds)
=============================================================================
