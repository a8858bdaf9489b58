---------------------------- MODULE TransportLink ----------------------------
(***************************************************************************)
(* What the transport manager relies on in its primary backend: the slice  *)
(* of ws.Client that wsBackend names (internal/transport/manager.go).      *)
(* WsClient implements it; TransportManager runs it.                       *)
(***************************************************************************)
CONSTANTS None, Errs  \* LastError: nil, or one of Errs

VARIABLES
  up,         \* IsConnected
  everUp,     \* EverConnected
  err,        \* LastError
  running,    \* Run has not returned
  cancelled   \* the ctx given to Run is cancelled

vars == <<up, everUp, err, running, cancelled>>

Init ==
  /\ up = FALSE /\ everUp = FALSE /\ err = None
  /\ running = TRUE /\ cancelled = FALSE

\* The socket is open; the panel has not yet accepted the agent.
Raise ==
  /\ running /\ ~up /\ up' = TRUE
  /\ UNCHANGED <<everUp, err, running, cancelled>>

\* The panel accepted the agent (a Close may have lowered the flag meanwhile).
Authenticate ==
  /\ running /\ everUp' = TRUE /\ err' = None
  /\ UNCHANGED <<up, running, cancelled>>

\* An attempt failed, at whatever stage.
Fail ==
  /\ running /\ up' = FALSE /\ err' \in Errs
  /\ UNCHANGED <<everUp, running, cancelled>>

\* The connection dropped or was closed; LastError is left as it was.
Lower ==
  /\ up /\ up' = FALSE
  /\ UNCHANGED <<everUp, err, running, cancelled>>

\* Run returns, only ever because ctx was cancelled.
Return ==
  /\ running /\ cancelled
  /\ running' = FALSE /\ up' = FALSE
  /\ UNCHANGED <<everUp, err, cancelled>>

Cancel ==
  /\ ~cancelled /\ cancelled' = TRUE
  /\ UNCHANGED <<up, everUp, err, running>>

Next == Raise \/ Authenticate \/ Fail \/ Lower \/ Return \/ Cancel

Spec == Init /\ [][Next]_vars
=============================================================================
