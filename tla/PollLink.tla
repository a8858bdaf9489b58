------------------------------ MODULE PollLink ------------------------------
(***************************************************************************)
(* What the transport manager relies on in its fallback backend: the       *)
(* Transport interface as poll.Client keeps it.  PollClient implements it; *)
(* TransportManager runs it.                                               *)
(***************************************************************************)
VARIABLES
  stage,     \* of Run: "off", "connecting", "serving" or "returned"
  up,        \* IsConnected
  cancelled  \* the ctx given to Run is cancelled

vars == <<stage, up, cancelled>>

Init == stage = "off" /\ up = FALSE /\ cancelled = FALSE

Start ==
  /\ stage = "off" /\ stage' = "connecting"
  /\ UNCHANGED <<up, cancelled>>

\* The first /connect decides whether Run serves or gives up.
Connect ==
  /\ stage = "connecting" /\ stage' = "serving" /\ up' = TRUE
  /\ UNCHANGED cancelled

GiveUp ==
  /\ stage = "connecting" /\ stage' = "returned"
  /\ UNCHANGED <<up, cancelled>>

Raise ==
  /\ stage = "serving" /\ ~up /\ up' = TRUE
  /\ UNCHANGED <<stage, cancelled>>

Lower ==
  /\ up /\ up' = FALSE
  /\ UNCHANGED <<stage, cancelled>>

\* Once serving, Run returns only because ctx was cancelled.
Return ==
  /\ stage = "serving" /\ cancelled
  /\ stage' = "returned" /\ up' = FALSE
  /\ UNCHANGED cancelled

Cancel ==
  /\ ~cancelled /\ cancelled' = TRUE
  /\ UNCHANGED <<stage, up>>

Next == Start \/ Connect \/ GiveUp \/ Raise \/ Lower \/ Return \/ Cancel

Spec == Init /\ [][Next]_vars
=============================================================================
