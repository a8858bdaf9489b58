-------------------------- MODULE PollClientProofs --------------------------
(***************************************************************************)
(* The long-poll client keeps its invariant, never lets the panel's record *)
(* go back, and implements the link the transport manager is written       *)
(* against, for any backoff limit and any number of payloads.              *)
(***************************************************************************)
EXTENDS PollClient, TLAPS

USE PollAssumption DEF PollAssumption

LEMMA InitClient == Init => ClientInv
<1> SUFFICES ASSUME Init PROVE ClientInv
  OBVIOUS
<1>1. backoff \in 1..2 * BackoffMax - 1 /\ forgets \in 0..MaxForgets
  BY DEF Init
<1>2. /\ payload \in 0..MaxVersions /\ request \in 0..MaxVersions
      /\ recorded \in 0..MaxVersions /\ recorded <= payload /\ request <= payload
  BY DEF Init
<1>3. TypeOK  BY <1>1, <1>2 DEF Init, TypeOK
<1> QED
  BY <1>2, <1>3, Zenon DEF Init, ClientInv, ConnectedMeansAnswered, Serving

\* The type invariant and the rest of ClientInv, one action at a time.
LEMMA NextClient == ClientInv /\ [Next]_vars => ClientInv'
<1> SUFFICES ASSUME ClientInv, [Next]_vars PROVE ClientInv'
  OBVIOUS
<1> USE DEF ClientInv, TypeOK, ConnectedMeansAnswered, Serving,
            runVars, agentVars, panelVars, histVars
<1>1. CASE Start  BY <1>1 DEF Start
<1>2. CASE Connected  BY <1>2 DEF Connected
<1>3. CASE ConnectFails  BY <1>3 DEF ConnectFails
<1>4. CASE PollStarts  BY <1>4 DEF PollStarts
<1>5. CASE PollSucceeds  BY <1>5 DEF PollSucceeds, Record
<1>6. CASE PollFails  BY <1>6 DEF PollFails, PollError, Record, IsAuthError
<1>7. CASE PollUnauthorized  BY <1>7 DEF PollUnauthorized, PollError, IsAuthError
<1>8. CASE BackoffEnds  BY <1>8 DEF BackoffEnds, Doubled
<1>9. CASE SeesCancel  BY <1>9 DEF SeesCancel
<1>10. CASE Leave  BY <1>10 DEF Leave
<1>11. CASE Queue  BY <1>11 DEF Queue
<1>12. CASE CloseStarts  BY <1>12 DEF CloseStarts
<1>13. CASE CloseEnds  BY <1>13 DEF CloseEnds
<1>14. CASE CancelCtx  BY <1>14 DEF CancelCtx
<1>15. CASE PanelForgets
  <2>1. forgets' \in 0..MaxForgets  BY <1>15 DEF PanelForgets
  <2> QED  BY <1>15, <2>1 DEF PanelForgets
<1>16. CASE UNCHANGED vars  BY <1>16 DEF vars
<1> QED  BY <1>1, <1>2, <1>3, <1>4, <1>5, <1>6, <1>7, <1>8, <1>9, <1>10, <1>11,
            <1>12, <1>13, <1>14, <1>15, <1>16 DEF Next, RunStep, Returned

\* The flag is up only after an answer, wherever Run is, and the delay, the
\* token and the payload under way are what each place of Run says they are.
THEOREM ClientSafe == Spec => []ClientInv
BY InitClient, NextClient, PTL DEF Spec

\* No lost answer, repeated poll or new session takes the panel's record back.
THEOREM RecordGrows == Spec => RecordOnlyGrows
<1>1. ClientInv /\ [Next]_vars =>
        [recorded' >= recorded /\ recorded <= payload]_vars
  <2> SUFFICES ASSUME ClientInv, [Next]_vars
               PROVE  (recorded' >= recorded /\ recorded <= payload) \/ UNCHANGED vars
    OBVIOUS
  <2>1. CASE PollSucceeds  BY <2>1 DEF PollSucceeds, Record, ClientInv, TypeOK
  <2>2. CASE PollFails  BY <2>2 DEF PollFails, PollError, Record, ClientInv, TypeOK,
                                 panelVars
  <2>3. CASE ~PollSucceeds /\ ~PollFails
    <3>1. UNCHANGED recorded
      BY <2>3 DEF Next, RunStep, Returned, Start, Connected, ConnectFails, PollStarts,
                  PollUnauthorized, BackoffEnds, SeesCancel, Leave, Queue, CloseStarts,
                  CloseEnds, CancelCtx, PanelForgets, vars, panelVars
    <3> QED  BY <3>1 DEF ClientInv, TypeOK
  <2> QED  BY <2>1, <2>2, <2>3
<1> QED  BY <1>1, ClientSafe, PTL DEF Spec, RecordOnlyGrows

\* Every step of the client is one that the manager expects of its fallback, or
\* none: Run goes from the first /connect to serving or to its return, and once
\* serving it returns only when cancelled, with the flag down.
THEOREM FallbackImplemented == Spec => ImplementsLink
<1>1. Init => Link!Init
  BY DEF Init, Link!Init
<1>2. ClientInv /\ ClientInv' /\ [Next]_vars => [Link!Next]_(Link!vars)
  <2> SUFFICES ASSUME ClientInv, ClientInv', [Next]_vars
               PROVE  Link!Next \/ UNCHANGED Link!vars
    OBVIOUS
  <2> USE DEF ClientInv, TypeOK, runVars, agentVars, panelVars, histVars, Link!vars
  <2>1. CASE Start
    <3>1. Link!Start  BY <2>1 DEF Start, Link!Start
    <3> QED  BY <3>1 DEF Link!Next
  <2>2. CASE Connected
    <3>1. CASE pc = "connect"
      <4>1. Link!Connect  BY <2>2, <3>1 DEF Connected, Link!Connect
      <4> QED  BY <4>1 DEF Link!Next
    <3>2. CASE pc = "reconnect"
      <4>1. Link!Raise  BY <2>2, <3>2 DEF Connected, Link!Raise
      <4> QED  BY <4>1 DEF Link!Next
    <3> QED  BY <2>2, <3>1, <3>2 DEF Connected
  <2>3. CASE ConnectFails
    <3>1. CASE pc = "connect"
      <4>1. Link!GiveUp  BY <2>3, <3>1 DEF ConnectFails, Link!GiveUp
      <4> QED  BY <4>1 DEF Link!Next
    <3>2. CASE pc = "reconnect"
      BY <2>3, <3>2 DEF ConnectFails
    <3> QED  BY <2>3, <3>1, <3>2 DEF ConnectFails
  <2>4. CASE PollStarts  BY <2>4 DEF PollStarts
  <2>5. CASE PollSucceeds
    <3>1. CASE connected  BY <2>5, <3>1 DEF PollSucceeds
    <3>2. CASE ~connected
      <4>1. Link!Raise  BY <2>5, <3>2 DEF PollSucceeds, Link!Raise
      <4> QED  BY <4>1 DEF Link!Next
    <3> QED  BY <3>1, <3>2
  <2>6. ASSUME NEW isAuth \in BOOLEAN, PollError(isAuth)
        PROVE  Link!Next \/ UNCHANGED Link!vars
    <3>1. CASE connected' = connected  BY <2>6, <3>1 DEF PollError
    <3>2. CASE connected' # connected
      <4>1. Link!Lower  BY <2>6, <3>2 DEF PollError, Link!Lower
      <4> QED  BY <4>1 DEF Link!Next
    <3> QED  BY <3>1, <3>2
  <2>7. CASE PollFails \/ PollUnauthorized
    BY <2>6, <2>7 DEF PollFails, PollUnauthorized
  <2>8. CASE BackoffEnds \/ SeesCancel
    BY <2>8 DEF BackoffEnds, SeesCancel
  <2>9. CASE Leave
    <3>1. Link!Return  BY <2>9 DEF Leave, Link!Return
    <3> QED  BY <3>1 DEF Link!Next
  <2>10. CASE Queue \/ CloseStarts \/ PanelForgets
    BY <2>10 DEF Queue, CloseStarts, PanelForgets
  <2>11. CASE CloseEnds
    <3>1. CASE connected
      <4>1. Link!Lower  BY <2>11, <3>1 DEF CloseEnds, Link!Lower
      <4> QED  BY <4>1 DEF Link!Next
    <3>2. CASE ~connected  BY <2>11, <3>2 DEF CloseEnds
    <3> QED  BY <3>1, <3>2
  <2>12. CASE CancelCtx
    <3>1. Link!Cancel  BY <2>12 DEF CancelCtx, Link!Cancel
    <3> QED  BY <3>1 DEF Link!Next
  <2>13. CASE UNCHANGED vars  BY <2>13 DEF vars
  <2> QED  BY <2>1, <2>2, <2>3, <2>4, <2>5, <2>7, <2>8, <2>9, <2>10, <2>11, <2>12, <2>13
              DEF Next, RunStep, Returned
<1> QED  BY <1>1, <1>2, ClientSafe, PTL DEF Spec, ImplementsLink, Link!Spec
=============================================================================
