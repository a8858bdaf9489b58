----------------------------- MODULE PollClient -----------------------------
(***************************************************************************)
(* The long-poll fallback of internal/transport/poll/client.go: Run and    *)
(* its requests, the payloads the agent buffers between two polls, Close   *)
(* from another goroutine, and the panel's side of the endpoints           *)
(* (external: modelled from what the client expects of them).              *)
(*                                                                         *)
(* A request and its answer are two steps; the panel may have served a     *)
(* request whose answer is lost.  Of the tokens only one thing is kept:    *)
(* whether the panel accepts the one in c.session.  Delays are in seconds. *)
(***************************************************************************)
EXTENDS Naturals

CONSTANTS
  BackoffMax,   \* backoffMax (30 in Run)
  MaxVersions,  \* bound: payloads the agent queues
  MaxForgets    \* bound: times the panel drops its sessions

ASSUME PollAssumption ==
  BackoffMax \in Nat \ {0} /\ MaxVersions \in Nat /\ MaxForgets \in Nat

VARIABLES
  ctxDone,    \* the ctx given to Run is cancelled
  pc,         \* where Run is
  hasToken,   \* c.session is not nil
  connected,  \* c.connected
  backoff,    \* the backoff of Run
  authError,  \* the last error of pollOnce was errAuth
  payload,    \* version of the payload buffered for the next poll; 0 for nil
  request,    \* version the poll under way carries
  closing,    \* Close: not called, posting this or an earlier token, returned
  accepted,   \* panel: it accepts the token in c.session
  recorded,   \* panel: the payload version it has on record
  forgets,    \* panel: times it dropped its sessions
  answered    \* history: the last request Run completed succeeded

runVars == <<pc, hasToken, connected, backoff, authError, request>>
agentVars == <<ctxDone, payload, closing>>
panelVars == <<accepted, recorded, forgets>>
histVars == answered
vars == <<runVars, agentVars, panelVars, histVars>>

Init ==
  /\ ctxDone = FALSE /\ payload = 0 /\ closing = "no"
  /\ pc = "idle" /\ hasToken = FALSE /\ connected = FALSE
  /\ backoff = 1 /\ authError = FALSE /\ request = 0
  /\ accepted = FALSE /\ recorded = 0 /\ forgets = 0
  /\ answered = FALSE

-----------------------------------------------------------------------------
(* Run.                                                                    *)

Start ==
  /\ pc = "idle" /\ pc' = "connect"
  /\ UNCHANGED <<hasToken, connected, backoff, authError, request, agentVars,
                 panelVars, histVars>>

\* /connect succeeds, the first time or after a 401.
Connected ==
  /\ pc \in {"connect", "reconnect"}
  /\ pc' = "loop" /\ hasToken' = TRUE /\ connected' = TRUE /\ backoff' = 1
  /\ accepted' = TRUE
  /\ closing' = IF closing = "current" THEN "earlier" ELSE closing
  /\ answered' = TRUE
  /\ UNCHANGED <<authError, request, ctxDone, payload, recorded, forgets>>

\* Mutant: a failed re-authentication ends Run too.
ConnectFailsHard ==
  /\ pc \in {"connect", "reconnect"} /\ pc' = "returned"
  /\ UNCHANGED <<hasToken, connected, backoff, authError, request, agentVars,
                 panelVars, histVars>>
\* /connect fails.  The first failure ends Run; a failed re-authentication
\* goes back to polling with the old token.  When only the answer was lost,
\* the panel has replaced the token.
ConnectFails ==
  /\ pc \in {"connect", "reconnect"}
  /\ pc' = IF pc = "connect" THEN "returned" ELSE "loop"
  /\ accepted' \in {accepted, FALSE}
  /\ answered' = FALSE
  /\ UNCHANGED <<hasToken, connected, backoff, authError, request, agentVars,
                 recorded, forgets>>

\* pollOnce puts what is buffered in the body and does not clear it.
\* Mutants: it clears it; Run polls without looking at ctx.
PollDrains ==
  /\ pc = "loop" /\ ~ctxDone
  /\ pc' = "poll" /\ request' = payload /\ payload' = 0
  /\ UNCHANGED <<hasToken, connected, backoff, authError, ctxDone, closing,
                 panelVars, histVars>>
PollAnyway ==
  /\ pc = "loop"
  /\ pc' = "poll" /\ request' = payload
  /\ UNCHANGED <<hasToken, connected, backoff, authError, agentVars, panelVars,
                 histVars>>
PollStarts ==
  /\ pc = "loop" /\ ~ctxDone
  /\ pc' = "poll" /\ request' = payload
  /\ UNCHANGED <<hasToken, connected, backoff, authError, agentVars, panelVars,
                 histVars>>

\* The panel overwrites its record with what the body carries.
Record ==
  /\ accepted
  /\ recorded' = IF request = 0 THEN recorded ELSE request
  /\ UNCHANGED <<accepted, forgets>>

PollSucceeds ==
  /\ pc = "poll" /\ Record
  /\ pc' = "loop" /\ connected' = TRUE /\ backoff' = 1
  /\ answered' = TRUE
  /\ UNCHANGED <<hasToken, authError, request, agentVars>>

\* Mutant: no error is one of authentication.
NeverAuth(isAuth) == FALSE
IsAuthError(isAuth) == isAuth

\* Mutant: the flag stays up.
PollErrorQuiet(isAuth) ==
  /\ pc = "poll" /\ pc' = IF ctxDone THEN "leave" ELSE "backoff"
  /\ authError' = isAuth /\ answered' = FALSE
  /\ UNCHANGED <<hasToken, connected, backoff, request, agentVars>>
\* pollOnce returns err: leave if cancelled, else lower the flag and wait.
PollError(isAuth) ==
  /\ pc = "poll"
  /\ pc' = IF ctxDone THEN "leave" ELSE "backoff"
  /\ connected' = (connected /\ ctxDone)
  /\ authError' = IsAuthError(isAuth)
  /\ answered' = FALSE
  /\ UNCHANGED <<hasToken, backoff, request, agentVars>>

\* The request or its answer is lost, or the panel answers with an error.
PollFails ==
  /\ PollError(FALSE)
  /\ Record \/ UNCHANGED panelVars

PollUnauthorized ==
  /\ ~accepted
  /\ PollError(TRUE)
  /\ UNCHANGED panelVars

Doubled(delay) == IF delay < BackoffMax THEN 2 * delay ELSE delay

BackoffEnds ==
  /\ pc = "backoff"
  /\ pc' = IF authError THEN "reconnect" ELSE "loop"
  /\ backoff' = Doubled(backoff)
  /\ UNCHANGED <<hasToken, connected, authError, request, agentVars, panelVars,
                 histVars>>

SeesCancel ==
  /\ pc \in {"loop", "backoff"} /\ ctxDone
  /\ pc' = "leave"
  /\ UNCHANGED <<hasToken, connected, backoff, authError, request, agentVars,
                 panelVars, histVars>>

\* The deferred disconnect, on the panel or only here; then Run returns.
Leave ==
  /\ pc = "leave"
  /\ pc' = "returned" /\ connected' = FALSE
  /\ accepted' \in {accepted, FALSE}
  /\ UNCHANGED <<hasToken, backoff, authError, request, agentVars, recorded,
                 forgets, histVars>>

-----------------------------------------------------------------------------
(* The agent and the panel.                                                *)

\* SendHeartbeat, or Send of system info or capabilities.
Queue ==
  /\ payload < MaxVersions
  /\ payload' = payload + 1
  /\ UNCHANGED <<runVars, ctxDone, closing, panelVars, histVars>>

\* Close is disconnect: nothing without a token, else a POST and the flag.
CloseStarts ==
  /\ closing = "no"
  /\ closing' = IF hasToken THEN "current" ELSE "returned"
  /\ UNCHANGED <<runVars, ctxDone, payload, panelVars, histVars>>

CloseEnds ==
  /\ closing \in {"current", "earlier"}
  /\ closing' = "returned" /\ connected' = FALSE
  /\ accepted' \in IF closing = "current" THEN {accepted, FALSE} ELSE {accepted}
  /\ UNCHANGED <<pc, hasToken, backoff, authError, request, ctxDone, payload,
                 recorded, forgets, histVars>>

CancelCtx ==
  /\ ~ctxDone /\ ctxDone' = TRUE
  /\ UNCHANGED <<runVars, payload, closing, panelVars, histVars>>

\* The panel restarts or expires the session.
PanelForgets ==
  /\ accepted /\ forgets < MaxForgets
  /\ accepted' = FALSE /\ forgets' = forgets + 1
  /\ UNCHANGED <<runVars, agentVars, recorded, histVars>>

Returned ==
  /\ pc = "returned"
  /\ UNCHANGED vars

RunStep ==
  \/ Start \/ Connected \/ ConnectFails
  \/ PollStarts \/ PollSucceeds \/ PollFails \/ PollUnauthorized
  \/ BackoffEnds \/ SeesCancel \/ Leave

Next ==
  \/ RunStep \/ Queue \/ CloseStarts \/ CloseEnds \/ CancelCtx \/ PanelForgets
  \/ Returned

Spec == Init /\ [][Next]_vars

(***************************************************************************)
(* Fairness.  Every request has a deadline (35 s for the HTTP client), so  *)
(* Run never waits for ever; Close's has one of 2 s.  Answers may be lost, *)
(* but not all of them from some point on: strong fairness on the answers  *)
(* the panel gives stands for a panel that can be reached.                 *)
(***************************************************************************)
Fairness ==
  /\ WF_vars(RunStep) /\ WF_vars(CloseEnds)
  /\ SF_vars(Connected) /\ SF_vars(PollSucceeds) /\ SF_vars(PollUnauthorized)

FairSpec == Spec /\ Fairness

-----------------------------------------------------------------------------
Serving == pc \in {"loop", "poll", "backoff", "reconnect"}

TypeOK ==
  /\ ctxDone \in BOOLEAN /\ hasToken \in BOOLEAN /\ connected \in BOOLEAN
  /\ pc \in {"idle", "connect", "loop", "poll", "backoff", "reconnect", "leave",
             "returned"}
  /\ backoff \in 1..2 * BackoffMax - 1 /\ authError \in BOOLEAN
  /\ payload \in 0..MaxVersions /\ request \in 0..MaxVersions
  /\ recorded \in 0..MaxVersions
  /\ closing \in {"no", "current", "earlier", "returned"}
  /\ accepted \in BOOLEAN /\ forgets \in 0..MaxForgets
  /\ answered \in BOOLEAN

\* A transport reported as connected has had its last request answered, for
\* every interleaving of polls, re-authentications and a Close from elsewhere
\* (client.go:154, 208, 227, 273, the four stores).
ConnectedMeansAnswered == connected /\ Serving => answered

\* The inductive form: the flag is down wherever Run is not serving, and a poll
\* carries something the agent has buffered, no older than the panel's record.
ClientInv ==
  /\ TypeOK
  /\ ConnectedMeansAnswered
  /\ pc \in {"idle", "connect", "backoff", "reconnect", "returned"} => ~connected
  /\ recorded <= payload /\ request <= payload
  /\ pc = "poll" => recorded <= request
  /\ pc = "leave" => ctxDone
  /\ pc \notin {"idle", "connect", "returned"} => hasToken
  /\ closing \in {"current", "earlier"} => hasToken

\* The panel's record never goes back to an older payload, however many polls
\* are repeated because their answer was lost (client.go:244-250).
RecordOnlyGrows == [][recorded' >= recorded /\ recorded <= payload]_vars

\* A payload reaches the panel even if the polls that carried it are lost
\* (client.go:244-250, "Don't drain the system_info / capabilities buffers").
PayloadArrives ==
  \A v \in 1..MaxVersions :
    Serving /\ payload = v ~> recorded >= v \/ ~Serving

\* When the panel has dropped the session, polling finds out through a 401 and
\* re-authenticates (client.go:151-170).
ReauthRecovers == Serving /\ ~accepted ~> accepted \/ ~Serving

\* Cancelling ctx ends Run, whatever it waits for.
StopsOnCancel == ctxDone /\ pc # "idle" ~> pc = "returned"

\* Neither lost polls nor lost sessions keep the panel in the dark for ever, and
\* neither keeps a cancelled Run.
PanelIsReached == PayloadArrives /\ ReauthRecovers /\ StopsOnCancel

\* The client implements the fallback the transport manager is written against.
Link == INSTANCE PollLink
          WITH up <- connected, cancelled <- ctxDone,
               stage <- CASE pc = "idle" -> "off" [] pc = "connect" -> "connecting"
                          [] pc = "returned" -> "returned" [] OTHER -> "serving"

\* Seen through IsConnected and the return of Run, every step is one the
\* manager expects or none: once the first /connect has succeeded, Run returns
\* only when cancelled, and with the flag down.
ImplementsLink == Link!Spec
=============================================================================
