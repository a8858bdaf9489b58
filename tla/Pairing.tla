------------------------------ MODULE Pairing ------------------------------
(***************************************************************************)
(* Pairing this machine with a panel: a flow enrolls, waits until an       *)
(* operator claims it, saves config.yaml and the key file, and has the     *)
(* service restarted.  Flows are run by the console's wizard, with a pair  *)
(* code (internal/pairdriver under internal/agentui/pairer.go) or with a   *)
(* connection string, by the legacy wizard (internal/setupui), and by the  *)
(* commands `pair` (cmd/agent/pair.go) and `register` (main.go).           *)
(*                                                                         *)
(* A flow runs in a goroutine of its own; the window it belongs to shows   *)
(* what its callbacks last wrote.  Cancelling cancels a context: a flow    *)
(* notices in its next request or wait, and never between an answer and    *)
(* what it does with it.  Pair codes are rotated by the flow; a window     *)
(* holds the flow whose code it shows.  The panel and its operator are     *)
(* external.                                                               *)
(***************************************************************************)
EXTENDS ServiceHost

CONSTANTS
  Kinds \* bound: what the pairings may be, as functions on Pairings

KindNames == {"code", "string", "legacy", "pair", "register"}

ASSUME PairingAssumption == Kinds \subseteq [Pairings -> KindNames]

VARIABLES
  kind,      \* what each pairing is
  flow,      \* how far each flow has come
  dropped,   \* flows whose context is cancelled
  window,    \* per window: the stage, the flows whose code and whose
             \* passphrase are shown, and the flow that Cancel cancels
  enrolled,  \* external: the panel's enrollments
  mixed,     \* history: a save was cut short, or two of them overlapped
  served     \* history: the flows that had saved when the service was last
             \* started

\* Where a flow is shown.
Windows == {"console", "wizard", "terminal"}
Window(p) == CASE kind[p] \in {"code", "string"} -> "console"
               [] kind[p] = "legacy" -> "wizard"
               [] kind[p] \in {"pair", "register"} -> "terminal"

\* Those that are claimed by a token the panel has issued beforehand.
ByToken(p) == kind[p] \in {"string", "register"}

pairVars == <<kind, flow, dropped, window, enrolled, mixed, served, svcVars>>

Asking == {"enrolling", "waiting"}                 \* a request is out
Restarting == {"stop", "await", "start", "verify"} \* the service is
Ended == {"done", "unserved", "gone"}
Saved == Restarting \cup {"saved", "kick", "done", "unserved"}

FlowStates == {"none", "told", "errored", "granted", "configured"}
                \cup Asking \cup Saved \cup Ended
Screens == [stage : {"idle", "enrolling", "waiting", "claimed", "error"},
            code : Pairings \cup {NoId}, pass : Pairings \cup {NoId},
            live : Pairings \cup {NoId}]

PairTypeOK ==
  /\ SvcTypeOK
  /\ kind \in Kinds
  /\ flow \in [Pairings -> FlowStates]
  /\ dropped \subseteq Pairings
  /\ window \in [Windows -> Screens]
  /\ enrolled \in [Pairings -> {"no", "open", "claimed", "expired"}]
  /\ mixed \in BOOLEAN /\ served \subseteq Pairings

Blank == [stage |-> "idle", code |-> NoId, pass |-> NoId, live |-> NoId]

PairInit ==
  /\ SvcInit
  /\ kind \in Kinds
  /\ flow = [p \in Pairings |-> "none"]
  /\ dropped = {}
  /\ window = [w \in Windows |-> Blank]
  /\ enrolled = [p \in Pairings |-> "no"]
  /\ mixed = FALSE
  /\ served = {}

\* Flow p goes on to s, and its window comes to show r.
FlowTo(p, s) == flow' = [flow EXCEPT ![p] = s]
Screen(p) == window[Window(p)]
Shows(p, r) == window' = [window EXCEPT ![Window(p)] = r]

-----------------------------------------------------------------------------
(* The windows.                                                            *)

\* A flow begins in its window, and cancels those of "before".
Begins(p, before, pass) ==
  /\ flow[p] = "none" /\ disk.config # p
  /\ dropped' = dropped \cup (before \ {NoId})
  /\ FlowTo(p, "enrolling")
  /\ Shows(p, [stage |-> "enrolling", code |-> NoId, live |-> p, pass |-> pass])
  /\ UNCHANGED <<enrolled, mixed, served, svcVars>>

\* handleStart replaces a flow that is under way, and so does
\* handleConnectionString, which shows no passphrase.
HandleStart(p) ==
  kind[p] = "code" /\ Begins(p, {window["console"].live}, p)
HandleConnectionString(p) ==
  kind[p] = "string" /\ Begins(p, {window["console"].live}, NoId)

\* handleConnect, whose button is disabled while a flow is shown.
HandleConnect(p) ==
  /\ kind[p] = "legacy" /\ window["wizard"].stage \in {"idle", "error"}
  /\ Begins(p, {}, NoId)

\* runPair, with the passphrase the user has typed in, and runRegister.
RunPair(p) ==
  /\ kind[p] = "pair" /\ window["terminal"] = Blank /\ Begins(p, {}, p)
RunRegister(p) ==
  /\ kind[p] = "register" /\ window["terminal"] = Blank /\ Begins(p, {}, NoId)

Start(p) == HandleStart(p) \/ HandleConnectionString(p) \/ HandleConnect(p)
            \/ RunPair(p) \/ RunRegister(p)

\* handleCancel, of either wizard.
Cancels(w) ==
  /\ window[w] # Blank
  /\ dropped' = dropped \cup ({window[w].live} \ {NoId})
  /\ window' = [window EXCEPT ![w] = Blank]
  /\ UNCHANGED <<flow, enrolled, mixed, served, svcVars>>
ConsoleCancel == Cancels("console")
WizardCancel == Cancels("wizard")

\* The process of a window ends, and its flows with it, wherever they are.
Quit(w) ==
  LET here == {p \in Pairings : Window(p) = w
                                /\ flow[p] \notin Ended \cup {"none"}} IN
  /\ here # {}
  /\ flow' = [p \in Pairings |-> IF p \in here THEN "gone" ELSE flow[p]]
  /\ mixed' = (mixed \/ \E p \in here : flow[p] = "configured")
  /\ window' = [window EXCEPT ![w] = Blank]
  /\ UNCHANGED <<dropped, enrolled, served, svcVars>>

-----------------------------------------------------------------------------
(* Enrolling and waiting.                                                  *)

\* The answer to Enroll is in; RotateCode's, which gives the enrollment a new
\* code while the flow waits, is told in the same way.
Enrolled(p) ==
  /\ ~ByToken(p) /\ p \notin dropped /\ flow[p] = "enrolling"
  /\ enrolled' = [enrolled EXCEPT ![p] = "open"]
  /\ FlowTo(p, "told")
  /\ UNCHANGED <<dropped, window, mixed, served, svcVars>>

\* Mutant: the new code is not told.
RotateCode_Quietly(p) ==
  /\ ~ByToken(p) /\ p \notin dropped
  /\ flow[p] = "waiting" /\ enrolled[p] = "open"
  /\ UNCHANGED <<flow, dropped, window, enrolled, mixed, served, svcVars>>

RotateCode(p) ==
  /\ ~ByToken(p) /\ p \notin dropped
  /\ flow[p] = "waiting" /\ enrolled[p] = "open"
  /\ FlowTo(p, "told")
  /\ UNCHANGED <<dropped, window, enrolled, mixed, served, svcVars>>

\* Register, which is asked without the flow's context.
Registered(p) ==
  /\ ByToken(p) /\ flow[p] = "enrolling"
  /\ enrolled' = [enrolled EXCEPT ![p] = "claimed"]
  /\ FlowTo(p, IF p \in dropped THEN "gone" ELSE "granted")
  /\ UNCHANGED <<dropped, window, mixed, served, svcVars>>

\* OnEnrolled.  The legacy wizard shows the flow's own passphrase with it.
OnEnrolled(p) ==
  /\ flow[p] = "told"
  /\ FlowTo(p, "waiting")
  /\ Shows(p, [Screen(p) EXCEPT !.stage = "waiting", !.code = p,
                 !.pass = IF kind[p] = "legacy" THEN p ELSE @])
  /\ UNCHANGED <<dropped, enrolled, mixed, served, svcVars>>

\* Enrolling fails; what a cancelled request reports need not be that it was
\* cancelled, when the context ends while the body is read.
EnrollFails(p) ==
  /\ flow[p] = "enrolling"
  /\ FlowTo(p, "errored")
  /\ UNCHANGED <<dropped, window, enrolled, mixed, served, svcVars>>

\* OnError; the console leaves its state alone when told of a cancellation.
OnError(p) ==
  /\ flow[p] = "errored"
  /\ FlowTo(p, "gone")
  /\ \/ Shows(p, [Screen(p) EXCEPT !.stage = "error"])
     \/ p \in dropped /\ kind[p] = "code" /\ UNCHANGED window
  /\ UNCHANGED <<dropped, enrolled, mixed, served, svcVars>>

\* WaitForClaim ends without a word when its context does.
WaitCancelled(p) ==
  /\ flow[p] = "waiting" /\ p \in dropped
  /\ FlowTo(p, "gone")
  /\ UNCHANGED <<dropped, window, enrolled, mixed, served, svcVars>>

\* External: the operator types in the code and the passphrase of one window.
OperatorClaims(p) ==
  /\ window[Window(p)].stage = "waiting"
  /\ window[Window(p)].code = p /\ window[Window(p)].pass = p
  /\ enrolled[p] = "open"
  /\ enrolled' = [enrolled EXCEPT ![p] = "claimed"]
  /\ UNCHANGED <<flow, dropped, window, mixed, served, svcVars>>

\* External: nobody claimed it in time.  WaitForClaim polls on; of a flow
\* that has ended nobody asks any more.
EnrollmentExpires(p) ==
  /\ enrolled[p] = "open" /\ flow[p] \in {"told", "waiting"}
  /\ enrolled' = [enrolled EXCEPT ![p] = "expired"]
  /\ UNCHANGED <<flow, dropped, window, mixed, served, svcVars>>

\* A poll brings the credentials.  A failed one is repeated.
PollClaimed(p) ==
  /\ flow[p] = "waiting" /\ enrolled[p] = "claimed" /\ p \notin dropped
  /\ FlowTo(p, "granted")
  /\ UNCHANGED <<dropped, window, enrolled, mixed, served, svcVars>>

-----------------------------------------------------------------------------
(* Saving.                                                                 *)

\* The configuration, then the credentials.  Each may fail, and is reported.
SaveConfig(p) ==
  /\ flow[p] = "granted"
  /\ \/ /\ disk' = [disk EXCEPT !.config = p] /\ FlowTo(p, "configured")
        /\ mixed' = (mixed \/ \E q \in Pairings : flow[q] = "configured")
     \/ UNCHANGED <<disk, mixed>> /\ FlowTo(p, "errored")
  /\ UNCHANGED <<dropped, window, enrolled, served, installed, scm, loop>>

SaveCredentials(p) ==
  /\ flow[p] = "configured"
  /\ \/ disk' = [disk EXCEPT !.key = p] /\ FlowTo(p, "saved") /\ UNCHANGED mixed
     \/ UNCHANGED disk /\ FlowTo(p, "errored") /\ mixed' = TRUE
  /\ UNCHANGED <<dropped, window, enrolled, served, installed, scm, loop>>

\* Mutant: the service is taken to run with the new files if it runs.
ConsoleClaimed_NoRestart(p) == kind[p] = "code" /\ FlowTo(p, "verify")

\* OnClaimed, of the console.  Without the service it skips stopping and
\* starting, and waits for the service all the same.
ConsoleClaimed(p) ==
  /\ kind[p] = "code" /\ FlowTo(p, IF installed THEN "stop" ELSE "verify")

\* runConnectionStringFlow, once it has saved.
StringClaimed(p) ==
  /\ kind[p] = "string" /\ FlowTo(p, IF installed THEN "stop" ELSE "done")

\* OnClaimed, of the legacy wizard; the commands say how to start the agent.
WizardClaimed(p) == kind[p] = "legacy" /\ FlowTo(p, "kick")
CommandEnds(p) == kind[p] \in {"pair", "register"} /\ FlowTo(p, "done")

OnClaimed(p) ==
  /\ flow[p] = "saved" /\ Shows(p, [Screen(p) EXCEPT !.stage = "claimed"])
  /\ ConsoleClaimed(p) \/ StringClaimed(p) \/ WizardClaimed(p) \/ CommandEnds(p)
  /\ UNCHANGED <<dropped, enrolled, mixed, served, svcVars>>

-----------------------------------------------------------------------------
(* Having the service run with what was saved.                             *)

NowServed == served' = {p \in Pairings : flow[p] \in Saved}

\* sc stop; that it was refused is only logged.
StopService(p) ==
  /\ flow[p] = "stop" /\ FlowTo(p, "await")
  /\ \/ ScmStop
     \/ ~CanStop /\ UNCHANGED <<scm, loop>>
  /\ UNCHANGED <<dropped, window, enrolled, mixed, served, installed, disk>>

\* waitForServiceStopped: a stopped service, or 15 s.
AwaitStopped(p) ==
  /\ flow[p] = "await" /\ FlowTo(p, "start")
  /\ UNCHANGED <<dropped, window, enrolled, mixed, served, svcVars>>

\* sc start; that it was refused is shown.
StartService(p) ==
  /\ flow[p] = "start"
  /\ \/ ScmStart /\ NowServed /\ FlowTo(p, "verify") /\ UNCHANGED window
     \/ /\ ~CanStart /\ UNCHANGED <<scm, loop, served>>
        /\ FlowTo(p, "unserved") /\ Shows(p, [Screen(p) EXCEPT !.stage = "error"])
  /\ UNCHANGED <<dropped, enrolled, mixed, installed, disk>>

\* waitForServiceRunning: a running service, or 20 s.
VerifyRunning(p) ==
  /\ flow[p] = "verify"
  /\ \/ CanStop /\ FlowTo(p, "done") /\ UNCHANGED window
     \/ FlowTo(p, "unserved") /\ Shows(p, [Screen(p) EXCEPT !.stage = "error"])
  /\ UNCHANGED <<dropped, enrolled, mixed, served, svcVars>>

\* startServiceIfInstalled: what it answers is dropped.
StartIfInstalled(p) ==
  /\ flow[p] = "kick" /\ FlowTo(p, "done")
  /\ \/ ScmStart /\ NowServed
     \/ ~CanStart /\ UNCHANGED <<scm, loop, served>>
  /\ UNCHANGED <<dropped, window, enrolled, mixed, installed, disk>>

\* Somebody else starts or stops the service: the tray, the console's
\* buttons, an administrator.
OthersControl ==
  /\ \/ ScmStart /\ NowServed
     \/ ScmStop /\ UNCHANGED served
  /\ UNCHANGED <<flow, dropped, window, enrolled, mixed, installed, disk>>

-----------------------------------------------------------------------------
Works(p) ==
  \/ OnEnrolled(p) \/ OnError(p) \/ WaitCancelled(p) \/ PollClaimed(p)
  \/ SaveConfig(p) \/ SaveCredentials(p) \/ OnClaimed(p)
  \/ StopService(p) \/ AwaitStopped(p) \/ StartService(p) \/ VerifyRunning(p)
  \/ StartIfInstalled(p)
PanelAnswers(p) == Enrolled(p) \/ Registered(p) \/ EnrollFails(p)

PairNext ==
  /\ UNCHANGED kind
  /\ \/ \E p \in Pairings :
          \/ Start(p) \/ PanelAnswers(p) \/ RotateCode(p) \/ OperatorClaims(p)
          \/ EnrollmentExpires(p) \/ Works(p)
     \/ ConsoleCancel \/ WizardCancel \/ \E w \in Windows : Quit(w)
     \/ OthersControl
     \/ /\ SvcSteps \/ LoopEnds
        /\ UNCHANGED <<flow, dropped, window, enrolled, mixed, served>>

\* A flow goes on; the ticker rotates codes.
PairFairness ==
  \A p \in Pairings :
    /\ WF_pairVars(UNCHANGED kind /\ Works(p))
    /\ WF_pairVars(UNCHANGED kind /\ RotateCode(p))

PairSpec == PairInit /\ [][PairNext]_pairVars /\ PairFairness

-----------------------------------------------------------------------------
\* Whatever flows, windows and cancellations did, the configuration and the
\* key file name the same pairing once no flow is between its two saves;
\* unless one was cut short there, or two overlapped.
FilesAgree ==
  disk.config # disk.key =>
    mixed \/ \E p \in Pairings : flow[p] = "configured"

\* A wizard of the console that ends well has had the service started, by
\* itself or by another, after its files were saved.
DoneIsServed ==
  \A p \in Pairings :
    flow[p] = "done" /\ kind[p] \in {"code", "string"} /\ installed =>
      p \in served

\* On a machine without the service, a pairing whose files are saved ends
\* well: "Skip the restart cleanly in that case".
StandalonePairsCleanly ==
  \A p \in Pairings : flow[p] = "unserved" => installed

\* A claimed pairing is carried through: its flow ends, well or with an
\* error, or is cancelled.
ClaimIsCollected ==
  \A p \in Pairings :
    enrolled[p] = "claimed" ~> flow[p] \in Ended

\* While a flow of the console goes on waiting, its window ends up showing its
\* code, however many cancelled flows wrote over it: the next rotation puts it
\* right.
LiveCodeShows ==
  \A p \in Pairings :
    <>[](flow[p] \in {"waiting", "told"} /\ enrolled[p] = "open"
          /\ p \notin dropped /\ kind[p] = "code")
      => <>[](window[Window(p)].code = p)

\* The inductive form of the safety properties: a flow between its two saves
\* has written the configuration, and one that verifies the service has had it
\* started.
PairInv ==
  /\ PairTypeOK /\ FilesAgree /\ DoneIsServed
  /\ \A p \in Pairings :
       /\ flow[p] = "configured" => mixed \/ disk.config = p
       /\ flow[p] = "verify" /\ installed => p \in served
       /\ flow[p] = "kick" => kind[p] = "legacy"
=============================================================================
