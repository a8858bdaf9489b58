-------------------------------- MODULE Tray --------------------------------
(***************************************************************************)
(* The tray (internal/tray) and the console's service buttons              *)
(* (internal/agentui/actions.go): programs of the desktop that start and   *)
(* stop the service and show what they last heard of it.                   *)
(*                                                                         *)
(* The tray asks every 5 s, and after a click, from two goroutines: each   *)
(* reads the configuration, asks the agent over IPC, and only then takes   *)
(* the mutex under which it changes icon, titles and buttons.  So an       *)
(* answer may be shown after a later one.                                  *)
(***************************************************************************)
EXTENDS ServiceHost

VARIABLES
  view,    \* what the tray shows, and which buttons it enables; "off"
           \* before it is started
  ticker,  \* refreshLoop: the answer in hand, or "idle"
  clicker, \* handleMenuClicks: the answer in hand, "idle", or its step
  console  \* a restart of the console: "idle" or "wait"

trayVars == <<view, ticker, clicker, console, svcVars>>

Views == {"unconfigured", "down", "up"}

TrayTypeOK ==
  /\ SvcTypeOK
  /\ view \in Views \cup {"off", "checking"}
  /\ ticker \in Views \cup {"idle"}
  /\ clicker \in Views \cup {"idle", "wait", "refresh"}
  /\ console \in {"idle", "wait"}

TrayInit ==
  /\ SvcInit
  /\ view = "off" /\ ticker = "idle" /\ clicker = "idle"
  /\ console = "idle"

\* The desktop starts the tray: onReady.
OnReady ==
  /\ view = "off" /\ view' = "checking"
  /\ UNCHANGED <<ticker, clicker, console, svcVars>>

\* What a refresh finds: IPC is served while the agent runs.
Answer == IF disk.config = NoId THEN "unconfigured"
          ELSE IF loop = "run" THEN "up" ELSE "down"

\* Mutant: a tray that shows the agent up does not ask again.
TickerAsks_UntilUp ==
  /\ view \notin {"off", "up"} /\ ticker = "idle" /\ ticker' = Answer
  /\ UNCHANGED <<view, clicker, console, svcVars>>

TickerAsks ==
  /\ view # "off" /\ ticker = "idle" /\ ticker' = Answer
  /\ UNCHANGED <<view, clicker, console, svcVars>>

TickerShows ==
  /\ ticker # "idle" /\ view' = ticker /\ ticker' = "idle"
  /\ UNCHANGED <<clicker, console, svcVars>>

ClickerAsks ==
  /\ clicker = "refresh" /\ clicker' = Answer
  /\ UNCHANGED <<view, ticker, console, svcVars>>

ClickerShows ==
  /\ clicker \in Views /\ view' = clicker /\ clicker' = "idle"
  /\ UNCHANGED <<ticker, console, svcVars>>

\* startAgent: a refused start is notified, and nothing is asked.
ClickStart ==
  /\ clicker = "idle" /\ view \in {"down", "checking"}
  /\ \/ ScmStart /\ clicker' = "refresh"
     \/ ~CanStart /\ UNCHANGED <<scm, loop, clicker>>
  /\ UNCHANGED <<view, ticker, console, installed, disk>>

\* stopAgent.
ClickStop ==
  /\ clicker = "idle" /\ view \in {"up", "checking"}
  /\ \/ ScmStop /\ clicker' = "refresh"
     \/ ~CanStop /\ UNCHANGED <<scm, loop, clicker>>
  /\ UNCHANGED <<view, ticker, console, installed, disk>>

\* restartAgent, restartService: stop, whatever it answers, 1 s, start.
ClickRestart ==
  /\ clicker = "idle" /\ view \in {"up", "checking"} /\ clicker' = "wait"
  /\ \/ ScmStop
     \/ ~CanStop /\ UNCHANGED <<scm, loop>>
  /\ UNCHANGED <<view, ticker, console, installed, disk>>

RestartStarts ==
  /\ clicker = "wait"
  /\ \/ ScmStart /\ clicker' = "refresh"
     \/ ~CanStart /\ UNCHANGED <<scm, loop>> /\ clicker' = "idle"
  /\ UNCHANGED <<view, ticker, console, installed, disk>>

\* handleServiceAction: the console's buttons are always enabled; restart is
\* a stop, 1.5 s, and a start.
ConsoleActs ==
  /\ \/ /\ console = "idle" /\ console' \in {"idle", "wait"}
        /\ ScmStop \/ (console' = "wait" /\ ~CanStop /\ UNCHANGED <<scm, loop>>)
     \/ /\ console' = "idle"
        /\ ScmStart \/ (console = "wait" /\ ~CanStart /\ UNCHANGED <<scm, loop>>)
  /\ UNCHANGED <<view, ticker, clicker, installed, disk>>

\* The wizard, a process of its own, saves a pairing.
WizardSaves ==
  /\ \E p \in Pairings : disk' = [config |-> p, key |-> p]
  /\ disk.config = NoId
  /\ UNCHANGED <<view, ticker, clicker, console, installed, scm, loop>>

Ticker == TickerAsks \/ TickerShows
Clicker == ClickerAsks \/ ClickerShows \/ RestartStarts

TrayNext ==
  \/ OnReady \/ Ticker \/ Clicker
  \/ ClickStart \/ ClickStop \/ ClickRestart \/ ConsoleActs \/ WizardSaves
  \/ (SvcSteps \/ LoopEnds) /\ UNCHANGED <<view, ticker, clicker, console>>

\* The 5 s ticker, and a click that is carried through.
TrayFairness == WF_trayVars(Ticker) /\ WF_trayVars(Clicker)

TraySpec == TrayInit /\ [][TrayNext]_trayVars /\ TrayFairness

-----------------------------------------------------------------------------
\* Once the service and the configuration rest, the tray comes to show them
\* and goes on doing so: no stale answer survives the next refresh, and no
\* click leaves the clicking goroutine waiting with one.
TrayCatchesUp ==
  \A v \in Views : <>[](Answer = v /\ view # "off") => <>[](view = v)
=============================================================================
