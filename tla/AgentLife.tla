----------------------------- MODULE AgentLife -----------------------------
(***************************************************************************)
(* The life of an agent on its machine, beside the transports and the      *)
(* commands: pairing, the service and those who control it, a run of the   *)
(* agent's process, what it tells the panel it can do, its activity log,   *)
(* the listing of units, and monitor mode with its reporter and checks.    *)
(* Each is specified in a module of its own.  Pairing and the tray share   *)
(* the service (module ServiceHost), and what one does to it the other     *)
(* takes for the doing of an administrator; the rest share nothing.  So a  *)
(* behaviour here is one of one protocol, the one that "part" names.       *)
(***************************************************************************)
EXTENDS AgentRun, Pairing, Tray, Capabilities, EventLog, UnitListing,
        Reporter, ServiceChecks

VARIABLE part  \* the protocol at work

Parts == {"run", "pair", "tray", "caps", "log", "list", "report", "checks"}

\* Pairing and the tray without the service they share.
pairOwn == <<kind, flow, dropped, window, enrolled, mixed, served>>
trayOwn == <<view, ticker, clicker, console>>

lifeVars == <<part, runVars, pairOwn, trayOwn, svcVars, capVars, logVars,
              listVars, reportVars, checkVars>>

\* A protocol that is not at work has one initial state only, in which it has
\* not been started.
LifeInit ==
  /\ part \in Parts
  /\ RunInit /\ (part # "run" => ~supervised)
  /\ PairInit /\ (part # "pair" => kind = CHOOSE k \in Kinds : TRUE)
  /\ TrayInit
  /\ part \notin {"pair", "tray"} => ~installed
  /\ CapInit /\ (part # "caps" => onPath = {} /\ ~caps.sudo)
  /\ LogInit
  /\ ListInit
  /\ ReportInit /\ (part # "report" => interval = MinInterval)
  /\ CheckInit /\ (part # "checks" => facts = CHOOSE f \in FirstFacts : TRUE)

OthersRest ==
  /\ UNCHANGED part
  /\ part # "run" => UNCHANGED runVars
  /\ part # "pair" => UNCHANGED pairOwn
  /\ part # "tray" => UNCHANGED trayOwn
  /\ part \notin {"pair", "tray"} => UNCHANGED svcVars
  /\ part # "caps" => UNCHANGED capVars
  /\ part # "log" => UNCHANGED logVars
  /\ part # "list" => UNCHANGED listVars
  /\ part # "report" => UNCHANGED reportVars
  /\ part # "checks" => UNCHANGED checkVars

LifeNext ==
  \/ part = "run" /\ RunNext /\ OthersRest
  \/ part = "pair" /\ PairNext /\ OthersRest
  \/ part = "tray" /\ TrayNext /\ OthersRest
  \/ part = "caps" /\ CapNext /\ OthersRest
  \/ part = "log" /\ LogNext /\ OthersRest
  \/ part = "list" /\ ListNext /\ OthersRest
  \/ part = "report" /\ ReportNext /\ OthersRest
  \/ part = "checks" /\ CheckNext /\ OthersRest

LifeSpec ==
  /\ LifeInit /\ [][LifeNext]_lifeVars
  /\ RunFairness /\ PairFairness /\ TrayFairness /\ CapFairness

-----------------------------------------------------------------------------
LifeTypeOK ==
  /\ part \in Parts
  /\ RunTypeOK /\ PairTypeOK /\ TrayTypeOK /\ CapTypeOK /\ LogTypeOK
  /\ ListTypeOK /\ ReportTypeOK /\ CheckTypeOK

\* A pairing leaves files that belong together, and a wizard that ends well
\* leaves a service that was started with them.
PairingSafe == FilesAgree /\ DoneIsServed

\* A claimed pairing is carried through, and a console shows the code that an
\* operator can use.
PairingProceeds == ClaimIsCollected /\ LiveCodeShows

\* Those who look at the agent from elsewhere come to see what is the case:
\* the tray the service, the panel the agent's capabilities.
ViewsCatchUp == TrayCatchesUp /\ PanelCatchesUp

\* What the agent is asked to end comes to its end.
EndsAsAsked == RestartHappens /\ StreamsEnd

\* What the panel is told of the machine is so: of its tools, of systemctl, and
\* of the services that monitor mode checks.
TellsWhatIs == ProbeSeesWhatWasInstalled /\ JSONIsHonest /\ ChecksTell

\* The activity log keeps, and a poll of it gets, what it should.
LogSafe == RingsHoldNewest /\ PollMissesOnlyTies

\* The inductive form: that of each protocol.  While the tray is at work no
\* pairing runs.
LifeInv ==
  /\ part \in Parts
  /\ RunInv /\ PairInv /\ TrayTypeOK /\ CapInv /\ LogInv /\ ListInv
  /\ ReporterInv /\ ChecksInv
  /\ part = "tray" => \A p \in Pairings : flow[p] = "none"
=============================================================================
