---------------------------- MODULE RuntimeJobs ----------------------------
(***************************************************************************)
(* Jobs that run a program and stream what it prints: pyenv's              *)
(* (agent/runtime_handlers.go), docker builds                              *)
(* (docker_extra_handlers.go) and following a journal                      *)
(* (systemd_handlers.go).  Installing and removing a Python take           *)
(* pyenvLock; bootstrapping pyenv itself, a clone into the directory       *)
(* pyenvBin looks in, does not.  A job has a deadline of its own that      *)
(* kills its program.  The events it pushes are those of module JobStream. *)
(***************************************************************************)

CONSTANTS
  RtJobs,   \* bound: jobs and commands of a run
  Pythons,  \* versions
  NoJob

ASSUME RuntimeAssumption == NoJob \notin RtJobs /\ Pythons # {}

\* A version means nothing to some of them.
RtOps == {"install", "uninstall", "bootstrap", "build", "follow"}

VARIABLES
  pyenv,     \* external: ~/.pyenv; "partial" while cloned and when cut short
  pythons,   \* external: the Pythons under it
  pyenvLock, \* the holder
  rtJob      \* per job: what it does and how far it is

rtVars == <<pyenv, pythons, pyenvLock, rtJob>>

RtTypeOK ==
  /\ pyenv \in {"absent", "partial", "whole"} /\ pythons \subseteq Pythons
  /\ pyenvLock \in RtJobs \cup {NoJob}
  /\ rtJob \in [RtJobs ->
       [op : RtOps, v : Pythons, ok : BOOLEAN,
        at : {"no", "lock", "start", "run", "tell", "told"}]]

RtInit ==
  /\ pyenv \in {"absent", "whole"} /\ pythons = {} /\ pyenvLock = NoJob
  /\ rtJob = [j \in RtJobs |-> [op |-> "build", v |-> CHOOSE v \in Pythons : TRUE,
                                at |-> "no", ok |-> FALSE]]

RtAt(j, place) == rtJob' = [rtJob EXCEPT ![j].at = place]

\* pyenvBin: the clone may have got as far as the program, or not.
BinMayBe == CASE pyenv = "absent" -> {FALSE} [] pyenv = "partial" -> BOOLEAN
              [] pyenv = "whole" -> {TRUE}

\* A job or a handler that has been accepted, about to take the lock or not.
Accepted(j, op, w, place) ==
  rtJob' = [rtJob EXCEPT ![j] = [op |-> op, v |-> w, ok |-> FALSE, at |-> place]]

\* handleRuntimesPythonInstall is refused without pyenv; the job waits for the
\* lock.
AskInstall(j) ==
  TRUE \in BinMayBe /\ \E w \in Pythons : Accepted(j, "install", w, "lock")

\* Mutant: an uninstall does without the lock.
AskUninstall_AtOnce(j) == \E w \in Pythons : Accepted(j, "uninstall", w, "start")

\* handleRuntimesPythonUninstall itself waits for it.
AskUninstall(j) == \E w \in Pythons : Accepted(j, "uninstall", w, "lock")

\* A bootstrap is answered "already installed" when there is a program.
AskBootstrap(j) ==
  FALSE \in BinMayBe /\ \E w \in Pythons : Accepted(j, "bootstrap", w, "start")

\* handleDockerImageBuild, and handleSystemdLogsFollow.
AskBuild(j) == \E w \in Pythons : Accepted(j, "build", w, "start")
AskFollow(j) == \E w \in Pythons : Accepted(j, "follow", w, "start")

AskJob(j) ==
  /\ rtJob[j].at = "no"
  /\ \/ AskInstall(j) \/ AskUninstall(j) \/ AskBootstrap(j)
     \/ AskBuild(j) \/ AskFollow(j)
  /\ UNCHANGED <<pyenv, pythons, pyenvLock>>

LockPyenv(j) ==
  /\ rtJob[j].at = "lock" /\ pyenvLock = NoJob
  /\ pyenvLock' = j /\ RtAt(j, "start")
  /\ UNCHANGED <<pyenv, pythons>>

\* The program starts.  A clone needs an empty place and fills it.
StartProgram(j) ==
  /\ rtJob[j].at = "start"
  /\ IF rtJob[j].op = "bootstrap"
     THEN IF pyenv = "absent" THEN pyenv' = "partial" /\ RtAt(j, "run")
                              ELSE UNCHANGED pyenv /\ RtAt(j, "tell")
     ELSE UNCHANGED pyenv /\ RtAt(j, "run")
  /\ UNCHANGED <<pythons, pyenvLock>>

Outcome(j, good) ==
  rtJob' = [rtJob EXCEPT ![j].at = "tell", ![j].ok = good]

\* The program ends.  `install -s` of what is installed succeeds at once; an
\* uninstall says no more than that.
ProgramSucceeds(j) ==
  /\ rtJob[j].at = "run" /\ Outcome(j, TRUE)
  /\ rtJob[j].op \in {"install", "uninstall"} => TRUE \in BinMayBe
  /\ pyenv' = IF rtJob[j].op = "bootstrap" THEN "whole" ELSE pyenv
  /\ pythons' = CASE rtJob[j].op = "install" -> pythons \cup {rtJob[j].v}
                   [] rtJob[j].op = "uninstall" -> pythons \ {rtJob[j].v}
                   [] OTHER -> pythons
  /\ UNCHANGED pyenvLock

\* It fails, or is killed by the deadline, which is how a journal is meant to
\* end.  git removes what it has cloned, and what is in it, unless it is
\* killed; a Python half removed is gone.
ProgramFails(j) ==
  /\ rtJob[j].at = "run"
  /\ Outcome(j, FALSE) \/ (rtJob[j].op = "follow" /\ Outcome(j, TRUE))
  /\ pyenv' \in IF rtJob[j].op = "bootstrap" THEN {"absent", "partial"} ELSE {pyenv}
  /\ pythons' \in CASE pyenv' = "absent" -> {{}}
                      [] rtJob[j].op = "uninstall" /\ pyenv' # "absent" ->
                           {pythons, pythons \ {rtJob[j].v}}
                      [] OTHER -> {pythons}
  /\ UNCHANGED pyenvLock

\* emitDone, or the answer; then the deferred Unlock.
TellDone(j) ==
  /\ rtJob[j].at = "tell" /\ RtAt(j, "told")
  /\ pyenvLock' = IF pyenvLock = j THEN NoJob ELSE pyenvLock
  /\ UNCHANGED <<pyenv, pythons>>

RtWork(j) == StartProgram(j) \/ ProgramSucceeds(j) \/ ProgramFails(j) \/ TellDone(j)

RtNext == \E j \in RtJobs : AskJob(j) \/ LockPyenv(j) \/ RtWork(j)

\* Goroutines are scheduled, a waiting Lock is served, and a program ends by
\* its deadline.
RtFairness ==
  \A j \in RtJobs : WF_rtVars(RtWork(j)) /\ SF_rtVars(LockPyenv(j))

RtSpec == RtInit /\ [][RtNext]_rtVars /\ RtFairness

-----------------------------------------------------------------------------
\* A clone that failed has taken away what was installed into it meanwhile.
CloneFailed == \E j \in RtJobs : rtJob[j].op = "bootstrap" /\ ~rtJob[j].ok
                                 /\ rtJob[j].at \in {"tell", "told"}

\* When a job says that a Python is installed, or that it is gone, it is so,
\* whatever other jobs install and remove meanwhile (pyenvLock), unless a
\* clone failed; and pyenv is whole when a bootstrap says so, although that
\* takes no lock.
PyenvTells ==
  \A j \in RtJobs :
    rtJob[j].at = "tell" /\ rtJob[j].ok =>
      /\ rtJob[j].op = "install" => rtJob[j].v \in pythons \/ CloneFailed
      /\ rtJob[j].op = "uninstall" => rtJob[j].v \notin pythons
      /\ rtJob[j].op = "bootstrap" => pyenv = "whole"

\* The inductive form: who works on Pythons holds the lock, and one clone at a
\* time finds the empty place it needs.
RtInv ==
  /\ RtTypeOK /\ PyenvTells
  /\ pyenv = "absent" => pythons = {}
  /\ \A j \in RtJobs :
       /\ rtJob[j].at \in {"lock", "start", "run"} => ~rtJob[j].ok
       /\ rtJob[j].at = "lock" => rtJob[j].op \in {"install", "uninstall"}
       /\ rtJob[j].at \in {"start", "run", "tell"}
            /\ rtJob[j].op \in {"install", "uninstall"} => pyenvLock = j
  /\ \A i, j \in RtJobs :
       rtJob[j].op = "bootstrap" /\ rtJob[j].at = "run" =>
         /\ pyenv = "partial"
         /\ rtJob[i].op = "bootstrap" /\ rtJob[i].at = "run" => i = j

\* Every job comes to its end, however many want the lock.
RtJobsEnd == \A j \in RtJobs : rtJob[j].at # "no" ~> rtJob[j].at = "told"
=============================================================================
