---------------------------- MODULE HostChanges ----------------------------
(***************************************************************************)
(* The commands that change the host one call at a time: SSH keys, the     *)
(* crontab, the origin lock, the agent's own binary and credentials,       *)
(* terminals, the Cloudflare login, WireGuard tunnels and the runtimes.    *)
(* Each is specified in a module of its own.  They share the worker pool   *)
(* (module CommandPool) and nothing else, neither a variable nor a file:   *)
(* what one does neither helps nor hinders another, so a behaviour here is *)
(* one of one protocol, the one that "part" names.                         *)
(***************************************************************************)
EXTENDS AuthorizedKeys, Crontab, OriginLock, BinaryUpdate, Credentials,
        Terminals, TunnelLogin, TunnelLink, TunnelDevice, RuntimeJobs

VARIABLE part  \* the protocol at work

Parts == {"keys", "cron", "lock", "update", "creds", "term", "login", "link",
          "device", "runtime"}

hostVars == <<part, keyVars, cronVars, lockVars, updateVars, credVars,
              termVars, loginVars, linkVars, devVars, rtVars>>

\* A protocol that is not at work has one initial state only.
HostInit ==
  /\ part \in Parts
  /\ KeyInit /\ (part # "keys" => authFile = <<>> /\ ~userExists)
  /\ CronInit /\ (part # "cron" => crontab = <<>>)
  /\ LockInit /\ (part # "lock" => public = CHOOSE rules \in FirstRules : TRUE)
  /\ UpdateInit
  /\ CredInit /\ (part # "creds" => ~legacy)
  /\ TermInit
  /\ LoginInit /\ (part # "login" => ~cert)
  /\ LinkInit /\ (part # "link" => keyOnDisk = {})
  /\ DevInit
  /\ RtInit /\ (part # "runtime" => pyenv = "absent")

OthersRest ==
  /\ UNCHANGED part
  /\ part # "keys" => UNCHANGED keyVars
  /\ part # "cron" => UNCHANGED cronVars
  /\ part # "lock" => UNCHANGED lockVars
  /\ part # "update" => UNCHANGED updateVars
  /\ part # "creds" => UNCHANGED credVars
  /\ part # "term" => UNCHANGED termVars
  /\ part # "login" => UNCHANGED loginVars
  /\ part # "link" => UNCHANGED linkVars
  /\ part # "device" => UNCHANGED devVars
  /\ part # "runtime" => UNCHANGED rtVars

HostNext ==
  \/ part = "keys" /\ KeyNext /\ OthersRest
  \/ part = "cron" /\ CronNext /\ OthersRest
  \/ part = "lock" /\ LockNext /\ OthersRest
  \/ part = "update" /\ UpdateNext /\ OthersRest
  \/ part = "creds" /\ CredNext /\ OthersRest
  \/ part = "term" /\ TermNext /\ OthersRest
  \/ part = "login" /\ LoginNext /\ OthersRest
  \/ part = "link" /\ LinkNext /\ OthersRest
  \/ part = "device" /\ DevNext /\ OthersRest
  \/ part = "runtime" /\ RtNext /\ OthersRest

HostSpec ==
  HostInit /\ [][HostNext]_hostVars /\ TermFairness /\ LoginFairness
           /\ RtFairness

HostTypeOK ==
  /\ part \in Parts
  /\ KeyTypeOK /\ CronTypeOK /\ LockTypeOK /\ UpdateTypeOK
  /\ CredTypeOK /\ TermTypeOK /\ LoginTypeOK /\ LinkTypeOK
  /\ DevTypeOK /\ RtTypeOK

\* What the agent needs to come up again survives a failure or a crash at any
\* call: a binary that runs, and the credentials it has acknowledged.
DiskRecoverable == BinaryRecoverable /\ RotationSafe

\* Nothing the agent has opened on the host is left without somebody who can
\* close it: no shell, no listener, no interface.
ResourcesOwned == ShellIsOwned /\ TunnelSafe /\ DeviceSafe

\* What a job tells the panel of its end is so: that a Python or pyenv is there
\* or gone, and how a login went, once and last.
JobsTell == PyenvTells /\ LoginToldOnce

\* What was told to end, or has a deadline, ends: a shell that was taken to be
\* closed, a login, a job of the runtimes.
CommandsEnd == TakenShellEnds /\ LoginEnds /\ RtJobsEnd
=============================================================================
