----------------------------- MODULE PackageOps -----------------------------
(***************************************************************************)
(* The package operations of internal/agent/package_handlers.go and        *)
(* workflow_handlers.go, and the lock they share.  Install, remove and     *)
(* update_cache are handlers: they run on a pool worker under a deadline.  *)
(* install_async and upgrade register a job, answer, and go on in a        *)
(* goroutine of their own, under a deadline of their own.                  *)
(***************************************************************************)
EXTENDS Naturals, FiniteSets

CONSTANTS
  Ops,      \* operations the panel asks for
  Kind,     \* per operation: a member of Kinds
  MaxLines  \* bound: batches of output one package-manager command prints

Kinds == {"install", "remove", "update_cache", "install_async", "upgrade"}
Jobs == {"install_async", "upgrade"}
\* The operations that call pkgLock.Lock.
Locking == {"update_cache"} \cup Jobs

ASSUME OpsAssumption ==
  /\ IsFiniteSet(Ops) /\ Kind \in [Ops -> Kinds]
  /\ MaxLines \in Nat

VARIABLES
  at,       \* per operation: where it is
  lock,     \* holders of pkgLock
  expired,  \* operations whose handler ctx is done
  printed,  \* per operation: batches of output pushed
  done      \* per operation: "done" events pushed (jobs), answers (handlers)

vars == <<at, lock, expired, printed, done>>

IsJob(o) == Kind[o] \in Jobs
Goto(o, to) == at' = [at EXCEPT ![o] = to]

Init ==
  /\ at = [o \in Ops |-> "asked"]
  /\ lock = {}
  /\ expired = {}
  /\ printed = [o \in Ops |-> 0]
  /\ done = [o \in Ops |-> 0]

\* Parameters and manager are validated and the job, if any, is registered;
\* a refusal ends the operation before it starts.
Begin(o) ==
  /\ at[o] = "asked"
  /\ \/ Goto(o, "refused")
     \/ Goto(o, IF Kind[o] \in Locking THEN "locking" ELSE "probing")
  /\ UNCHANGED <<lock, expired, printed, done>>

\* sync.Mutex.Lock: no ctx ends this wait.
\* Mutant: a lock per operation.
LockOwn(o) ==
  /\ at[o] = "locking" /\ lock' = {o}
  /\ Goto(o, IF Kind[o] = "install_async" THEN "probing" ELSE "ready")
  /\ UNCHANGED <<expired, printed, done>>
Lock(o) ==
  /\ at[o] = "locking" /\ lock = {}
  /\ lock' = {o}
  /\ Goto(o, IF Kind[o] = "install_async" THEN "probing" ELSE "ready")
  /\ UNCHANGED <<expired, printed, done>>

\* isInstalled finds nothing to do, or the package manager has to run.
Probe(o) ==
  /\ at[o] = "probing"
  /\ \E to \in {"ready", "reporting"} : Goto(o, to)
  /\ UNCHANGED <<lock, expired, printed, done>>

\* The package manager starts, or does not (no sudo, a done ctx).
Run(o) ==
  /\ at[o] = "ready"
  /\ \/ Goto(o, "reporting")
     \/ (o \notin expired \/ IsJob(o)) /\ Goto(o, "mutating")
  /\ UNCHANGED <<lock, expired, printed, done>>

\* streamCmdOutput pushes a batch of the job's output.
\* Mutant: it goes on after the process has ended.
PrintLate(o) ==
  /\ at[o] \in {"mutating", "reporting", "over"} /\ IsJob(o) /\ printed[o] < MaxLines
  /\ printed' = [printed EXCEPT ![o] = @ + 1]
  /\ UNCHANGED <<at, lock, expired, done>>
PrintLines(o) ==
  /\ at[o] = "mutating" /\ IsJob(o) /\ printed[o] < MaxLines
  /\ printed' = [printed EXCEPT ![o] = @ + 1]
  /\ UNCHANGED <<at, lock, expired, done>>

\* Every process that holds the output has closed it.
Exit(o) ==
  /\ at[o] = "mutating"
  /\ Goto(o, "reporting")
  /\ UNCHANGED <<lock, expired, printed, done>>

\* emitDone, or the handler's answer; the deferred Unlock.
\* Mutants: no Unlock; a second emitDone.
ReportHolding(o) ==
  /\ at[o] = "reporting" /\ Goto(o, "over")
  /\ done' = [done EXCEPT ![o] = @ + 1]
  /\ UNCHANGED <<lock, expired, printed>>
ReportTwice(o) ==
  /\ at[o] = "reporting" /\ Goto(o, "over")
  /\ done' = [done EXCEPT ![o] = @ + 2] /\ lock' = lock \ {o}
  /\ UNCHANGED <<expired, printed>>
Report(o) ==
  /\ at[o] = "reporting"
  /\ Goto(o, "over")
  /\ done' = [done EXCEPT ![o] = @ + 1]
  /\ lock' = lock \ {o}
  /\ UNCHANGED <<expired, printed>>

\* The deadline of a command passes, or cleanup cancels it.
Expire(o) ==
  /\ ~IsJob(o) /\ o \notin expired /\ at[o] \notin {"asked", "refused", "over"}
  /\ expired' = expired \cup {o}
  /\ UNCHANGED <<at, lock, printed, done>>

AllOver ==
  /\ \A o \in Ops : at[o] \in {"refused", "over"}
  /\ UNCHANGED vars

OpStep(o) == Lock(o) \/ Probe(o) \/ Run(o) \/ Exit(o) \/ Report(o)

Next ==
  \/ \E o \in Ops : Begin(o) \/ OpStep(o) \/ PrintLines(o) \/ Expire(o)
  \/ AllOver

Spec == Init /\ [][Next]_vars

(***************************************************************************)
(* Fairness.  Goroutines are scheduled, and sync.Mutex hands itself to a   *)
(* waiter that has starved for 1 ms, so no waiter is passed over for ever. *)
(* That a package manager ends is an assumption about the host: the        *)
(* deadline kills the process the agent started, which may be sudo, and    *)
(* the output is read until the last of its descendants has closed it.     *)
(***************************************************************************)
Fairness == \A o \in Ops : WF_vars(Probe(o) \/ Run(o) \/ Exit(o) \/ Report(o))
                           /\ SF_vars(Lock(o))

FairSpec == Spec /\ Fairness

-----------------------------------------------------------------------------
TypeOK ==
  /\ at \in [Ops -> {"asked", "refused", "locking", "probing", "ready",
                    "mutating", "reporting", "over"}]
  /\ lock \subseteq Ops /\ expired \subseteq Ops
  /\ printed \in [Ops -> 0..MaxLines] /\ done \in [Ops -> 0..1]

Inside(o) == at[o] \in {"probing", "ready", "mutating", "reporting"}

\* Of the operations that take pkgLock one at a time is between its Lock and
\* its Unlock, on every path through it, and it is the holder
\* (package_handlers.go:102, 328, 401).
LockedOpsExclusive ==
  \A o, p \in {q \in Ops : Kind[q] \in Locking} :
    /\ Inside(o) <=> o \in lock
    /\ Inside(o) /\ Inside(p) => o = p

\* An operation has reported exactly when it is over.
ReportedOnce == \A o \in Ops : done[o] = (IF at[o] = "over" THEN 1 ELSE 0)

LockInv == TypeOK /\ LockedOpsExclusive /\ ReportedOnce

\* A job's channel carries exactly one "done" event and nothing after it, on
\* every path through the job (package_handlers.go:332-397, 405-468).
DoneIsLast ==
  [][\A o \in Ops : /\ done'[o] <= 1
                    /\ done[o] = 1 => printed'[o] = printed[o]
                    /\ at'[o] = "over" => done'[o] = 1]_vars

\* Every operation ends, however many wait for the lock and however often one
\* that does not take it gets in between.
OpsEnd == \A o \in Ops : at[o] \notin {"asked", "refused"} ~> at[o] = "over"

-----------------------------------------------------------------------------
(* What a comment says of the operations and the code does not do.         *)

\* "pkgLock serializes package-manager mutations (install / remove / upgrade /
\* update_cache) ... so two concurrent requests don't race on dpkg/rpm locks"
\* (agent.go:72-75).
MutationsSerialized ==
  \A o, p \in Ops : at[o] = "mutating" /\ at[p] = "mutating" => o = p
=============================================================================
